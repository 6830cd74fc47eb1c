-------------------------------- MODULE Ssufs --------------------------------
(***************************************************************************)
(* The file system hw6/ssufs_q: ssufs-disk.c (superblock, inodes, data     *)
(* blocks in one file) and ssufs-ops.c (the calls on files).  The program  *)
(* has one thread, so a call is one action; only ssufs_write takes one     *)
(* action per turn of its loop over direct_blocks.                         *)
(*                                                                         *)
(* The client uses a handle only while it is open and its file exists,     *)
(* gives names shorter than MAX_NAME_STRLEN, writes at least one byte and, *)
(* unless Overwrites, writes at the end of a file only.  The programs      *)
(* ssufs_test.c and ssufs_Dtest.c are such clients.                        *)
(***************************************************************************)
EXTENDS Integers, Sequences, FiniteSets

CONSTANTS BLOCKSIZE, NUM_DATA_BLOCKS, NUM_INODES, MAX_FILE_SIZE, MAX_OPEN_FILES,
          CLEARED,      \* sizeof(buf) in ssufs_delete, the size of a pointer
          Names,        \* file names
          Sizes, Seeks, \* arguments of ssufs_read and ssufs_write, of ssufs_lseek
          Buffers,      \* contents of the buffer of a write
          Uninit,       \* values of rollback_index before it is assigned
          Overwrites    \* does the client write before the end of a file?

MaxBytes == MAX_FILE_SIZE * BLOCKSIZE
NUL == 0      \* the byte '\0'
JUNK == -1    \* a byte of memory that was never assigned

ASSUME SsufsAssumption ==
  /\ {BLOCKSIZE, NUM_DATA_BLOCKS, NUM_INODES, MAX_FILE_SIZE, MAX_OPEN_FILES} \subseteq Nat \ {0}
  /\ CLEARED \in 0..BLOCKSIZE /\ Overwrites \in BOOLEAN
  /\ Sizes \subseteq Nat /\ Seeks \subseteq Int
  /\ Uninit \subseteq 0..MAX_FILE_SIZE   \* MAX_FILE_SIZE: no index of direct_blocks
  /\ Buffers \subseteq [0..MaxBytes - 1 -> Nat \ {0}]

VARIABLES inode_used, block_used,   \* the superblock: what is not on its free lists
          inodes, data,             \* the inodes and the data blocks on disk
          eof,                      \* data blocks inside the disk file
          handles,                  \* file_handle_array
          stale,                    \* handles that were open when their file was deleted
          ret,                      \* -1 if the last call failed, 0 if not
          pc,                       \* "write": ssufs_write runs; "abort": an assert failed
          call                      \* locals of ssufs_write

disk == <<inode_used, block_used, inodes, data, eof>>
vars == <<disk, handles, stale, ret, pc, call>>

Inodes == 0..NUM_INODES - 1
Blocks == 0..NUM_DATA_BLOCKS - 1
Handles == 0..MAX_OPEN_FILES - 1
Direct == 0..MAX_FILE_SIZE - 1
Bytes == 0..BLOCKSIZE - 1

FreeInode == [status |-> "x", name |-> "", file_size |-> 0, direct_blocks |-> [k \in Direct |-> -1]]
NoHandle == [offset |-> 0, inode_number |-> -1]
Zeros == [k \in Bytes |-> NUL]
Garbage == [k \in Bytes |-> JUNK]

\* The first element of a set of indices, -1 if there is none.
First(S) == IF S = {} THEN -1 ELSE CHOOSE k \in S : \A j \in S : k <= j

\* No write runs.
NoCall ==
  [fh |-> 0, nbytes |-> 0, i |-> 0, f_offset |-> 0, curr |-> 0,
   buf |-> CHOOSE b \in Buffers : TRUE, tmp |-> FreeInode, tmp_buf |-> Garbage, isUsed |-> {},
   rollback |-> Garbage, rollback_index |-> 0]

Init ==
  /\ inode_used = {} /\ block_used = {} /\ eof = 0
  /\ inodes = [k \in Inodes |-> FreeInode] /\ data = [b \in Blocks |-> Zeros]
  /\ handles = [h \in Handles |-> NoHandle]
  /\ stale = {} /\ ret = 0 /\ pc = "idle" /\ call = NoCall

Idle == pc = "idle"
\* An assert fails and ends the program.
Abort == pc' = "abort" /\ UNCHANGED <<disk, handles, stale, ret, call>>
Returns(r) == pc' = "idle" /\ ret' = r /\ call' = NoCall

ssufs_formatDisk ==
  /\ Idle
  /\ inode_used' = {} /\ block_used' = {} /\ eof' = 0
  /\ inodes' = [k \in Inodes |-> FreeInode] /\ data' = [b \in Blocks |-> Zeros]
  /\ handles' = [h \in Handles |-> NoHandle] /\ stale' = {} /\ Returns(0)

open_namei(f) == First({k \in inode_used : inodes[k].name = f})
ssufs_allocInode == First(Inodes \ inode_used)
ssufs_allocDataBlock == First(Blocks \ block_used)
ssufs_allocFileHandle == First({h \in Handles : handles[h].inode_number = -1})

CannotCreate(f) == open_namei(f) # -1 \/ ssufs_allocInode = -1

ssufs_create(f) ==
  /\ Idle /\ UNCHANGED <<block_used, data, eof, handles, stale>>
  /\ LET k == ssufs_allocInode IN
       IF CannotCreate(f)
         THEN Returns(-1) /\ UNCHANGED <<inode_used, inodes>>
         ELSE /\ inode_used' = inode_used \cup {k}
              /\ inodes' = [inodes EXCEPT ![k].status = "1", ![k].name = f]
              /\ Returns(0)

\* memset(buf, 0, sizeof(buf)) clears as many bytes as a pointer has.
Erased(bytes) == [n \in Bytes |-> IF n < CLEARED THEN NUL ELSE bytes[n]]

\* Mutant: the size of a deleted file stays.
Deleted_MutSize(k) == [inodes[k] EXCEPT !.status = "x", !.direct_blocks = FreeInode.direct_blocks]
Deleted(k) == [FreeInode EXCEPT !.name = inodes[k].name]

\* The assert of ssufs_readDataBlock: the block lies inside the disk file.
InFile(b) == b < eof
\* The assert of ssufs_freeDataBlock: each block d[j], j \in S, is in use when it is freed.
FreeFails(d, S) == \E j \in S : d[j] \notin block_used \/ \E l \in S \ {j} : d[j] = d[l]

ssufs_delete(f) ==
  /\ Idle /\ open_namei(f) # -1
  /\ LET k == open_namei(f)
         d == inodes[k].direct_blocks
         present == {j \in Direct : d[j] # -1}
         freed == {d[j] : j \in present}
     IN IF (\E b \in freed : ~InFile(b)) \/ FreeFails(d, present)
        THEN Abort
        ELSE /\ data' = [b \in Blocks |-> IF b \in freed THEN Erased(data[b]) ELSE data[b]]
             /\ inode_used' = inode_used \ {k} /\ block_used' = block_used \ freed
             /\ inodes' = [inodes EXCEPT ![k] = Deleted(k)]
             /\ stale' = stale \cup {h \in Handles : handles[h].inode_number = k}
             /\ Returns(0) /\ UNCHANGED <<eof, handles>>

ssufs_open(f) ==
  /\ Idle /\ UNCHANGED <<disk, stale>>
  /\ LET k == open_namei(f)   h == ssufs_allocFileHandle IN
       IF k = -1 \/ h = -1
         THEN Returns(-1) /\ UNCHANGED handles
         ELSE /\ handles' = [handles EXCEPT ![h] = [offset |-> 0, inode_number |-> k]]
              /\ Returns(0)

ssufs_close(h) ==
  /\ Idle /\ handles[h].inode_number # -1
  /\ handles' = [handles EXCEPT ![h] = NoHandle] /\ stale' = stale \ {h}
  /\ Returns(0) /\ UNCHANGED disk

Usable(h) == handles[h].inode_number # -1 /\ h \notin stale
FileOf(h) == inodes[handles[h].inode_number]

BadOffset(h, offset) == offset < 0 \/ offset > FileOf(h).file_size

ssufs_lseek(h, nseek) ==
  /\ Idle /\ Usable(h) /\ UNCHANGED <<disk, stale>>
  /\ LET offset == handles[h].offset + nseek IN
       IF BadOffset(h, offset)
         THEN Returns(-1) /\ UNCHANGED handles
         ELSE Returns(0) /\ handles' = [handles EXCEPT ![h].offset = offset]

-----------------------------------------------------------------------------
\* ssufs_read: the loop takes the blocks there are from the one with the offset on,
\* and ends when nbytes are copied, which for nbytes = 0 is never.
BlocksFrom(h) ==
  {j \in Direct : j >= handles[h].offset \div BLOCKSIZE /\ FileOf(h).direct_blocks[j] # -1}
BlockAt(h, n) ==
  FileOf(h).direct_blocks[CHOOSE j \in BlocksFrom(h) : Cardinality({l \in BlocksFrom(h) : l < j}) = n]
\* Byte k of the buffer comes from this position behind the start of the first block.
\* Mutant: the read starts at the beginning of that block.
Position_MutStart(h, k) == k
Position(h, k) == (handles[h].offset % BLOCKSIZE) + k
Starts(h) == Position(h, 0) # 0 => handles[h].offset \div BLOCKSIZE \in BlocksFrom(h)
Readable(h, n) ==
  n > 0 /\ Starts(h) /\ Position(h, n) <= Cardinality(BlocksFrom(h)) * BLOCKSIZE
Visited(h, n) ==
  IF Readable(h, n) THEN {BlockAt(h, Position(h, k) \div BLOCKSIZE) : k \in 0..n - 1}
  ELSE {FileOf(h).direct_blocks[j] : j \in {l \in BlocksFrom(h) : Starts(h)}}
Copied(h, n) ==
  [k \in 1..n |-> data[BlockAt(h, Position(h, k - 1) \div BLOCKSIZE)][Position(h, k - 1) % BLOCKSIZE]]

\* The trailing ssufs_lseek(file_handle, nbytes) of a call that succeeds.
Advance(h, n, size) ==
  LET offset == handles[h].offset + n IN
    handles' = IF offset > size THEN handles ELSE [handles EXCEPT ![h].offset = offset]

ssufs_read(h, n) ==
  /\ Idle /\ Usable(h)
  /\ IF handles[h].offset + n > FileOf(h).file_size
       THEN Returns(-1) /\ UNCHANGED <<disk, handles, stale>>
     ELSE IF \E b \in Visited(h, n) : ~InFile(b) THEN Abort
     ELSE /\ UNCHANGED <<disk, stale>>
          /\ IF Readable(h, n) THEN Advance(h, n, FileOf(h).file_size) /\ Returns(0)
             ELSE Returns(-1) /\ UNCHANGED handles
-----------------------------------------------------------------------------
\* ssufs_write

\* Mutant: a file may have one byte too many.
TooLarge_MutOne(h, n) == FileOf(h).file_size + n > MaxBytes + 1
TooLarge(h, n) == FileOf(h).file_size + n > MaxBytes

ssufs_write(h, n, b) ==
  /\ Idle /\ Usable(h) /\ n > 0 /\ UNCHANGED <<disk, handles, stale>>
  /\ Overwrites \/ handles[h].offset = FileOf(h).file_size
  /\ IF TooLarge(h, n)
       THEN Returns(-1)
       ELSE /\ pc' = "write" /\ UNCHANGED ret
            /\ \E u \in Uninit :
                 call' = [NoCall EXCEPT !.fh = h, !.nbytes = n, !.f_offset = handles[h].offset,
                            !.buf = b, !.tmp = FileOf(h), !.rollback_index = u]

InBlock == 0 <= call.f_offset /\ call.f_offset < BLOCKSIZE
Missing == call.nbytes - call.curr
Room == BLOCKSIZE - call.f_offset
Last == Missing <= Room   \* curr == nbytes happens in this block

\* The end of a turn that found no block: f_offset comes nearer to its block.
SkipBlock ==
  /\ call' = [call EXCEPT !.i = @ + 1, !.f_offset = IF @ # 0 THEN @ - BLOCKSIZE ELSE 0]
  /\ UNCHANGED <<disk, handles, stale, ret, pc>>

\* strcpy stops at the first '\0'; a byte after one that may be '\0' is unknown.
Strcpy(bytes) ==
  [k \in Bytes |-> IF \E j \in 0..k - 1 : bytes[j] \in {NUL, JUNK} THEN JUNK ELSE bytes[k]]

\* What the block holds before the new bytes are put in.
\* Mutant: it is not read when it is written from the middle.
Base_MutBlank(b) == call.tmp_buf
Base(b) == IF call.f_offset # 0 THEN data[b] ELSE call.tmp_buf

\* ssufs_writeDataBlock extends the disk file.
EofWith(b) == IF InFile(b) THEN eof ELSE b + 1

\* A turn that has a data block: read it if it is written from the middle, write it.
WriteBlock(b) ==
  LET middle == call.f_offset # 0
      n == IF Last THEN Missing ELSE Room
      new == [k \in Bytes |-> IF k \in call.f_offset..call.f_offset + n - 1
                                THEN call.buf[call.curr + k - call.f_offset] ELSE Base(b)[k]]
      inode == [call.tmp EXCEPT !.direct_blocks[call.i] = b]
      size == inode.file_size + call.nbytes
  IN /\ block_used' = block_used \cup {b} /\ data' = [data EXCEPT ![b] = new]
     /\ eof' = EofWith(b)
     /\ UNCHANGED <<inode_used, stale>>
     /\ \/ /\ Last
           /\ inodes' = [inodes EXCEPT ![handles[call.fh].inode_number] =
                           [inode EXCEPT !.file_size = size]]
           /\ Advance(call.fh, call.nbytes, size) /\ Returns(0)
        \/ /\ ~Last /\ UNCHANGED <<inodes, handles, ret, pc>>
           /\ call' = [call EXCEPT
                !.i = @ + 1, !.f_offset = 0, !.curr = @ + Room, !.tmp = inode, !.tmp_buf = Zeros,
                !.isUsed = @ \cup {call.i},
                !.rollback = IF middle THEN Strcpy(data[b]) ELSE @,
                !.rollback_index = IF middle THEN call.i ELSE @]

\* Mutant: the block that was there before the write is freed as well.
Freeing_MutAll == call.isUsed
Freeing == call.isUsed \ {call.rollback_index}

\* No free block: the block at rollback_index gets its old contents back, the other
\* blocks of this write are cleared and freed; the assert is that they are in use.
Rollback ==
  LET d == call.tmp.direct_blocks
      writers(b) == {j \in call.isUsed : d[j] = b}
  IN IF FreeFails(d, Freeing)
     THEN Abort
     ELSE /\ data' = [b \in Blocks |->
               IF writers(b) = {} THEN data[b]
               ELSE IF \E j \in writers(b) : j = call.rollback_index /\ \A l \in writers(b) : l <= j
                    THEN call.rollback ELSE call.tmp_buf]
          /\ block_used' = block_used \ {d[j] : j \in Freeing}
          /\ Returns(-1) /\ UNCHANGED <<inode_used, inodes, eof, handles, stale>>

\* Behind its last turn the loop ends without a rollback.
write_turn ==
  /\ pc = "write"
  /\ LET d == call.tmp.direct_blocks[call.i]
         b == IF d = -1 THEN ssufs_allocDataBlock ELSE d
     IN IF call.i = MAX_FILE_SIZE THEN Returns(-1) /\ UNCHANGED <<disk, handles, stale>>
        ELSE IF ~InBlock THEN SkipBlock
        ELSE IF b = -1 THEN Rollback
        ELSE IF call.f_offset = 0 \/ InFile(b) THEN WriteBlock(b) ELSE Abort
-----------------------------------------------------------------------------
Next ==
  \/ ssufs_formatDisk
  \/ \E f \in Names : ssufs_create(f) \/ ssufs_delete(f) \/ ssufs_open(f)
  \/ \E h \in Handles :
       \/ ssufs_close(h)
       \/ \E n \in Seeks : ssufs_lseek(h, n)
       \/ \E n \in Sizes : ssufs_read(h, n) \/ \E b \in Buffers : ssufs_write(h, n, b)
  \/ write_turn

Spec == Init /\ [][Next]_vars
-----------------------------------------------------------------------------
Byte == Nat \cup {JUNK}
Inode == [status : {"x", "1"}, name : Names \cup {""}, file_size : 0..MaxBytes,
          direct_blocks : [Direct -> Blocks \cup {-1}]]
TypeOK ==
  /\ inode_used \subseteq Inodes /\ block_used \subseteq Blocks /\ stale \subseteq Handles
  /\ inodes \in [Inodes -> Inode] /\ eof \in 0..NUM_DATA_BLOCKS
  /\ \A b \in Blocks : data[b] \in [Bytes -> Byte]
  /\ handles \in [Handles -> [offset : 0..MaxBytes, inode_number : Inodes \cup {-1}]]
  /\ pc \in {"idle", "write", "abort"} /\ ret \in {-1, 0}
  /\ call.i \in 0..MAX_FILE_SIZE /\ call.f_offset \in -BLOCKSIZE..MaxBytes
  /\ call.tmp \in Inode

Owned(k) == {inodes[k].direct_blocks[j] : j \in Direct} \ {-1}

\* A data block belongs to one file, once, and is not on the free list while it does;
\* a deleted file owns no block (rollback and freeInode, ssufs-ops.c:159-177,
\* ssufs-disk.c:125-134).
BlocksOwned ==
  \A k \in Inodes :
    /\ Owned(k) \subseteq block_used
    /\ k \notin inode_used => Owned(k) = {}
    /\ \A m \in Inodes \ {k} : Owned(k) \cap Owned(m) = {}
    /\ \A j, l \in Direct : inodes[k].direct_blocks[j] = inodes[k].direct_blocks[l] =>
                              j = l \/ inodes[k].direct_blocks[j] = -1

\* The file size and direct_blocks agree: a file has exactly the blocks its size
\* needs, without holes, and no handle points behind its end (ssufs-ops.c:96, 147, 192).
SizeCovered ==
  /\ \A k \in Inodes : \A j \in Direct :
       inodes[k].direct_blocks[j] # -1 <=> j * BLOCKSIZE < inodes[k].file_size
  /\ \A h \in Handles : Usable(h) => handles[h].offset <= FileOf(h).file_size

Contents(k) ==
  [p \in 1..inodes[k].file_size |->
     data[inodes[k].direct_blocks[(p - 1) \div BLOCKSIZE]][(p - 1) % BLOCKSIZE]]

\* A read inside the file never ends without its bytes ("if we get here something is
\* wrong", ssufs-ops.c:126) and copies the right ones across block boundaries.
ReadsContents ==
  \A h \in Handles : Usable(h) =>
    \A n \in 1..FileOf(h).file_size - handles[h].offset :
      Readable(h, n) /\ Copied(h, n) = SubSeq(Contents(handles[h].inode_number),
                                             handles[h].offset + 1, handles[h].offset + n)

\* Sizes, offsets and block numbers stay in range, no assert of ssufs-disk.c fails, and the
\* loop of a write that is not too large for the file ends in one of its returns
\* (ssufs-ops.c:197, 176), never behind it (214).
NothingWrong == TypeOK /\ pc # "abort" /\ (pc = "write" => call.i < MAX_FILE_SIZE)

\* To its clients ssufs is a set of byte sequences (blocks, offsets and the
\* rollback of a write that finds no free block do not show).
Files == [f \in {inodes[k].name : k \in inode_used} |-> Contents(open_namei(f))]
OpenHandles ==
  [h \in Handles |-> IF Usable(h) THEN <<FileOf(h).name, handles[h].offset>> ELSE <<>>]
Store == INSTANCE SsufsSpec WITH files <- Files, handles <- OpenHandles, MaxSize <- MaxBytes
ImplementsFiles == Store!Spec

\* The test "block allocation fails, the former state is restored" (ssufs_Dtest.c:9, 130):
\* after a write that found no free block the files have their blocks as before.
FailedWriteKeepsBlocks ==
  [][pc = "write" /\ pc' = "idle" /\ ret' = -1 =>
       \A k \in Inodes : \A j \in Direct :
         inodes'[k].direct_blocks[j] \in block_used' \cup {-1}]_vars
=============================================================================
