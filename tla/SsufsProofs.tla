----------------------------- MODULE SsufsProofs -----------------------------
(***************************************************************************)
(* Proofs about the file system of hw6 for every size of its disk, blocks, *)
(* files and tables, every set of names and every argument, for clients    *)
(* that write at the end of a file only.                                   *)
(***************************************************************************)
EXTENDS Ssufs, TLAPS

\* Zenon proves the steps that do not name another prover.  Those that need arithmetic or
\* Boolean-valued variables name two, the second for when the first runs out of time.
USE ZenonT(60)

(***************************************************************************)
(* The inductive invariant                                                 *)
(***************************************************************************)
DataType == data \in [Blocks -> [Bytes -> Byte]]
CallType ==
  call \in [fh : Handles, nbytes : Nat, i : 0..MAX_FILE_SIZE, f_offset : -BLOCKSIZE..MaxBytes,
            curr : Nat, buf : Buffers \cup {NoCall.buf}, tmp : Inode, tmp_buf : [Bytes -> Byte],
            isUsed : SUBSET Direct, rollback : [Bytes -> Byte], rollback_index : 0..MAX_FILE_SIZE]
Types == TypeOK /\ DataType /\ CallType

\* The blocks of a file are those its size needs, and a deleted file is empty.
Covered(d, size) == \A j \in Direct : d[j] # -1 <=> j * BLOCKSIZE < size
InodesOK ==
  \A k \in Inodes : /\ Covered(inodes[k].direct_blocks, inodes[k].file_size)
                    /\ k \notin inode_used => inodes[k].file_size = 0

\* A block of a file is in use, inside the disk file, and of no other file or place.
InUse(b) == b \in block_used /\ InFile(b)
BlocksOK ==
  \A k \in Inodes : \A j \in Direct : inodes[k].direct_blocks[j] # -1 =>
    /\ InUse(inodes[k].direct_blocks[j])
    /\ \A m \in Inodes : \A l \in Direct :
         inodes[m].direct_blocks[l] = inodes[k].direct_blocks[j] => m = k /\ l = j

HandlesOK ==
  \A h \in Handles : Usable(h) => /\ handles[h].inode_number \in inode_used
                                  /\ handles[h].offset <= FileOf(h).file_size

\* The file that ssufs_write appends to, and the byte that its turn stands at.
WriteSize == FileOf(call.fh).file_size
WriteAt == WriteSize + call.curr

\* A write that runs: its copy of the inode has the blocks of the file and behind them
\* those that this write has allocated, which no file has.
WriteArgs ==
  /\ Usable(call.fh) /\ call.buf \in Buffers
  /\ handles[call.fh].offset = WriteSize /\ call.tmp.file_size = WriteSize
  /\ WriteSize + call.nbytes <= MaxBytes /\ call.curr < call.nbytes
WritePosition ==
  /\ call.f_offset >= 0 /\ call.i * BLOCKSIZE + call.f_offset = WriteAt
  /\ call.curr > 0 => call.f_offset = 0
NewBlock(j) == call.tmp.direct_blocks[j] # -1 /\ j * BLOCKSIZE >= WriteSize
WriteBlocks ==
  /\ Covered(call.tmp.direct_blocks, WriteAt)
  /\ \A j \in Direct : j * BLOCKSIZE < WriteSize =>
       call.tmp.direct_blocks[j] = FileOf(call.fh).direct_blocks[j]
  /\ \A j \in Direct : NewBlock(j) =>
       /\ InUse(call.tmp.direct_blocks[j])
       /\ \A k \in Inodes : \A l \in Direct :
            inodes[k].direct_blocks[l] # call.tmp.direct_blocks[j]
       /\ \A l \in Direct : call.tmp.direct_blocks[l] = call.tmp.direct_blocks[j] => l = j
  /\ \A j \in call.isUsed : call.tmp.direct_blocks[j] # -1 /\ (~NewBlock(j) => j = call.rollback_index)
  /\ call.curr = 0 => call.isUsed = {}
WriteOK == pc = "write" => WriteArgs /\ WritePosition /\ WriteBlocks

IInv == Types /\ InodesOK /\ BlocksOK /\ HandlesOK /\ WriteOK /\ pc # "abort"

(***************************************************************************)
(* Arithmetic: blocks of BLOCKSIZE bytes                                   *)
(***************************************************************************)
\* Multiplication by a natural number keeps an order.
LEMMA TimesLe == \A a, b, c \in Nat : a <= b => a * c <= b * c
BY SMTT(30), Z3T(60)

\* The product of two natural numbers is one.
LEMMA TimesNat == \A a, b \in Nat : a * b \in Nat
BY SMTT(30), Z3T(60)

\* A block ends where the next one starts, at the latest.
LEMMA TimesLt ==
  ASSUME NEW c \in Nat \ {0}, NEW a \in Nat, NEW b \in Nat
  PROVE  a < b <=> a * c + c <= b * c
<1>1. ASSUME a < b PROVE (a + 1) * c <= b * c BY SMTT(30), Z3T(60), TimesLe, <1>1
<1>2. ASSUME b <= a PROVE b * c <= a * c BY SMTT(30), Z3T(60), TimesLe, <1>2
<1>3. (a + 1) * c = a * c + c /\ a * c \in Nat /\ b * c \in Nat BY SMTT(30), Z3T(60)
<1>. QED BY SMTT(30), Z3T(60), <1>1, <1>2, <1>3

\* Division with remainder.
LEMMA DivMod ==
  ASSUME NEW c \in Nat \ {0}, NEW a \in Nat
  PROVE  a = (a \div c) * c + (a % c) /\ a % c \in 0..c - 1 /\ a \div c \in Nat
BY SMTT(30), Z3T(60)

\* Quotient and remainder are unique.
LEMMA DivUnique ==
  ASSUME NEW c \in Nat \ {0}, NEW q \in Nat, NEW r \in 0..c - 1
  PROVE  (q * c + r) \div c = q /\ (q * c + r) % c = r
<1>1. q * c + r \in Nat BY SMTT(30), Z3T(60)
<1>. DEFINE p == (q * c + r) \div c
            s == (q * c + r) % c
<1>2. p * c + s = q * c + r /\ s \in 0..c - 1 /\ p \in Nat BY <1>1, DivMod
<1>. HIDE DEF p, s
<1>3. ~(p < q) BY SMTT(30), Z3T(60), <1>2, TimesLt
<1>4. ~(q < p) BY SMTT(30), Z3T(60), <1>2, TimesLt
<1>5. p = q /\ s = r BY SMTT(30), Z3T(60), <1>2, <1>3, <1>4
<1>. QED BY <1>5 DEF p, s

\* The sizes of the file system are positive.
LEMMA SizesType ==
  /\ BLOCKSIZE \in Nat \ {0} /\ NUM_DATA_BLOCKS \in Nat \ {0} /\ NUM_INODES \in Nat \ {0}
  /\ MAX_FILE_SIZE \in Nat \ {0} /\ MAX_OPEN_FILES \in Nat \ {0}
  /\ MaxBytes \in Nat /\ MaxBytes = MAX_FILE_SIZE * BLOCKSIZE
<1>1. /\ BLOCKSIZE \in Nat \ {0} /\ NUM_DATA_BLOCKS \in Nat \ {0} /\ NUM_INODES \in Nat \ {0}
      /\ MAX_FILE_SIZE \in Nat \ {0} /\ MAX_OPEN_FILES \in Nat \ {0}
  BY SsufsAssumption
<1>2. MAX_FILE_SIZE \in Nat /\ BLOCKSIZE \in Nat BY SMTT(30), Z3T(60), <1>1
<1>. QED BY <1>1, <1>2, TimesNat DEF MaxBytes

\* Two facts of the prover's library: a set of natural numbers has a least element, and
\* the number of elements of an interval.  They are proved where the library is
\* instantiated, behind the lemmas that assume them.
Library ==
  /\ \A S \in SUBSET Nat : S # {} => \E k \in S : \A j \in S : k <= j
  /\ \A a, b \in Int : Cardinality(a..b) = IF a > b THEN 0 ELSE b - a + 1

\* A set of natural numbers has a first element, unless it is empty.
LEMMA FirstOf ==
  ASSUME Library, NEW S \in SUBSET Nat
  PROVE  /\ S = {} => First(S) = -1
         /\ S # {} => First(S) \in S /\ First(S) # -1 /\ \A j \in S : First(S) <= j
<1>1. S # {} => First(S) \in S /\ \A j \in S : First(S) <= j BY DEF First, Library
<1>2. -1 \notin S BY SMTT(30), Z3T(60)
<1>. QED BY <1>1, <1>2 DEF First

(***************************************************************************)
(* Types                                                                   *)
(***************************************************************************)
\* The fields of an inode.
LEMMA InodeParts ==
  ASSUME NEW r \in Inode
  PROVE  /\ r.status \in {"x", "1"} /\ r.name \in Names \cup {""} /\ r.file_size \in 0..MaxBytes
         /\ r.direct_blocks \in [Direct -> Blocks \cup {-1}]
BY DEF Inode

LEMMA InodeFields ==
  ASSUME Types, NEW k \in Inodes
  PROVE  /\ inodes[k] \in Inode /\ inodes[k].file_size \in 0..MaxBytes
         /\ inodes[k].direct_blocks \in [Direct -> Blocks \cup {-1}]
<1>1. inodes[k] \in Inode BY DEF Types, TypeOK
<1>. QED BY <1>1, InodeParts

\* An inode that is free and the locals of ssufs_write before it runs have their types.
LEMMA FreeInodeType == FreeInode \in Inode
BY SMTT(30), Z3T(60), SizesType DEF FreeInode, Inode

LEMMA NoCallType ==
  ASSUME call' = NoCall
  PROVE  CallType'
<1>1. 0 \in Handles /\ 0 \in 0..MAX_FILE_SIZE /\ 0 \in -BLOCKSIZE..MaxBytes /\ 0 \in Nat
  BY SMTT(30), Z3T(60), SizesType DEF Handles
<1>2. Garbage \in [Bytes -> Byte] BY DEF Garbage, Byte
<1>. QED BY SMTT(30), Z3T(60), <1>1, <1>2, FreeInodeType DEF CallType, NoCall

\* What the type invariant says of the locals of a write.
LEMMA CallFields ==
  ASSUME CallType
  PROVE  /\ call.fh \in Handles /\ call.nbytes \in Nat /\ call.i \in 0..MAX_FILE_SIZE
         /\ call.f_offset \in -BLOCKSIZE..MaxBytes /\ call.curr \in Nat /\ call.tmp \in Inode
         /\ call.tmp.direct_blocks \in [Direct -> Blocks \cup {-1}]
         /\ call.tmp_buf \in [Bytes -> Byte] /\ call.isUsed \subseteq Direct
         /\ call.rollback \in [Bytes -> Byte] /\ call.rollback_index \in 0..MAX_FILE_SIZE
<1>1. call.tmp \in Inode BY DEF CallType
<1>2. call.tmp.direct_blocks \in [Direct -> Blocks \cup {-1}] BY <1>1, InodeParts
<1>. QED BY <1>1, <1>2 DEF CallType

\* The types of the disk and of the handles, and those of a call, make up Types.
DiskType ==
  /\ inode_used \subseteq Inodes /\ block_used \subseteq Blocks
  /\ inodes \in [Inodes -> Inode] /\ eof \in 0..NUM_DATA_BLOCKS /\ DataType
HandleType ==
  /\ stale \subseteq Handles
  /\ handles \in [Handles -> [offset : 0..MaxBytes, inode_number : Inodes \cup {-1}]]
ResultType == pc \in {"idle", "write", "abort"} /\ ret \in {-1, 0}
LEMMA TypesParts == Types <=> DiskType /\ HandleType /\ CallType /\ ResultType
<1>1. CallType => /\ call.i \in 0..MAX_FILE_SIZE /\ call.f_offset \in -BLOCKSIZE..MaxBytes
                  /\ call.tmp \in Inode
  BY CallFields
<1>. QED BY <1>1 DEF Types, TypeOK, DataType, DiskType, HandleType, ResultType

\* A call that returns keeps the invariant if the disk and the handles are right.
FilesOK == DiskType /\ HandleType /\ InodesOK /\ BlocksOK /\ HandlesOK
LEMMA Returned ==
  ASSUME NEW r \in {-1, 0}, Returns(r), FilesOK'
  PROVE  IInv'
<1>1. pc' = "idle" /\ ret' = r /\ call' = NoCall BY DEF Returns
<1>2. CallType' /\ WriteOK' /\ pc' # "abort" BY <1>1, NoCallType DEF WriteOK
<1>3. Types' <=> DiskType' /\ HandleType' /\ CallType' /\ ResultType'
  BY TypesParts, PTL
<1>. QED BY <1>1, <1>2, <1>3 DEF IInv, FilesOK, ResultType

\* The parts of the invariant.
LEMMA IInvParts ==
  ASSUME IInv
  PROVE  /\ Types /\ FilesOK /\ DiskType /\ HandleType /\ CallType /\ InodesOK /\ BlocksOK
         /\ HandlesOK /\ WriteOK /\ pc # "abort"
BY TypesParts DEF IInv, FilesOK

\* A step that leaves the disk and the handles alone keeps what holds of them.
LEMMA SameFiles ==
  ASSUME FilesOK, UNCHANGED <<disk, handles, stale>>
  PROVE  FilesOK'
<1>1. /\ inode_used' = inode_used /\ block_used' = block_used /\ inodes' = inodes /\ data' = data
      /\ eof' = eof /\ handles' = handles /\ stale' = stale
  BY DEF disk
<1>2. DiskType' /\ HandleType' BY <1>1 DEF FilesOK, DiskType, HandleType, DataType
<1>3. InodesOK' BY <1>1 DEF FilesOK, InodesOK, Covered
<1>4. BlocksOK' BY SMTT(30), Z3T(60), <1>1 DEF FilesOK, BlocksOK, InUse, InFile
<1>5. HandlesOK' BY <1>1 DEF FilesOK, HandlesOK, Usable, FileOf
<1>. QED BY <1>2, <1>3, <1>4, <1>5 DEF FilesOK

\* Before the first call, and after ssufs_formatDisk, the disk and the tables are empty.
Empty ==
  /\ inode_used = {} /\ block_used = {} /\ eof = 0 /\ inodes = [k \in Inodes |-> FreeInode]
  /\ data = [b \in Blocks |-> Zeros] /\ handles = [h \in Handles |-> NoHandle] /\ stale = {}
LEMMA EmptyOK == Empty => FilesOK
<1>. SUFFICES ASSUME Empty PROVE FilesOK
  OBVIOUS
<1>. USE DEF Empty
<1>1. Zeros \in [Bytes -> Byte] BY SMTT(30), Z3T(60) DEF Zeros, Byte, NUL
<1>2. DataType BY SMTT(30), Z3T(60), <1>1 DEF DataType
<1>3. inodes \in [Inodes -> Inode] BY FreeInodeType
<1>4. handles \in [Handles -> [offset : 0..MaxBytes, inode_number : Inodes \cup {-1}]]
  BY SMTT(30), Z3T(60), SizesType DEF NoHandle
<1>5. \A k \in Inodes : inodes[k].file_size = 0 /\ \A j \in Direct : inodes[k].direct_blocks[j] = -1
  BY DEF FreeInode
<1>6. \A j \in Direct : ~(j * BLOCKSIZE < 0)
  <2>1. \A j \in Direct : j \in Nat /\ BLOCKSIZE \in Nat BY SMTT(30), Z3T(60), SizesType DEF Direct
  <2>2. \A j \in Direct : j * BLOCKSIZE \in Nat BY <2>1, TimesNat
  <2>. QED BY SMTT(30), Z3T(60), <2>2
<1>7. InodesOK /\ BlocksOK BY <1>5, <1>6 DEF InodesOK, BlocksOK, Covered
<1>8. HandlesOK BY SMTT(30), Z3T(60) DEF HandlesOK, Usable, NoHandle
<1>9. eof \in 0..NUM_DATA_BLOCKS BY SMTT(30), Z3T(60), SizesType
<1>. QED BY <1>2, <1>3, <1>4, <1>7, <1>8, <1>9 DEF FilesOK, DiskType, HandleType

\* The disk is empty before the first call.
LEMMA InitIInv == Init => IInv
<1>. SUFFICES ASSUME Init PROVE IInv
  OBVIOUS
<1>1. FilesOK BY EmptyOK DEF Init, Empty
<1>2. CallType
  <2>1. 0 \in Handles /\ 0 \in 0..MAX_FILE_SIZE /\ 0 \in -BLOCKSIZE..MaxBytes /\ 0 \in Nat
    BY SMTT(30), Z3T(60), SizesType DEF Handles
  <2>2. Garbage \in [Bytes -> Byte] BY DEF Garbage, Byte
  <2>. QED BY SMTT(30), Z3T(60), <2>1, <2>2, FreeInodeType DEF CallType, NoCall, Init
<1>. QED BY <1>1, <1>2, TypesParts DEF IInv, FilesOK, WriteOK, Init, ResultType

\* Formatting the disk.
LEMMA FormatStep ==
  ASSUME ssufs_formatDisk
  PROVE  IInv'
<1>1. Empty' /\ Returns(0) BY DEF ssufs_formatDisk, Empty
<1>2. Empty' => FilesOK' BY EmptyOK, PTL
<1>. QED BY <1>1, <1>2, Returned

(***************************************************************************)
(* The calls that leave the blocks of the files alone                      *)
(***************************************************************************)
\* open_namei finds an inode in use with the name, ssufs_allocInode,
\* ssufs_allocDataBlock and ssufs_allocFileHandle one that is free.
LEMMA NameiOK ==
  ASSUME Library, DiskType, NEW f, open_namei(f) # -1
  PROVE  open_namei(f) \in inode_used /\ open_namei(f) \in Inodes /\ inodes[open_namei(f)].name = f
<1>. DEFINE S == {k \in inode_used : inodes[k].name = f}
<1>1. Inodes \subseteq Nat BY SMTT(30), Z3T(60), SizesType DEF Inodes
<1>2. S \subseteq Nat BY <1>1 DEF DiskType
<1>3. First(S) \in S BY <1>2, FirstOf DEF open_namei
<1>. QED BY <1>3 DEF open_namei, DiskType

LEMMA AllocInodeOK ==
  ASSUME Library, ssufs_allocInode # -1
  PROVE  ssufs_allocInode \in Inodes \ inode_used
<1>1. Inodes \ inode_used \subseteq Nat BY SMTT(30), Z3T(60), SizesType DEF Inodes
<1>. QED BY <1>1, FirstOf DEF ssufs_allocInode

LEMMA AllocBlockOK ==
  ASSUME Library, ssufs_allocDataBlock # -1
  PROVE  ssufs_allocDataBlock \in Blocks \ block_used
<1>1. Blocks \ block_used \subseteq Nat BY SMTT(30), Z3T(60), SizesType DEF Blocks
<1>. QED BY <1>1, FirstOf DEF ssufs_allocDataBlock

LEMMA AllocHandleOK ==
  ASSUME Library, ssufs_allocFileHandle # -1
  PROVE  ssufs_allocFileHandle \in Handles /\ handles[ssufs_allocFileHandle].inode_number = -1
<1>. DEFINE S == {h \in Handles : handles[h].inode_number = -1}
<1>1. S \subseteq Nat BY SMTT(30), Z3T(60), SizesType DEF Handles
<1>2. First(S) \in S BY <1>1, FirstOf DEF ssufs_allocFileHandle
<1>. QED BY <1>2 DEF ssufs_allocFileHandle

\* The parts of a handle.
LEMMA HandleParts ==
  ASSUME HandleType, NEW h \in Handles
  PROVE  handles[h].offset \in 0..MaxBytes /\ handles[h].inode_number \in Inodes \cup {-1}
BY SMTT(30), Z3T(60) DEF HandleType

\* Inodes that keep their blocks and sizes.
LEMMA SameBlocks ==
  ASSUME InodesOK, BlocksOK, inode_used \subseteq inode_used', block_used' = block_used, eof' = eof,
         \A k \in Inodes : /\ inodes'[k].direct_blocks = inodes[k].direct_blocks
                           /\ inodes'[k].file_size = inodes[k].file_size
  PROVE  InodesOK' /\ BlocksOK'
<1>1. InodesOK' BY DEF InodesOK, Covered
<1>2. BlocksOK' BY SMTT(30), Z3T(60) DEF BlocksOK, InUse, InFile
<1>. QED BY <1>1, <1>2

\* A file is created in a free inode, which is empty.
LEMMA CreateStep ==
  ASSUME Library, IInv, NEW f \in Names, ssufs_create(f)
  PROVE  IInv'
<1>1. FilesOK /\ DiskType /\ HandleType /\ InodesOK /\ BlocksOK /\ HandlesOK BY IInvParts
<1>2. UNCHANGED <<block_used, data, eof, handles, stale>> BY DEF ssufs_create
<1>3. CASE CannotCreate(f)
  <2>1. Returns(-1) /\ UNCHANGED <<inode_used, inodes>> BY <1>3 DEF ssufs_create
  <2>2. FilesOK' BY <1>1, <1>2, <2>1, SameFiles DEF disk
  <2>. QED BY <2>1, <2>2, Returned
<1>4. CASE ~CannotCreate(f)
  <2>. DEFINE k == ssufs_allocInode
  <2>1. k \in Inodes \ inode_used BY <1>4, AllocInodeOK DEF CannotCreate
  <2>2. /\ inode_used' = inode_used \cup {k} /\ Returns(0)
        /\ inodes' = [inodes EXCEPT ![k].status = "1", ![k].name = f]
    BY <1>4 DEF ssufs_create
  <2>. HIDE DEF k
  <2>3. inodes \in [Inodes -> Inode] BY <1>1 DEF DiskType
  <2>4. inodes[k] \in Inode BY <2>1, <2>3
  <2>5. [[inodes[k] EXCEPT !.status = "1"] EXCEPT !.name = f] \in Inode BY <2>4 DEF Inode
  <2>6. \A m \in Inodes : inodes'[m] =
          IF m = k THEN [[inodes[k] EXCEPT !.status = "1"] EXCEPT !.name = f] ELSE inodes[m]
    BY SMTT(30), Z3T(60), <2>1, <2>2, <2>3
  <2>7. inodes' \in [Inodes -> Inode] BY SMTT(30), Z3T(60), <2>1, <2>2, <2>3, <2>5
  <2>8. \A m \in Inodes : /\ inodes'[m].direct_blocks = inodes[m].direct_blocks
                          /\ inodes'[m].file_size = inodes[m].file_size
    <3>. DEFINE new == [[inodes[k] EXCEPT !.status = "1"] EXCEPT !.name = f]
    <3>1. new.direct_blocks = inodes[k].direct_blocks BY <2>4 DEF Inode
    <3>2. new.file_size = inodes[k].file_size BY <2>4 DEF Inode
    <3>. HIDE DEF new
    <3>3. \A m \in Inodes : inodes'[m] = IF m = k THEN new ELSE inodes[m] BY <2>6 DEF new
    <3>. QED BY <3>1, <3>2, <3>3
  <2>9. DiskType' /\ HandleType' BY <1>1, <1>2, <2>1, <2>2, <2>7 DEF DiskType, HandleType, DataType
  <2>10. InodesOK' /\ BlocksOK' BY <1>1, <1>2, <2>2, <2>8, SameBlocks
  <2>11. HandlesOK'
    <3>1. \A h \in Handles : Usable(h)' => Usable(h) BY <1>2 DEF Usable
    <3>2. \A h \in Handles : handles[h].inode_number \in inode_used => handles[h].inode_number \in Inodes
      BY <1>1 DEF DiskType
    <3>. QED BY <1>1, <1>2, <2>2, <2>8, <3>1, <3>2 DEF HandlesOK, FileOf
  <2>. QED BY <2>2, <2>9, <2>10, <2>11, Returned DEF FilesOK
<1>. QED BY <1>3, <1>4

\* A step that changes handles only.
LEMMA HandleStep ==
  ASSUME FilesOK, UNCHANGED disk, HandleType', HandlesOK'
  PROVE  FilesOK'
<1>1. DiskType' BY DEF disk, FilesOK, DiskType, DataType
<1>2. InodesOK' /\ BlocksOK' BY SameBlocks DEF disk, FilesOK
<1>. QED BY <1>1, <1>2 DEF FilesOK

\* The file of a handle that the client may use.
LEMMA FileOfOK ==
  ASSUME FilesOK, NEW h \in Handles, Usable(h)
  PROVE  /\ handles[h].inode_number \in inode_used /\ handles[h].inode_number \in Inodes
         /\ handles[h].offset \in 0..FileOf(h).file_size /\ FileOf(h).file_size \in 0..MaxBytes
         /\ FileOf(h) \in Inode /\ FileOf(h).direct_blocks \in [Direct -> Blocks \cup {-1}]
         /\ Covered(FileOf(h).direct_blocks, FileOf(h).file_size)
<1>1. handles[h].inode_number \in inode_used /\ handles[h].offset <= FileOf(h).file_size
  BY DEF FilesOK, HandlesOK
<1>2. handles[h].inode_number \in Inodes BY <1>1 DEF FilesOK, DiskType
<1>3. FileOf(h) \in Inode BY <1>2 DEF FilesOK, DiskType, FileOf
<1>4. FileOf(h).file_size \in 0..MaxBytes /\ FileOf(h).direct_blocks \in [Direct -> Blocks \cup {-1}]
  BY <1>3, InodeParts
<1>5. Covered(FileOf(h).direct_blocks, FileOf(h).file_size) BY <1>2 DEF FilesOK, InodesOK, FileOf
<1>6. handles[h].offset \in 0..MaxBytes BY HandleParts DEF FilesOK
<1>7. handles[h].offset \in 0..FileOf(h).file_size BY SMTT(30), Z3T(60), <1>1, <1>4, <1>6, SizesType
<1>. QED BY <1>1, <1>2, <1>3, <1>4, <1>5, <1>7

\* One handle changes, and points into its file.
LEMMA OneHandle ==
  ASSUME FilesOK, UNCHANGED disk, NEW h \in Handles, NEW n, NEW k \in Inodes \cup {-1},
         handles' = [handles EXCEPT ![h] = [offset |-> n, inode_number |-> k]],
         n \in 0..MaxBytes, k # -1 => k \in inode_used /\ n <= inodes[k].file_size,
         stale' = stale \/ (k = -1 /\ stale' = stale \ {h})
  PROVE  FilesOK'
<1>1. HandleType /\ HandlesOK BY DEF FilesOK
<1>2. HandleType'
  <2>1. [offset |-> n, inode_number |-> k] \in [offset : 0..MaxBytes, inode_number : Inodes \cup {-1}]
    OBVIOUS
  <2>2. handles' \in [Handles -> [offset : 0..MaxBytes, inode_number : Inodes \cup {-1}]]
    BY <1>1, <2>1 DEF HandleType
  <2>. QED BY <1>1, <2>2 DEF HandleType
<1>3. UNCHANGED <<inode_used, inodes>> BY DEF disk
<1>4. HandlesOK'
  <2>. SUFFICES ASSUME NEW g \in Handles, Usable(g)'
                PROVE  /\ handles'[g].inode_number \in inode_used
                       /\ handles'[g].offset <= inodes[handles'[g].inode_number].file_size
    BY <1>3 DEF HandlesOK, FileOf
  <2>1. CASE g = h
    <3>1. handles'[g].offset = n /\ handles'[g].inode_number = k BY <1>1, <2>1 DEF HandleType
    <3>. QED BY <3>1 DEF Usable
  <2>2. CASE g # h
    <3>1. handles'[g] = handles[g] BY <1>1, <2>2 DEF HandleType
    <3>2. Usable(g) BY <2>2, <3>1 DEF Usable
    <3>. QED BY <1>1, <3>1, <3>2 DEF HandlesOK, FileOf
  <2>. QED BY <2>1, <2>2
<1>. QED BY <1>2, <1>4, HandleStep

\* The offset of a handle moves inside its file.
LEMMA OffsetMoves ==
  ASSUME FilesOK, UNCHANGED <<disk, stale>>, NEW h \in Handles, Usable(h),
         NEW n \in 0..FileOf(h).file_size, handles' = [handles EXCEPT ![h].offset = n]
  PROVE  FilesOK'
<1>. DEFINE k == handles[h].inode_number
<1>1. handles[h] \in [offset : 0..MaxBytes, inode_number : Inodes \cup {-1}]
  BY DEF FilesOK, HandleType
<1>2. k \in inode_used /\ k \in Inodes /\ FileOf(h).file_size \in 0..MaxBytes BY FileOfOK
<1>3. [handles[h] EXCEPT !.offset = n] = [offset |-> n, inode_number |-> k] BY SMTT(30), Z3T(60), <1>1
<1>4. handles' = [handles EXCEPT ![h] = [offset |-> n, inode_number |-> k]] BY <1>3
<1>5. n \in 0..MaxBytes /\ n <= FileOf(h).file_size BY SMTT(30), Z3T(60), <1>2, SizesType
<1>. HIDE DEF k
<1>6. n <= inodes[k].file_size BY <1>5 DEF FileOf, k
<1>. QED BY <1>2, <1>4, <1>5, <1>6, OneHandle

\* A handle that is opened points at the start of its file.
LEMMA OpenStep ==
  ASSUME Library, IInv, NEW f \in Names, ssufs_open(f)
  PROVE  IInv'
<1>1. FilesOK /\ DiskType BY IInvParts
<1>2. UNCHANGED <<disk, stale>> BY DEF ssufs_open
<1>. DEFINE k == open_namei(f)
            h == ssufs_allocFileHandle
<1>3. CASE k = -1 \/ h = -1
  <2>1. Returns(-1) /\ UNCHANGED handles BY <1>3 DEF ssufs_open
  <2>. QED BY <1>1, <1>2, <2>1, SameFiles, Returned
<1>4. CASE ~(k = -1 \/ h = -1)
  <2>1. handles' = [handles EXCEPT ![h] = [offset |-> 0, inode_number |-> k]] /\ Returns(0)
    BY <1>4 DEF ssufs_open
  <2>2. k \in inode_used /\ k \in Inodes /\ h \in Handles BY <1>1, <1>4, NameiOK, AllocHandleOK
  <2>. HIDE DEF k, h
  <2>3. inodes[k].file_size \in 0..MaxBytes BY <2>2, IInvParts, InodeFields
  <2>4. 0 \in 0..MaxBytes /\ 0 <= inodes[k].file_size BY SMTT(30), Z3T(60), <2>3, SizesType
  <2>5. FilesOK' BY <1>1, <1>2, <2>1, <2>2, <2>4, OneHandle
  <2>. QED BY <2>1, <2>5, Returned
<1>. QED BY <1>3, <1>4

\* A handle that is closed points nowhere.
LEMMA CloseStep ==
  ASSUME IInv, NEW h \in Handles, ssufs_close(h)
  PROVE  IInv'
<1>1. /\ handles' = [handles EXCEPT ![h] = [offset |-> 0, inode_number |-> -1]] /\ Returns(0)
      /\ UNCHANGED disk /\ stale' = stale \ {h}
  BY DEF ssufs_close, NoHandle
<1>2. 0 \in 0..MaxBytes BY SMTT(30), Z3T(60), SizesType
<1>3. FilesOK' BY <1>1, <1>2, IInvParts, OneHandle
<1>. QED BY <1>1, <1>3, Returned

\* ssufs_lseek leaves the offset inside the file.
LEMMA SeekStep ==
  ASSUME IInv, NEW h \in Handles, NEW n \in Seeks, ssufs_lseek(h, n)
  PROVE  IInv'
<1>1. FilesOK /\ Usable(h) /\ UNCHANGED <<disk, stale>> BY IInvParts DEF ssufs_lseek
<1>. DEFINE offset == handles[h].offset + n
<1>2. CASE BadOffset(h, offset)
  <2>1. Returns(-1) /\ UNCHANGED handles BY <1>2 DEF ssufs_lseek
  <2>. QED BY <1>1, <2>1, SameFiles, Returned
<1>3. CASE ~BadOffset(h, offset)
  <2>1. Returns(0) /\ handles' = [handles EXCEPT ![h].offset = offset] BY <1>3 DEF ssufs_lseek
  <2>2. FileOf(h).file_size \in 0..MaxBytes /\ handles[h].offset \in 0..MaxBytes /\ n \in Int
    BY <1>1, FileOfOK, HandleParts, SsufsAssumption DEF FilesOK
  <2>3. offset \in 0..FileOf(h).file_size BY SMTT(30), Z3T(60), <1>3, <2>2, SizesType DEF BadOffset
  <2>. HIDE DEF offset
  <2>. QED BY <1>1, <2>1, <2>3, OffsetMoves, Returned
<1>. QED BY <1>2, <1>3

(***************************************************************************)
(* Reading                                                                 *)
(***************************************************************************)
\* The blocks that a size needs are those before the first one it does not need.
LEMMA BlockCount ==
  ASSUME NEW size \in 0..MaxBytes
  PROVE  \E c \in 0..MAX_FILE_SIZE : /\ size <= c * BLOCKSIZE
                                     /\ \A j \in Nat : j * BLOCKSIZE < size <=> j < c
<1>. DEFINE B == BLOCKSIZE
            c == (size + (B - 1)) \div B
            r == (size + (B - 1)) % B
<1>1. B \in Nat \ {0} /\ size + (B - 1) \in Nat /\ MAX_FILE_SIZE \in Nat BY SMTT(30), Z3T(60), SizesType
<1>2. size + (B - 1) = c * B + r /\ r \in 0..B - 1 /\ c \in Nat BY <1>1, DivMod
<1>. HIDE DEF c, r
<1>3. c * B \in Nat BY <1>1, <1>2, TimesNat
<1>4. size <= c * B /\ c * B + r = size + (B - 1) BY SMTT(30), Z3T(60), <1>1, <1>2, <1>3
<1>5. ASSUME NEW j \in Nat PROVE j * B < size <=> j < c
  <2>1. j < c <=> j * B + B <= c * B BY <1>1, <1>2, TimesLt
  <2>2. c <= j => c * B <= j * B BY SMTT(30), Z3T(60), <1>1, <1>2, TimesLe
  <2>3. j * B \in Nat BY <1>1, TimesNat
  <2>. HIDE DEF B
  <2>4. CASE j < c BY SMTT(30), Z3T(60), <1>1, <1>2, <1>3, <1>4, <2>1, <2>3, <2>4
  <2>5. CASE c <= j BY SMTT(30), Z3T(60), <1>1, <1>2, <1>3, <1>4, <2>2, <2>3, <2>5
  <2>. QED BY SMTT(30), Z3T(60), <1>2, <2>4, <2>5
<1>6. c <= MAX_FILE_SIZE
  <2>1. ~(MAX_FILE_SIZE * B < size) BY SMTT(30), Z3T(60), SizesType
  <2>2. ~(MAX_FILE_SIZE < c) BY <1>1, <1>5, <2>1
  <2>. QED BY SMTT(30), Z3T(60), <1>1, <1>2, <2>2
<1>7. c \in 0..MAX_FILE_SIZE BY SMTT(30), Z3T(60), <1>1, <1>2, <1>6
<1>. QED BY <1>4, <1>5, <1>7

\* The blocks from a handle's offset on are an interval, and BlockAt(h, m) is its m-th.
LEMMA BlocksFromOK ==
  ASSUME Library, FilesOK, NEW h \in Handles, Usable(h)
  PROVE  \E c \in 0..MAX_FILE_SIZE :
           LET q == handles[h].offset \div BLOCKSIZE IN
             /\ q \in 0..c /\ FileOf(h).file_size <= c * BLOCKSIZE
             /\ \A j \in Nat : j * BLOCKSIZE < FileOf(h).file_size <=> j < c
             /\ BlocksFrom(h) = q..c - 1 /\ Cardinality(BlocksFrom(h)) = c - q
             /\ \A m \in 0..c - q - 1 : /\ BlockAt(h, m) = FileOf(h).direct_blocks[q + m]
                                        /\ q + m \in BlocksFrom(h)
<1>. DEFINE off == handles[h].offset
            q == off \div BLOCKSIZE
            size == FileOf(h).file_size
            d == FileOf(h).direct_blocks
<1>1. size \in 0..MaxBytes /\ off \in 0..size /\ Covered(d, size) BY FileOfOK
<1>2. PICK c \in 0..MAX_FILE_SIZE : /\ size <= c * BLOCKSIZE
                                    /\ \A j \in Nat : j * BLOCKSIZE < size <=> j < c
  BY <1>1, BlockCount
<1>3. off \in Nat /\ BLOCKSIZE \in Nat \ {0} BY SMTT(30), Z3T(60), <1>1, SizesType
<1>4. off = q * BLOCKSIZE + (off % BLOCKSIZE) /\ off % BLOCKSIZE \in 0..BLOCKSIZE - 1 /\ q \in Nat
  BY <1>3, DivMod
<1>. HIDE DEF off, q, size, d
<1>5. q \in 0..c
  <2>1. c \in Nat /\ c * BLOCKSIZE \in Nat /\ q * BLOCKSIZE \in Nat
    BY SMTT(30), Z3T(60), <1>2, <1>3, <1>4, SizesType, TimesNat
  <2>2. c < q <=> c * BLOCKSIZE + BLOCKSIZE <= q * BLOCKSIZE BY <1>3, <1>4, <2>1, TimesLt
  <2>3. q * BLOCKSIZE <= off /\ off <= size BY SMTT(30), Z3T(60), <1>1, <1>3, <1>4, <2>1, SizesType
  <2>4. ~(c * BLOCKSIZE + BLOCKSIZE <= q * BLOCKSIZE)
    BY SMTT(30), Z3T(60), <1>1, <1>2, <1>3, <2>1, <2>3, SizesType
  <2>. QED BY SMTT(30), Z3T(60), <1>4, <2>1, <2>2, <2>4
<1>6. BlocksFrom(h) = q..c - 1
  <2>1. BlocksFrom(h) = {j \in Direct : j >= q /\ d[j] # -1} BY DEF BlocksFrom, q, off, d
  <2>2. \A j \in Direct : d[j] # -1 <=> j < c
    <3>1. Direct \subseteq Nat BY SMTT(30), Z3T(60), SizesType DEF Direct
    <3>. QED BY <1>1, <1>2, <3>1 DEF Covered
  <2>3. \A j : j \in BlocksFrom(h) <=> j \in Direct /\ j >= q /\ j < c BY <2>1, <2>2
  <2>4. \A j : j \in BlocksFrom(h) <=> j \in q..c - 1
    BY SMTT(30), Z3T(60), <1>2, <1>4, <2>3, SizesType DEF Direct
  <2>. QED BY <2>4
<1>7. \A a, b \in Int : Cardinality(a..b) = IF a > b THEN 0 ELSE b - a + 1 BY DEF Library
<1>8. Cardinality(BlocksFrom(h)) = c - q
  <2>1. Cardinality(q..c - 1) = IF q > c - 1 THEN 0 ELSE c - 1 - q + 1
    BY SMTT(30), Z3T(60), <1>2, <1>4, <1>7, SizesType
  <2>. QED BY SMTT(30), Z3T(60), <1>2, <1>5, <1>6, <2>1, SizesType
<1>9. ASSUME NEW j \in q..c - 1 PROVE Cardinality({l \in q..c - 1 : l < j}) = j - q
  <2>1. {l \in q..c - 1 : l < j} = q..j - 1 BY SMTT(30), Z3T(60), <1>2, <1>4, <1>9, SizesType
  <2>2. j \in Int /\ q \in Int /\ q <= j /\ j - 1 \in Int BY SMTT(30), Z3T(60), <1>2, <1>4, <1>9, SizesType
  <2>3. Cardinality(q..j - 1) = IF q > j - 1 THEN 0 ELSE j - 1 - q + 1 BY <1>7, <2>2
  <2>4. (IF q > j - 1 THEN 0 ELSE j - 1 - q + 1) = j - q BY SMTT(30), Z3T(60), <2>2
  <2>. QED BY <2>1, <2>3, <2>4
<1>10. ASSUME NEW m \in 0..c - q - 1
       PROVE  BlockAt(h, m) = d[q + m] /\ q + m \in BlocksFrom(h)
  <2>1. q + m \in q..c - 1 /\ (q + m) - q = m BY SMTT(30), Z3T(60), <1>2, <1>4, <1>10, SizesType
  <2>2. \A j \in q..c - 1 : j - q = m => j = q + m BY SMTT(30), Z3T(60), <1>2, <1>4, <1>10, SizesType
  <2>3. (CHOOSE j \in q..c - 1 : Cardinality({l \in q..c - 1 : l < j}) = m) = q + m
    BY <1>9, <2>1, <2>2
  <2>. QED BY <1>6, <2>1, <2>3 DEF BlockAt, d
<1>. QED BY <1>2, <1>5, <1>6, <1>8, <1>10 DEF q, off, size, d

\* Byte i of a read of n bytes at the offset: the block that the loop takes it from.
LEMMA ReadByte ==
  ASSUME Library, FilesOK, NEW h \in Handles, Usable(h), NEW n \in Nat,
         n \in 1..FileOf(h).file_size - handles[h].offset
  PROVE  /\ Readable(h, n)
         /\ \A i \in 0..n - 1 :
              LET at == handles[h].offset + i IN
                /\ at \div BLOCKSIZE \in BlocksFrom(h)
                /\ BlockAt(h, Position(h, i) \div BLOCKSIZE) =
                     FileOf(h).direct_blocks[at \div BLOCKSIZE]
                /\ Position(h, i) % BLOCKSIZE = at % BLOCKSIZE
<1>. DEFINE off == handles[h].offset
            B == BLOCKSIZE
            q == off \div B
            r == off % B
            size == FileOf(h).file_size
<1>1. size \in 0..MaxBytes /\ off \in 0..size BY FileOfOK
<1>2. PICK c \in 0..MAX_FILE_SIZE :
        /\ q \in 0..c /\ size <= c * B /\ \A j \in Nat : j * B < size <=> j < c
        /\ BlocksFrom(h) = q..c - 1 /\ Cardinality(BlocksFrom(h)) = c - q
        /\ \A m \in 0..c - q - 1 : /\ BlockAt(h, m) = FileOf(h).direct_blocks[q + m]
                                   /\ q + m \in BlocksFrom(h)
  BY BlocksFromOK
<1>3. off \in Nat /\ B \in Nat \ {0} BY SMTT(30), Z3T(60), <1>1, SizesType
<1>4. off = q * B + r /\ r \in 0..B - 1 /\ q \in Nat BY <1>3, DivMod
<1>5. \A i : Position(h, i) = r + i BY DEF Position
<1>. HIDE DEF off, B, q, r, size
<1>6. c \in Nat /\ c - q \in Nat /\ off + n <= size /\ n > 0
  BY SMTT(30), Z3T(60), <1>1, <1>2, <1>4, SizesType DEF size, off
<1>7. q * B \in Nat /\ (c - q) * B \in Nat /\ (c - q) * B = c * B - q * B
  BY SMTT(30), Z3T(60), <1>3, <1>4, <1>6
<1>8. r + n <= (c - q) * B
  <2>1. c * B \in Nat BY SMTT(30), Z3T(60), <1>3, <1>6, TimesNat
  <2>2. q * B + r + n <= c * B BY SMTT(30), Z3T(60), <1>1, <1>2, <1>3, <1>4, <1>6, <1>7, <2>1, SizesType
  <2>. QED BY SMTT(30), Z3T(60), <1>4, <1>7, <2>1, <2>2
<1>9. Readable(h, n)
  <2>1. ASSUME Position(h, 0) # 0 PROVE q \in BlocksFrom(h)
    <3>1. r # 0 BY SMTT(30), Z3T(60), <1>4, <1>5, <2>1
    <3>2. q * B < size BY SMTT(30), Z3T(60), <1>1, <1>3, <1>4, <1>6, <1>7, <3>1, SizesType
    <3>3. q < c BY <1>2, <1>4, <3>2
    <3>. QED BY SMTT(30), Z3T(60), <1>2, <1>4, <1>6, <3>3
  <2>2. Starts(h) BY <2>1 DEF Starts, q, off, B
  <2>3. Position(h, n) <= Cardinality(BlocksFrom(h)) * BLOCKSIZE BY <1>2, <1>5, <1>8 DEF B
  <2>. QED BY <1>6, <2>2, <2>3 DEF Readable
<1>10. ASSUME NEW i \in 0..n - 1
       PROVE  /\ (off + i) \div B \in BlocksFrom(h)
              /\ BlockAt(h, Position(h, i) \div B) = FileOf(h).direct_blocks[(off + i) \div B]
              /\ Position(h, i) % B = (off + i) % B
  <2>. DEFINE p == r + i
              m == p \div B
              s == p % B
  <2>1. p \in Nat /\ p < r + n /\ i \in Nat BY SMTT(30), Z3T(60), <1>3, <1>4, <1>10
  <2>2. p = m * B + s /\ s \in 0..B - 1 /\ m \in Nat BY <1>3, <2>1, DivMod
  <2>. HIDE DEF m, s
  <2>3. m \in 0..c - q - 1
    <3>1. m * B \in Nat BY SMTT(30), Z3T(60), <1>3, <2>2, TimesNat
    <3>2. m * B < (c - q) * B BY SMTT(30), Z3T(60), <1>3, <1>4, <1>7, <1>8, <2>1, <2>2, <3>1
    <3>3. c - q <= m => (c - q) * B <= m * B BY SMTT(30), Z3T(60), <1>3, <1>6, <2>2, TimesLe
    <3>. QED BY SMTT(30), Z3T(60), <1>6, <1>7, <2>2, <3>1, <3>2, <3>3
  <2>4. off + i = (q + m) * B + s
    <3>1. off + i = q * B + m * B + s
      <4>1. m * B \in Nat BY SMTT(30), Z3T(60), <1>3, <2>2, TimesNat
      <4>. QED BY SMTT(30), Z3T(60), <1>3, <1>4, <1>7, <2>1, <2>2, <4>1
    <3>2. (q + m) * B = q * B + m * B BY SMTT(30), Z3T(60), <1>3, <1>4, <2>2
    <3>. QED BY <3>1, <3>2
  <2>5. q + m \in Nat BY SMTT(30), Z3T(60), <1>4, <2>2
  <2>6. (off + i) \div B = q + m /\ (off + i) % B = s
    <3>1. ((q + m) * B + s) \div B = q + m /\ ((q + m) * B + s) % B = s BY <1>3, <2>2, <2>5, DivUnique
    <3>. QED BY <2>4, <3>1
  <2>7. Position(h, i) \div B = m /\ Position(h, i) % B = s BY <1>5 DEF m, s
  <2>. QED BY <1>2, <2>3, <2>6, <2>7
<1>. QED BY <1>9, <1>10 DEF off, B

\* A read meets no assert: the blocks that it visits are inside the disk file.
LEMMA ReadStep ==
  ASSUME Library, IInv, NEW h \in Handles, NEW n \in Sizes, ssufs_read(h, n)
  PROVE  IInv'
<1>1. FilesOK /\ BlocksOK /\ Usable(h) BY IInvParts DEF ssufs_read
<1>. DEFINE off == handles[h].offset
            size == FileOf(h).file_size
            d == FileOf(h).direct_blocks
<1>2. size \in 0..MaxBytes /\ off \in 0..size /\ handles[h].inode_number \in Inodes BY <1>1, FileOfOK
<1>3. n \in Nat BY SsufsAssumption
<1>4. CASE off + n > size
  <2>1. Returns(-1) /\ UNCHANGED <<disk, handles, stale>> BY <1>4 DEF ssufs_read
  <2>. QED BY <1>1, <2>1, SameFiles, Returned
<1>5. CASE ~(off + n > size)
  <2>1. \A j \in BlocksFrom(h) : InFile(d[j])
    BY <1>1, <1>2 DEF BlocksFrom, BlocksOK, InUse, FileOf
  <2>2. \A b \in Visited(h, n) : InFile(b)
    <3>1. CASE Readable(h, n)
      <4>1. n \in 1..size - off BY SMTT(30), Z3T(60), <1>2, <1>3, <1>5, <3>1, SizesType DEF Readable
      <4>2. \A i \in 0..n - 1 : \E j \in BlocksFrom(h) : BlockAt(h, Position(h, i) \div BLOCKSIZE) = d[j]
        BY <1>1, <1>3, <4>1, ReadByte
      <4>3. Visited(h, n) = {BlockAt(h, Position(h, i) \div BLOCKSIZE) : i \in 0..n - 1}
        BY <3>1 DEF Visited
      <4>. QED BY <2>1, <4>2, <4>3
    <3>2. CASE ~Readable(h, n)
      <4>1. Visited(h, n) = {d[j] : j \in {l \in BlocksFrom(h) : Starts(h)}} BY <3>2 DEF Visited
      <4>. QED BY <2>1, <4>1
    <3>. QED BY <3>1, <3>2
  <2>3. /\ UNCHANGED <<disk, stale>>
        /\ IF Readable(h, n) THEN Advance(h, n, size) /\ Returns(0) ELSE Returns(-1) /\ UNCHANGED handles
    BY <1>5, <2>2 DEF ssufs_read
  <2>4. CASE Readable(h, n)
    <3>1. off + n \in 0..size BY SMTT(30), Z3T(60), <1>2, <1>3, <1>5, SizesType
    <3>2. handles' = [handles EXCEPT ![h].offset = off + n] BY <1>5, <2>3, <2>4 DEF Advance
    <3>3. FilesOK' BY <1>1, <2>3, <3>1, <3>2, OffsetMoves
    <3>. QED BY <2>3, <2>4, <3>3, Returned
  <2>5. CASE ~Readable(h, n) BY <1>1, <2>3, <2>5, SameFiles, Returned
  <2>. QED BY <2>4, <2>5
<1>. QED BY <1>4, <1>5

(***************************************************************************)
(* Deleting a file                                                         *)
(***************************************************************************)
\* A deleted inode has no block and no byte.
LEMMA DeletedParts ==
  ASSUME NEW k \in Inodes, inodes \in [Inodes -> Inode]
  PROVE  /\ Deleted(k) \in Inode /\ Deleted(k).file_size = 0
         /\ Deleted(k).direct_blocks = [j \in Direct |-> -1]
<1>1. inodes[k].name \in Names \cup {""} BY InodeParts
<1>2. Deleted(k) \in Inode BY <1>1, FreeInodeType DEF Deleted, Inode
<1>3. Deleted(k).file_size = 0 BY DEF Deleted, FreeInode
<1>4. Deleted(k).direct_blocks = [j \in Direct |-> -1] BY DEF Deleted, FreeInode
<1>. QED BY <1>2, <1>3, <1>4

\* No file needs a block for nothing.
LEMMA CoveredNone == Covered([j \in Direct |-> -1], 0)
<1>1. \A j \in Direct : j \in Nat /\ BLOCKSIZE \in Nat BY SMTT(30), Z3T(60), SizesType DEF Direct
<1>2. \A j \in Direct : j * BLOCKSIZE \in Nat BY <1>1, TimesNat
<1>3. \A j \in Direct : ~(j * BLOCKSIZE < 0) BY SMTT(30), Z3T(60), <1>2
<1>. QED BY <1>3 DEF Covered

\* ssufs_delete meets no assert, frees the blocks of its file, which no other file has,
\* and leaves no handle that the client may use on it.
LEMMA DeleteStep ==
  ASSUME Library, IInv, NEW f \in Names, ssufs_delete(f)
  PROVE  IInv'
<1>1. FilesOK /\ DiskType /\ HandleType /\ InodesOK /\ BlocksOK /\ HandlesOK BY IInvParts
<1>. DEFINE k == open_namei(f)
            d == inodes[k].direct_blocks
            present == {j \in Direct : d[j] # -1}
            freed == {d[j] : j \in present}
<1>2. k \in inode_used /\ k \in Inodes BY <1>1, NameiOK DEF ssufs_delete
<1>3. \A j \in present : InUse(d[j]) /\ \A m \in Inodes : \A l \in Direct :
                           inodes[m].direct_blocks[l] = d[j] => m = k /\ l = j
  BY <1>1, <1>2 DEF BlocksOK
<1>4. ~(\E b \in freed : ~InFile(b)) /\ ~FreeFails(d, present)
  <2>1. ~(\E b \in freed : ~InFile(b)) BY <1>3 DEF InUse
  <2>2. \A j \in present : d[j] \in block_used BY <1>3 DEF InUse
  <2>3. \A j, l \in present : d[j] = d[l] => l = j BY <1>2, <1>3
  <2>. HIDE DEF d, present
  <2>. QED BY <2>1, <2>2, <2>3 DEF FreeFails
<1>5. /\ data' = [b \in Blocks |-> IF b \in freed THEN Erased(data[b]) ELSE data[b]]
      /\ inode_used' = inode_used \ {k} /\ block_used' = block_used \ freed
      /\ inodes' = [inodes EXCEPT ![k] = Deleted(k)]
      /\ stale' = stale \cup {h \in Handles : handles[h].inode_number = k}
      /\ Returns(0) /\ UNCHANGED <<eof, handles>>
  BY <1>4 DEF ssufs_delete
<1>. HIDE DEF k, d, present, freed
<1>6. inodes \in [Inodes -> Inode] BY <1>1 DEF DiskType
<1>7. \A m \in Inodes : inodes'[m] = IF m = k THEN Deleted(k) ELSE inodes[m] BY <1>2, <1>5, <1>6
<1>8. DiskType'
  <2>1. inodes' \in [Inodes -> Inode] BY <1>2, <1>5, <1>6, DeletedParts
  <2>2. \A b \in Blocks : data[b] \in [Bytes -> Byte] BY <1>1 DEF DiskType, DataType
  <2>3. \A b \in Blocks : Erased(data[b]) \in [Bytes -> Byte]
    BY SMTT(30), Z3T(60), <2>2 DEF Erased, Byte, NUL
  <2>4. data' \in [Blocks -> [Bytes -> Byte]] BY <1>5, <2>2, <2>3
  <2>. QED BY <1>1, <1>5, <2>1, <2>4 DEF DiskType, DataType
<1>9. HandleType' BY <1>1, <1>5 DEF HandleType
<1>10. InodesOK'
  <2>. SUFFICES ASSUME NEW m \in Inodes
                PROVE  /\ Covered(inodes'[m].direct_blocks, inodes'[m].file_size)
                       /\ m \notin inode_used' => inodes'[m].file_size = 0
    BY DEF InodesOK, Covered
  <2>1. CASE m = k BY <1>2, <1>6, <1>7, <2>1, DeletedParts, CoveredNone
  <2>2. CASE m # k BY <1>1, <1>5, <1>7, <2>2 DEF InodesOK
  <2>. QED BY <2>1, <2>2
<1>11. \A m \in Inodes : \A l \in Direct : inodes'[m].direct_blocks[l] # -1 =>
         m # k /\ inodes'[m] = inodes[m]
  <2>1. \A l \in Direct : Deleted(k).direct_blocks[l] = -1 BY <1>2, <1>6, DeletedParts
  <2>. QED BY <1>7, <2>1
<1>12. BlocksOK'
  <2>. SUFFICES ASSUME NEW m \in Inodes, NEW l \in Direct, inodes'[m].direct_blocks[l] # -1
                PROVE  /\ inodes'[m].direct_blocks[l] \in block_used'
                       /\ inodes'[m].direct_blocks[l] < eof'
                       /\ \A n \in Inodes : \A i \in Direct :
                            inodes'[n].direct_blocks[i] = inodes'[m].direct_blocks[l] => n = m /\ i = l
    BY DEF BlocksOK, InUse, InFile
  <2>1. m # k /\ inodes'[m] = inodes[m] BY <1>11
  <2>2. /\ InUse(inodes[m].direct_blocks[l])
        /\ \A n \in Inodes : \A i \in Direct :
             inodes[n].direct_blocks[i] = inodes[m].direct_blocks[l] => n = m /\ i = l
    BY <1>1, <2>1 DEF BlocksOK
  <2>3. inodes[m].direct_blocks[l] \notin freed BY <1>2, <2>1, <2>2 DEF freed, present, d
  <2>4. ASSUME NEW n \in Inodes, NEW i \in Direct,
               inodes'[n].direct_blocks[i] = inodes'[m].direct_blocks[l]
        PROVE  n = m /\ i = l
    <3>1. inodes'[n] = inodes[n] BY <1>11, <2>4
    <3>. QED BY <2>1, <2>2, <2>4, <3>1
  <2>5. inodes'[m].direct_blocks[l] \in block_used' /\ inodes'[m].direct_blocks[l] < eof'
    <3>1. block_used' = block_used \ freed /\ eof' = eof BY <1>5
    <3>2. inodes[m].direct_blocks[l] \in block_used /\ inodes[m].direct_blocks[l] < eof
      BY <2>2 DEF InUse, InFile
    <3>. QED BY <2>1, <2>3, <3>1, <3>2
  <2>. QED BY <2>4, <2>5
<1>13. HandlesOK'
  <2>. SUFFICES ASSUME NEW h \in Handles, Usable(h)'
                PROVE  /\ handles[h].inode_number \in inode_used'
                       /\ handles[h].offset <= inodes'[handles[h].inode_number].file_size
    BY <1>5 DEF HandlesOK, FileOf
  <2>1. Usable(h) /\ handles[h].inode_number # k BY <1>5 DEF Usable
  <2>2. handles[h].inode_number \in inode_used /\ handles[h].inode_number \in Inodes
        /\ handles[h].offset <= FileOf(h).file_size
    BY <1>1, <2>1 DEF HandlesOK, DiskType
  <2>. QED BY <1>5, <1>7, <2>1, <2>2 DEF FileOf
<1>14. FilesOK' BY <1>8, <1>9, <1>10, <1>12, <1>13 DEF FilesOK
<1>. QED BY <1>5, <1>14, Returned

(***************************************************************************)
(* Writing                                                                 *)
(***************************************************************************)
\* A write that runs keeps the invariant if the files, its locals and its place are right.
LEMMA Running ==
  ASSUME FilesOK', CallType', ret' \in {-1, 0}, pc' = "write",
         WriteArgs', WritePosition', WriteBlocks'
  PROVE  IInv'
<1>1. Types' <=> DiskType' /\ HandleType' /\ CallType' /\ ResultType' BY TypesParts, PTL
<1>2. ResultType' BY DEF ResultType
<1>. QED BY <1>1, <1>2 DEF IInv, FilesOK, WriteOK

\* The blocks of a file before the write starts.
LEMMA CoveredNew ==
  ASSUME NEW d, NEW size, Covered(d, size), NEW j \in Direct, d[j] # -1
  PROVE  j * BLOCKSIZE < size
BY DEF Covered

\* A write starts at the end of its file, with no block of its own.
LEMMA StartStep ==
  ASSUME IInv, ~Overwrites, NEW h \in Handles, NEW n \in Sizes, NEW b \in Buffers, ssufs_write(h, n, b)
  PROVE  IInv'
<1>1. /\ FilesOK /\ Types /\ Usable(h) /\ n > 0 /\ UNCHANGED <<disk, handles, stale>>
      /\ handles[h].offset = FileOf(h).file_size
  BY IInvParts DEF ssufs_write
<1>2. FilesOK' BY <1>1, SameFiles
<1>3. CASE TooLarge(h, n)
  <2>1. Returns(-1) BY <1>3 DEF ssufs_write
  <2>. QED BY <1>2, <2>1, Returned
<1>4. CASE ~TooLarge(h, n)
  <2>. DEFINE F == FileOf(h)
  <2>1. PICK u \in Uninit : /\ pc' = "write" /\ ret' = ret
          /\ call' = [NoCall EXCEPT !.fh = h, !.nbytes = n, !.f_offset = handles[h].offset,
                        !.buf = b, !.tmp = F, !.rollback_index = u]
    BY <1>4 DEF ssufs_write
  <2>2. call' = [fh |-> h, nbytes |-> n, i |-> 0, f_offset |-> handles[h].offset, curr |-> 0,
                 buf |-> b, tmp |-> F, tmp_buf |-> Garbage, isUsed |-> {},
                 rollback |-> Garbage, rollback_index |-> u]
    BY <2>1 DEF NoCall
  <2>3. /\ F \in Inode /\ F.file_size \in 0..MaxBytes /\ handles[h].offset = F.file_size
        /\ Covered(F.direct_blocks, F.file_size) /\ n \in Nat /\ u \in 0..MAX_FILE_SIZE
        /\ ret \in {-1, 0}
    BY <1>1, FileOfOK, SsufsAssumption DEF Types, TypeOK
  <2>4. UNCHANGED <<inodes, handles, stale>> BY <1>1 DEF disk
  <2>. HIDE DEF F
  <2>5. /\ call'.fh = h /\ call'.nbytes = n /\ call'.i = 0 /\ call'.f_offset = handles[h].offset
        /\ call'.curr = 0 /\ call'.buf = b /\ call'.tmp = F /\ call'.isUsed = {}
    BY <2>2
  <2>6. FileOf(call.fh)' = F BY <2>4, <2>5 DEF FileOf, F
  <2>7. WriteSize' = F.file_size BY <2>6 DEF WriteSize
  <2>8. WriteAt' = F.file_size BY SMTT(30), Z3T(60), <2>3, <2>5, <2>7, SizesType DEF WriteAt
  <2>9. CallType'
    <3>1. /\ 0 \in 0..MAX_FILE_SIZE /\ 0 \in Nat
          /\ handles[h].offset \in -BLOCKSIZE..MaxBytes
      BY SMTT(30), Z3T(60), <2>3, SizesType
    <3>2. Garbage \in [Bytes -> Byte] BY DEF Garbage, Byte
    <3>. QED BY <2>2, <2>3, <3>1, <3>2 DEF CallType
  <2>10. WriteArgs'
    <3>1. Usable(call.fh)' BY <1>1, <2>4, <2>5 DEF Usable
    <3>2. F.file_size + n <= MaxBytes /\ 0 < n
      BY SMTT(30), Z3T(60), <1>1, <1>4, <2>3, SizesType DEF TooLarge, F
    <3>. QED BY <2>3, <2>4, <2>5, <2>7, <3>1, <3>2 DEF WriteArgs
  <2>11. WritePosition'
    <3>1. call'.i * BLOCKSIZE + call'.f_offset = F.file_size /\ F.file_size >= 0
      BY SMTT(30), Z3T(60), <2>3, <2>5, SizesType
    <3>2. ~(0 > 0) BY SMTT(30), Z3T(60)
    <3>. QED BY <2>3, <2>5, <2>8, <3>1, <3>2 DEF WritePosition
  <2>12. WriteBlocks'
    <3>1. Covered(call'.tmp.direct_blocks, WriteAt') BY <2>3, <2>5, <2>8
    <3>2. \A j \in Direct : ~NewBlock(j)'
      <4>. SUFFICES ASSUME NEW j \in Direct, F.direct_blocks[j] # -1, j * BLOCKSIZE >= F.file_size PROVE FALSE
        BY <2>5, <2>7 DEF NewBlock
      <4>1. j * BLOCKSIZE < F.file_size BY <2>3, CoveredNew
      <4>2. j * BLOCKSIZE \in Int BY SMTT(30), Z3T(60), SizesType DEF Direct
      <4>. QED BY SMTT(30), Z3T(60), <2>3, <4>1, <4>2, SizesType
    <3>. QED BY <2>5, <2>6, <3>1, <3>2 DEF WriteBlocks, Covered
  <2>. QED BY <1>2, <2>1, <2>3, <2>9, <2>10, <2>11, <2>12, Running
<1>. QED BY <1>3, <1>4

\* Where a turn of the loop stands: the loop never gets behind the last block.
LEMMA TurnFacts ==
  ASSUME IInv, pc = "write"
  PROVE  /\ FilesOK /\ CallType /\ WriteArgs /\ WritePosition /\ WriteBlocks /\ ret \in {-1, 0}
         /\ WriteSize \in 0..MaxBytes /\ WriteAt \in Nat /\ WriteSize <= WriteAt
         /\ WriteAt < WriteSize + call.nbytes
         /\ call.i \in Direct /\ call.i \in Nat /\ call.i < MAX_FILE_SIZE /\ call.i * BLOCKSIZE \in Nat
         /\ call.curr \in Nat /\ call.nbytes \in Nat /\ call.f_offset \in Nat
<1>1. /\ FilesOK /\ CallType /\ WriteArgs /\ WritePosition /\ WriteBlocks /\ ret \in {-1, 0}
  BY IInvParts DEF WriteOK, Types, TypeOK
<1>2. /\ call.fh \in Handles /\ call.curr \in Nat /\ call.nbytes \in Nat /\ call.i \in 0..MAX_FILE_SIZE
      /\ call.f_offset \in -BLOCKSIZE..MaxBytes
  BY <1>1, CallFields
<1>3. WriteSize \in 0..MaxBytes BY <1>1, <1>2, FileOfOK DEF WriteArgs, WriteSize
<1>4. WriteAt \in Nat /\ WriteSize <= WriteAt /\ WriteAt < WriteSize + call.nbytes /\ WriteAt < MaxBytes
  BY SMTT(30), Z3T(60), <1>1, <1>2, <1>3, SizesType DEF WriteAt, WriteArgs
<1>5. call.i \in Nat /\ call.f_offset \in Nat BY SMTT(30), Z3T(60), <1>1, <1>2, SizesType DEF WritePosition
<1>6. call.i * BLOCKSIZE \in Nat BY SMTT(30), Z3T(60), <1>5, SizesType, TimesNat
<1>7. call.i < MAX_FILE_SIZE
  <2>1. call.i * BLOCKSIZE + call.f_offset = WriteAt BY <1>1 DEF WritePosition
  <2>2. call.i * BLOCKSIZE < MaxBytes BY SMTT(30), Z3T(60), <1>4, <1>5, <1>6, <2>1, SizesType
  <2>3. MAX_FILE_SIZE <= call.i => MAX_FILE_SIZE * BLOCKSIZE <= call.i * BLOCKSIZE
    BY SMTT(30), Z3T(60), <1>5, SizesType, TimesLe
  <2>. QED BY SMTT(30), Z3T(60), <1>5, <1>6, <2>2, <2>3, SizesType
<1>8. call.i \in Direct BY SMTT(30), Z3T(60), <1>5, <1>7, SizesType DEF Direct
<1>. QED BY <1>1, <1>2, <1>3, <1>4, <1>5, <1>6, <1>7, <1>8

\* A turn before the block with the offset changes the place in the loop only.
LEMMA SkipStep ==
  ASSUME IInv, pc = "write", ~InBlock, SkipBlock
  PROVE  IInv'
<1>1. /\ FilesOK /\ CallType /\ WriteArgs /\ WritePosition /\ WriteBlocks /\ ret \in {-1, 0}
      /\ call.i \in Nat /\ call.i < MAX_FILE_SIZE /\ call.i * BLOCKSIZE \in Nat /\ call.f_offset \in Nat
      /\ WriteAt \in Nat
  BY TurnFacts
<1>2. call.f_offset >= BLOCKSIZE /\ call.f_offset # 0 BY SMTT(30), Z3T(60), <1>1, SizesType DEF InBlock
<1>3. /\ call' = [call EXCEPT !.i = call.i + 1, !.f_offset = call.f_offset - BLOCKSIZE]
      /\ UNCHANGED <<disk, handles, stale, ret, pc>>
  BY <1>2 DEF SkipBlock
<1>4. FilesOK' BY <1>1, <1>3, SameFiles
<1>5. call.i + 1 \in 0..MAX_FILE_SIZE /\ call.f_offset - BLOCKSIZE \in -BLOCKSIZE..MaxBytes
  <2>1. call.f_offset \in -BLOCKSIZE..MaxBytes BY <1>1, CallFields
  <2>. QED BY SMTT(30), Z3T(60), <1>1, <1>2, <2>1, SizesType
<1>6. CallType' BY <1>1, <1>3, <1>5 DEF CallType
<1>7. /\ call'.fh = call.fh /\ call'.nbytes = call.nbytes /\ call'.curr = call.curr
      /\ call'.buf = call.buf /\ call'.tmp = call.tmp /\ call'.isUsed = call.isUsed
      /\ call'.rollback_index = call.rollback_index
      /\ call'.i = call.i + 1 /\ call'.f_offset = call.f_offset - BLOCKSIZE
  BY <1>1, <1>3 DEF CallType
<1>8. UNCHANGED <<inodes, handles, stale, block_used, eof>> BY <1>3 DEF disk
<1>9. WriteSize' = WriteSize /\ WriteAt' = WriteAt /\ FileOf(call.fh)' = FileOf(call.fh)
  BY <1>7, <1>8 DEF WriteSize, WriteAt, FileOf
<1>10. WriteArgs' BY <1>1, <1>7, <1>8, <1>9 DEF WriteArgs, Usable
<1>11. WritePosition'
  <2>1. (call.i + 1) * BLOCKSIZE = call.i * BLOCKSIZE + BLOCKSIZE BY SMTT(30), Z3T(60), <1>1, SizesType
  <2>2. call.i * BLOCKSIZE + call.f_offset = WriteAt /\ (call.curr > 0 => call.f_offset = 0)
    BY <1>1 DEF WritePosition
  <2>3. (call.i + 1) * BLOCKSIZE + (call.f_offset - BLOCKSIZE) = WriteAt /\ call.f_offset - BLOCKSIZE >= 0
    BY SMTT(30), Z3T(60), <1>1, <1>2, <2>1, <2>2, SizesType
  <2>. QED BY <1>2, <1>7, <1>9, <2>2, <2>3 DEF WritePosition
<1>12. \A j : NewBlock(j)' <=> NewBlock(j) BY <1>7, <1>9 DEF NewBlock
<1>13. WriteBlocks'
  <2>1. Covered(call.tmp.direct_blocks, WriteAt)' BY <1>1, <1>7, <1>9 DEF WriteBlocks, Covered
  <2>2. \A j \in Direct : j * BLOCKSIZE < WriteSize' =>
          call'.tmp.direct_blocks[j] = FileOf(call.fh)'.direct_blocks[j]
    BY <1>1, <1>7, <1>9 DEF WriteBlocks
  <2>3. \A b : InUse(b)' <=> InUse(b) BY <1>8 DEF InUse, InFile
  <2>4. inodes' = inodes /\ call'.tmp = call.tmp BY <1>7, <1>8
  <2>5. \A j \in Direct : NewBlock(j) =>
          /\ InUse(call.tmp.direct_blocks[j])
          /\ \A k \in Inodes : \A l \in Direct : inodes[k].direct_blocks[l] # call.tmp.direct_blocks[j]
          /\ \A l \in Direct : call.tmp.direct_blocks[l] = call.tmp.direct_blocks[j] => l = j
    BY <1>1 DEF WriteBlocks
  <2>6. \A j \in Direct : NewBlock(j)' =>
          /\ InUse(call.tmp.direct_blocks[j])'
          /\ \A k \in Inodes : \A l \in Direct : inodes'[k].direct_blocks[l] # call'.tmp.direct_blocks[j]
          /\ \A l \in Direct : call'.tmp.direct_blocks[l] = call'.tmp.direct_blocks[j] => l = j
    BY <1>12, <2>3, <2>4, <2>5 DEF InUse, InFile
  <2>. QED BY <1>1, <1>7, <1>12, <2>1, <2>2, <2>6 DEF WriteBlocks
<1>. QED BY <1>1, <1>3, <1>4, <1>6, <1>10, <1>11, <1>13, Running

\* The block of a turn: the one that holds the offset is a block of the file, and the
\* write has not begun; if the offset starts a block, it has none yet.
LEMMA TurnBlock ==
  ASSUME IInv, pc = "write", InBlock
  PROVE  LET d == call.tmp.direct_blocks[call.i] IN
         /\ d \in Blocks \cup {-1} /\ (d # -1 <=> call.f_offset # 0)
         /\ d # -1 => /\ call.curr = 0 /\ call.i * BLOCKSIZE < WriteSize
                      /\ d = FileOf(call.fh).direct_blocks[call.i] /\ InUse(d)
<1>. DEFINE d == call.tmp.direct_blocks[call.i]
<1>1. /\ FilesOK /\ CallType /\ WriteArgs /\ WritePosition /\ WriteBlocks
      /\ call.i \in Direct /\ call.i * BLOCKSIZE \in Nat /\ call.f_offset \in Nat /\ call.curr \in Nat
      /\ WriteSize \in 0..MaxBytes /\ WriteAt \in Nat
  BY TurnFacts
<1>2. d \in Blocks \cup {-1} BY <1>1, CallFields
<1>3. call.i * BLOCKSIZE + call.f_offset = WriteAt BY <1>1 DEF WritePosition
<1>4. d # -1 <=> call.i * BLOCKSIZE < WriteAt BY <1>1 DEF WriteBlocks, Covered
<1>5. call.i * BLOCKSIZE < WriteAt <=> call.f_offset # 0 BY SMTT(30), Z3T(60), <1>1, <1>3
<1>6. ASSUME d # -1 PROVE /\ call.curr = 0 /\ call.i * BLOCKSIZE < WriteSize
                          /\ d = FileOf(call.fh).direct_blocks[call.i] /\ InUse(d)
  <2>1. call.curr = 0 BY SMTT(30), Z3T(60), <1>1, <1>4, <1>5, <1>6 DEF WritePosition
  <2>2. call.i * BLOCKSIZE < WriteSize BY SMTT(30), Z3T(60), <1>1, <1>4, <1>6, <2>1, SizesType DEF WriteAt
  <2>3. d = FileOf(call.fh).direct_blocks[call.i] BY <1>1, <2>2 DEF WriteBlocks
  <2>4. handles[call.fh].inode_number \in Inodes
    <3>1. call.fh \in Handles BY <1>1, CallFields
    <3>. QED BY <1>1, <3>1, FileOfOK DEF WriteArgs
  <2>5. InUse(d) BY <1>1, <1>6, <2>3, <2>4 DEF FilesOK, BlocksOK, FileOf
  <2>. QED BY <2>1, <2>2, <2>3, <2>5
<1>. QED BY <1>2, <1>4, <1>5, <1>6

\* A rollback meets no assert and frees only blocks of the write, which no file has.
LEMMA RollbackStep ==
  ASSUME IInv, pc = "write", Rollback
  PROVE  IInv'
<1>1. /\ FilesOK /\ DiskType /\ HandleType /\ InodesOK /\ BlocksOK /\ HandlesOK /\ CallType /\ WriteBlocks
  BY TurnFacts DEF FilesOK
<1>. DEFINE d == call.tmp.direct_blocks
            writers(b) == {j \in call.isUsed : d[j] = b}
            freed == {d[j] : j \in Freeing}
<1>2. call.isUsed \subseteq Direct BY <1>1, CallFields
<1>3. \A j \in Freeing : j \in Direct /\ NewBlock(j) BY <1>1, <1>2 DEF WriteBlocks, Freeing
<1>4. ~FreeFails(d, Freeing) BY <1>1, <1>3 DEF WriteBlocks, FreeFails, InUse
<1>5. /\ data' = [b \in Blocks |->
               IF writers(b) = {} THEN data[b]
               ELSE IF \E j \in writers(b) : j = call.rollback_index /\ \A l \in writers(b) : l <= j
                    THEN call.rollback ELSE call.tmp_buf]
      /\ block_used' = block_used \ freed
      /\ Returns(-1) /\ UNCHANGED <<inode_used, inodes, eof, handles, stale>>
  BY <1>4 DEF Rollback
<1>6. \A k \in Inodes : \A l \in Direct : inodes[k].direct_blocks[l] \notin freed
  BY <1>1, <1>3 DEF WriteBlocks
<1>. HIDE DEF freed, writers
<1>7. DiskType'
  <2>1. \A b \in Blocks : data[b] \in [Bytes -> Byte] BY <1>1 DEF DiskType, DataType
  <2>2. call.rollback \in [Bytes -> Byte] /\ call.tmp_buf \in [Bytes -> Byte] BY <1>1, CallFields
  <2>3. data' \in [Blocks -> [Bytes -> Byte]] BY <1>5, <2>1, <2>2
  <2>. QED BY <1>1, <1>5, <2>3 DEF DiskType, DataType
<1>8. HandleType' /\ HandlesOK' BY <1>1, <1>5 DEF HandleType, HandlesOK, Usable, FileOf
<1>9. InodesOK' BY <1>1, <1>5 DEF InodesOK, Covered
<1>10. BlocksOK'
  <2>1. inodes' = inodes /\ eof' = eof /\ block_used' = block_used \ freed BY <1>5
  <2>. QED BY SMTT(30), Z3T(60), <1>1, <1>6, <2>1 DEF BlocksOK, InUse, InFile
<1>11. FilesOK' BY <1>7, <1>8, <1>9, <1>10 DEF FilesOK
<1>. QED BY <1>5, <1>11, Returned

\* The blocks of the inode copy with the block of a turn: a turn in the middle of a block
\* puts the one that is there, one at the start of a block puts one that was free.
Turn(b) == /\ pc = "write" /\ InBlock /\ b \in Blocks
           /\ IF call.f_offset # 0 THEN b = call.tmp.direct_blocks[call.i] ELSE b \notin block_used
WithBlock(b) == [call.tmp.direct_blocks EXCEPT ![call.i] = b]
Old(b) ==
  \A j \in Direct : j * BLOCKSIZE < WriteSize => WithBlock(b)[j] = FileOf(call.fh).direct_blocks[j]
New(b) ==
  \A j \in Direct : WithBlock(b)[j] # -1 /\ j * BLOCKSIZE >= WriteSize =>
    /\ WithBlock(b)[j] \in block_used \cup {b} /\ WithBlock(b)[j] < EofWith(b)
    /\ \A k \in Inodes : \A l \in Direct : inodes[k].direct_blocks[l] # WithBlock(b)[j]
    /\ \A l \in Direct : WithBlock(b)[l] = WithBlock(b)[j] => l = j

\* A block inside the disk file stays inside, and the block of the turn gets inside.
LEMMA EofGrows ==
  ASSUME DiskType, NEW b \in Blocks
  PROVE  /\ EofWith(b) \in 0..NUM_DATA_BLOCKS /\ b < EofWith(b)
         /\ \A c \in Blocks : c < eof => c < EofWith(b)
BY SMTT(30), Z3T(60), SizesType DEF DiskType, EofWith, InFile, Blocks

\* The entries of the copy.
LEMMA WithBlockAt ==
  ASSUME CallType, call.i \in Direct, NEW b \in Blocks
  PROVE  /\ WithBlock(b) \in [Direct -> Blocks \cup {-1}] /\ WithBlock(b)[call.i] = b /\ b # -1
         /\ \A j \in Direct \ {call.i} : WithBlock(b)[j] = call.tmp.direct_blocks[j]
<1>1. call.tmp.direct_blocks \in [Direct -> Blocks \cup {-1}] BY CallFields
<1>2. b # -1 BY SMTT(30), Z3T(60), SizesType DEF Blocks
<1>. QED BY <1>1, <1>2 DEF WithBlock

\* The copy has the blocks that a size inside the block of the turn needs.
LEMMA CopyCovered ==
  ASSUME IInv, NEW b, Turn(b), NEW size \in Nat,
         call.i * BLOCKSIZE < size, size <= call.i * BLOCKSIZE + BLOCKSIZE
  PROVE  Covered(WithBlock(b), size)
<1>1. /\ CallType /\ WritePosition /\ WriteBlocks /\ call.i \in Direct /\ call.i \in Nat
      /\ call.i * BLOCKSIZE \in Nat /\ call.f_offset \in Nat /\ WriteAt \in Nat
  BY TurnFacts DEF Turn
<1>2. /\ WithBlock(b)[call.i] = b /\ b # -1
      /\ \A j \in Direct \ {call.i} : WithBlock(b)[j] = call.tmp.direct_blocks[j]
  BY <1>1, WithBlockAt DEF Turn
<1>3. call.i * BLOCKSIZE + call.f_offset = WriteAt /\ call.f_offset < BLOCKSIZE
  BY <1>1 DEF WritePosition, Turn, InBlock
<1>. SUFFICES ASSUME NEW j \in Direct PROVE WithBlock(b)[j] # -1 <=> j * BLOCKSIZE < size
  BY DEF Covered
<1>4. j \in Nat /\ BLOCKSIZE \in Nat \ {0} BY SMTT(30), Z3T(60), SizesType DEF Direct
<1>5. j * BLOCKSIZE \in Nat BY SMTT(30), Z3T(60), <1>4, TimesNat
<1>6. CASE j = call.i BY <1>2, <1>6
<1>7. CASE j < call.i
  <2>1. j * BLOCKSIZE + BLOCKSIZE <= call.i * BLOCKSIZE BY <1>1, <1>4, <1>7, TimesLt
  <2>2. j * BLOCKSIZE < WriteAt /\ j * BLOCKSIZE < size /\ j # call.i
    BY SMTT(30), Z3T(60), <1>1, <1>3, <1>4, <1>5, <1>7, <2>1
  <2>. QED BY <1>1, <1>2, <2>2 DEF WriteBlocks, Covered
<1>8. CASE call.i < j
  <2>1. call.i * BLOCKSIZE + BLOCKSIZE <= j * BLOCKSIZE BY <1>1, <1>4, <1>8, TimesLt
  <2>2. ~(j * BLOCKSIZE < WriteAt) /\ ~(j * BLOCKSIZE < size) /\ j # call.i
    BY SMTT(30), Z3T(60), <1>1, <1>3, <1>4, <1>5, <1>8, <2>1
  <2>. QED BY <1>1, <1>2, <2>2 DEF WriteBlocks, Covered
<1>. QED BY SMTT(30), Z3T(60), <1>1, <1>4, <1>6, <1>7, <1>8

\* The blocks that the copy of a write has are in use.
LEMMA CopyInUse ==
  ASSUME IInv, pc = "write", NEW l \in Direct, call.tmp.direct_blocks[l] # -1
  PROVE  call.tmp.direct_blocks[l] \in block_used
<1>1. FilesOK /\ BlocksOK /\ CallType /\ WriteArgs /\ WriteBlocks /\ WriteSize \in 0..MaxBytes
  BY TurnFacts DEF FilesOK
<1>2. handles[call.fh].inode_number \in Inodes
  <2>1. call.fh \in Handles BY <1>1, CallFields
  <2>. QED BY <1>1, <2>1, FileOfOK DEF WriteArgs
<1>3. CASE l * BLOCKSIZE < WriteSize
  <2>1. call.tmp.direct_blocks[l] = FileOf(call.fh).direct_blocks[l] BY <1>1, <1>3 DEF WriteBlocks
  <2>. QED BY <1>1, <1>2, <2>1 DEF BlocksOK, InUse, FileOf
<1>4. CASE ~(l * BLOCKSIZE < WriteSize)
  <2>1. l * BLOCKSIZE \in Int BY SMTT(30), Z3T(60), SizesType DEF Direct
  <2>2. l * BLOCKSIZE >= WriteSize BY SMTT(30), Z3T(60), <1>1, <1>4, <2>1, SizesType
  <2>. QED BY <1>1, <2>2 DEF WriteBlocks, NewBlock, InUse
<1>. QED BY <1>3, <1>4

\* The blocks of the file stay where they are, and the others are of no file.
LEMMA CopyBlocks ==
  ASSUME IInv, NEW b, Turn(b)
  PROVE  Old(b) /\ New(b)
<1>1. /\ FilesOK /\ DiskType /\ BlocksOK /\ CallType /\ WriteArgs /\ WritePosition /\ WriteBlocks
      /\ call.i \in Direct /\ call.i \in Nat /\ call.i * BLOCKSIZE \in Nat /\ call.f_offset \in Nat
      /\ WriteAt \in Nat /\ WriteSize \in 0..MaxBytes /\ WriteSize <= WriteAt
  BY TurnFacts DEF Turn, FilesOK
<1>2. /\ WithBlock(b)[call.i] = b /\ b # -1
      /\ \A j \in Direct \ {call.i} : WithBlock(b)[j] = call.tmp.direct_blocks[j]
  BY <1>1, WithBlockAt DEF Turn
<1>3. call.f_offset # 0 => /\ b = call.tmp.direct_blocks[call.i] /\ call.i * BLOCKSIZE < WriteSize
                           /\ b = FileOf(call.fh).direct_blocks[call.i]
  BY TurnBlock DEF Turn
<1>4. call.f_offset = 0 => b \notin block_used /\ ~(call.i * BLOCKSIZE < WriteSize)
  BY SMTT(30), Z3T(60), <1>1 DEF Turn, WritePosition
<1>5. Old(b)
  <2>. SUFFICES ASSUME NEW j \in Direct, j * BLOCKSIZE < WriteSize
                PROVE  WithBlock(b)[j] = FileOf(call.fh).direct_blocks[j]
    BY DEF Old
  <2>1. CASE j = call.i BY <1>2, <1>3, <1>4, <2>1
  <2>2. CASE j # call.i BY <1>1, <1>2, <2>2 DEF WriteBlocks
  <2>. QED BY <2>1, <2>2
<1>6. handles[call.fh].inode_number \in Inodes
  <2>1. call.fh \in Handles BY <1>1, CallFields
  <2>. QED BY <1>1, <2>1, FileOfOK DEF WriteArgs
<1>7. \A l \in Direct : call.tmp.direct_blocks[l] # -1 => call.tmp.direct_blocks[l] \in block_used
  BY CopyInUse DEF Turn
<1>8. New(b)
  <2>. SUFFICES ASSUME NEW j \in Direct, WithBlock(b)[j] # -1, j * BLOCKSIZE >= WriteSize
                PROVE  /\ WithBlock(b)[j] \in block_used \cup {b} /\ WithBlock(b)[j] < EofWith(b)
                       /\ \A k \in Inodes : \A l \in Direct : inodes[k].direct_blocks[l] # WithBlock(b)[j]
                       /\ \A l \in Direct : WithBlock(b)[l] = WithBlock(b)[j] => l = j
    BY DEF New
  <2>1. CASE j = call.i
    <3>1. call.f_offset = 0 /\ b \notin block_used
      <4>1. ~(call.i * BLOCKSIZE < WriteSize) BY SMTT(30), Z3T(60), <1>1, <2>1, SizesType
      <4>. QED BY <1>3, <1>4, <4>1
    <3>2. \A k \in Inodes : \A l \in Direct : inodes[k].direct_blocks[l] # b
      <4>1. \A k \in Inodes : \A l \in Direct :
              inodes[k].direct_blocks[l] # -1 => inodes[k].direct_blocks[l] \in block_used
        BY <1>1 DEF BlocksOK, InUse
      <4>. QED BY <1>2, <3>1, <4>1
    <3>3. \A l \in Direct : WithBlock(b)[l] = b => l = call.i BY <1>2, <1>7, <3>1
    <3>4. b < EofWith(b) BY <1>1, EofGrows DEF Turn
    <3>5. WithBlock(b)[j] = b BY <1>2, <2>1
    <3>6. \A l \in Direct : WithBlock(b)[l] = WithBlock(b)[j] => l = j BY <2>1, <3>3, <3>5
    <3>7. /\ WithBlock(b)[j] \in block_used \cup {b} /\ WithBlock(b)[j] < EofWith(b)
          /\ \A k \in Inodes : \A l \in Direct : inodes[k].direct_blocks[l] # WithBlock(b)[j]
      BY <3>2, <3>4, <3>5
    <3>. QED BY <3>6, <3>7
  <2>2. CASE j # call.i
    <3>. DEFINE c == call.tmp.direct_blocks[j]
    <3>1. WithBlock(b)[j] = c /\ c # -1 BY <1>2, <2>2
    <3>2. /\ InUse(c) /\ \A k \in Inodes : \A l \in Direct : inodes[k].direct_blocks[l] # c
          /\ \A l \in Direct : call.tmp.direct_blocks[l] = c => l = j
      BY <1>1, <3>1 DEF WriteBlocks, NewBlock
    <3>3. c \in Blocks
      <4>1. call.tmp.direct_blocks \in [Direct -> Blocks \cup {-1}] BY <1>1, CallFields
      <4>. QED BY <3>1, <4>1
    <3>4. c < EofWith(b) BY <1>1, <3>2, <3>3, EofGrows DEF Turn, InUse, InFile
    <3>5. b # c
      <4>1. CASE call.f_offset # 0 BY <1>1, <1>3, <2>2, <3>2, <4>1
      <4>2. CASE call.f_offset = 0 BY <1>4, <3>2, <4>2 DEF InUse
      <4>. QED BY <4>1, <4>2
    <3>. HIDE DEF c
    <3>6. \A l \in Direct : WithBlock(b)[l] = c => l = j BY <1>2, <3>2, <3>5 DEF c
    <3>. QED BY <3>1, <3>2, <3>4, <3>6 DEF InUse
  <2>. QED BY <2>1, <2>2
<1>. QED BY <1>5, <1>8

\* How much a turn writes.
LEMMA TurnLength ==
  ASSUME IInv, pc = "write", InBlock
  PROVE  LET n == IF Last THEN Missing ELSE Room IN
         /\ n \in Nat \ {0} /\ n <= Missing /\ n <= Room /\ Missing \in Nat /\ Room \in Nat
         /\ call.f_offset + Room = BLOCKSIZE /\ call.curr + Missing = call.nbytes
<1>1. call.curr \in Nat /\ call.nbytes \in Nat /\ call.f_offset \in Nat /\ call.curr < call.nbytes
  BY TurnFacts DEF WriteArgs
<1>2. call.f_offset < BLOCKSIZE /\ BLOCKSIZE \in Nat BY SMTT(30), Z3T(60), SizesType DEF InBlock
<1>3. /\ Missing \in Nat \ {0} /\ Room \in Nat \ {0}
      /\ call.f_offset + Room = BLOCKSIZE /\ call.curr + Missing = call.nbytes
  BY SMTT(30), Z3T(60), <1>1, <1>2 DEF Missing, Room
<1>. QED BY SMTT(30), Z3T(60), <1>3 DEF Last

\* A turn writes bytes of the buffer behind those that the block had.
NewBytes(b) ==
  [k \in Bytes |->
     IF k \in call.f_offset..call.f_offset + (IF Last THEN Missing ELSE Room) - 1
     THEN call.buf[call.curr + k - call.f_offset] ELSE Base(b)[k]]
LEMMA NewBytesType ==
  ASSUME IInv, NEW b, Turn(b)
  PROVE  NewBytes(b) \in [Bytes -> Byte]
<1>. DEFINE n == IF Last THEN Missing ELSE Room
<1>1. /\ DiskType /\ CallType /\ WriteArgs /\ call.curr \in Nat /\ call.nbytes \in Nat
      /\ call.f_offset \in Nat /\ WriteSize \in 0..MaxBytes
  BY TurnFacts DEF Turn, FilesOK
<1>2. n \in Nat /\ n <= Missing /\ call.curr + Missing = call.nbytes /\ Missing \in Nat
  <2>1. n \in Nat \ {0} BY TurnLength DEF Turn
  <2>. QED BY <2>1, TurnLength DEF Turn
<1>. HIDE DEF n
<1>3. call.nbytes <= MaxBytes BY SMTT(30), Z3T(60), <1>1, SizesType DEF WriteArgs
<1>4. Base(b) \in [Bytes -> Byte]
  <2>1. call.tmp_buf \in [Bytes -> Byte] BY <1>1, CallFields
  <2>2. data[b] \in [Bytes -> Byte] BY <1>1 DEF DiskType, DataType, Turn
  <2>. QED BY <2>1, <2>2 DEF Base
<1>5. ASSUME NEW k \in Bytes, k \in call.f_offset..call.f_offset + n - 1
      PROVE  call.buf[call.curr + k - call.f_offset] \in Byte
  <2>1. call.curr + k - call.f_offset \in 0..MaxBytes - 1
    BY SMTT(30), Z3T(60), <1>1, <1>2, <1>3, <1>5, SizesType DEF Bytes
  <2>2. call.buf \in [0..MaxBytes - 1 -> Nat \ {0}] BY <1>1, SsufsAssumption DEF WriteArgs
  <2>3. call.buf[call.curr + k - call.f_offset] \in Nat \ {0} BY <2>1, <2>2
  <2>. QED BY <2>3 DEF Byte
<1>. QED BY <1>4, <1>5 DEF NewBytes, n

\* What a turn with a block does to the disk.
LEMMA TurnDisk ==
  ASSUME IInv, NEW b, Turn(b), WriteBlock(b)
  PROVE  /\ block_used' = block_used \cup {b} /\ eof' = EofWith(b) /\ data' = [data EXCEPT ![b] = NewBytes(b)]
         /\ block_used' \subseteq Blocks /\ eof' \in 0..NUM_DATA_BLOCKS /\ DataType'
         /\ inode_used' = inode_used /\ stale' = stale
         /\ \A c \in Blocks : InUse(c) => InUse(c)'
<1>1. DiskType BY TurnFacts DEF Turn, FilesOK
<1>2. /\ block_used' = block_used \cup {b} /\ eof' = EofWith(b) /\ data' = [data EXCEPT ![b] = NewBytes(b)]
      /\ inode_used' = inode_used /\ stale' = stale
  BY DEF WriteBlock, NewBytes
<1>3. DataType' BY <1>1, <1>2, NewBytesType DEF DiskType, DataType
<1>4. EofWith(b) \in 0..NUM_DATA_BLOCKS /\ \A c \in Blocks : c < eof => c < EofWith(b)
  BY <1>1, EofGrows DEF Turn
<1>5. block_used \cup {b} \subseteq Blocks BY <1>1 DEF DiskType, Turn
<1>. QED BY <1>2, <1>3, <1>4, <1>5 DEF InUse, InFile

\* The blocks that a file has are still its own.
LEMMA TurnFiles ==
  ASSUME IInv, NEW b, Turn(b), WriteBlock(b), UNCHANGED <<inodes, handles>>
  PROVE  FilesOK'
<1>1. FilesOK /\ DiskType /\ HandleType /\ InodesOK /\ BlocksOK /\ HandlesOK BY TurnFacts DEF Turn, FilesOK
<1>2. /\ block_used' \subseteq Blocks /\ eof' \in 0..NUM_DATA_BLOCKS /\ DataType'
      /\ inode_used' = inode_used /\ stale' = stale /\ \A c \in Blocks : InUse(c) => InUse(c)'
  BY TurnDisk
<1>3. inodes' = inodes /\ handles' = handles OBVIOUS
<1>4. DiskType' /\ HandleType' BY <1>1, <1>2, <1>3 DEF DiskType, HandleType
<1>5. InodesOK' BY <1>1, <1>2, <1>3 DEF InodesOK, Covered
<1>6. HandlesOK' BY <1>1, <1>2, <1>3 DEF HandlesOK, Usable, FileOf
<1>7. BlocksOK'
  <2>1. \A k \in Inodes : \A j \in Direct : inodes[k].direct_blocks[j] # -1 =>
          InUse(inodes[k].direct_blocks[j])'
    <3>1. \A k \in Inodes : \A j \in Direct : inodes[k].direct_blocks[j] \in Blocks \cup {-1}
      BY InodeFields, IInvParts
    <3>2. \A k \in Inodes : \A j \in Direct : inodes[k].direct_blocks[j] # -1 =>
            InUse(inodes[k].direct_blocks[j])
      BY <1>1 DEF BlocksOK
    <3>. QED BY <1>2, <1>3, <3>1, <3>2
  <2>. QED BY SMTT(30), Z3T(60), <1>1, <1>3, <2>1 DEF BlocksOK, InUse, InFile
<1>. QED BY <1>4, <1>5, <1>6, <1>7 DEF FilesOK

\* A turn that leaves bytes for the next one.
LEMMA GoOnStep ==
  ASSUME IInv, NEW b, Turn(b), WriteBlock(b), ~Last
  PROVE  IInv'
<1>. DEFINE B == BLOCKSIZE
            t == WithBlock(b)
            middle == call.f_offset # 0
            back == IF middle THEN call.i ELSE call.rollback_index
            saved == IF middle THEN Strcpy(data[b]) ELSE call.rollback
            copy == [call.tmp EXCEPT !.direct_blocks[call.i] = b]
<1>1. /\ FilesOK /\ CallType /\ WriteArgs /\ WritePosition /\ WriteBlocks /\ ret \in {-1, 0}
      /\ call.i \in Direct /\ call.i \in Nat /\ call.i < MAX_FILE_SIZE /\ call.i * B \in Nat
      /\ call.curr \in Nat /\ call.nbytes \in Nat /\ call.f_offset \in Nat
      /\ WriteSize \in 0..MaxBytes /\ WriteAt \in Nat /\ WriteSize <= WriteAt
  BY TurnFacts DEF Turn
<1>2. UNCHANGED <<inodes, handles, ret, pc>> /\ pc = "write" BY DEF WriteBlock, Turn
<1>3. call' = [call EXCEPT !.i = call.i + 1, !.f_offset = 0, !.curr = call.curr + Room, !.tmp = copy,
                 !.tmp_buf = Zeros, !.isUsed = call.isUsed \cup {call.i}, !.rollback = saved,
                 !.rollback_index = back]
  BY DEF WriteBlock
<1>4. /\ t \in [Direct -> Blocks \cup {-1}] /\ t[call.i] = b /\ b # -1
      /\ \A j \in Direct \ {call.i} : t[j] = call.tmp.direct_blocks[j]
  BY <1>1, WithBlockAt DEF Turn
<1>5. copy \in Inode /\ copy.direct_blocks = t /\ copy.file_size = call.tmp.file_size
  <2>1. call.tmp \in Inode BY <1>1, CallFields
  <2>2. copy = [call.tmp EXCEPT !.direct_blocks = t] BY DEF WithBlock
  <2>. HIDE DEF copy, t
  <2>. QED BY <1>4, <2>1, <2>2 DEF Inode
<1>6. /\ Room \in Nat \ {0} /\ call.f_offset + Room = B /\ call.curr + Room < call.nbytes
  <2>1. /\ Missing \in Nat /\ Room \in Nat /\ Room # 0 /\ call.f_offset + Room = B
        /\ call.curr + Missing = call.nbytes
    BY TurnLength DEF Turn
  <2>. QED BY SMTT(30), Z3T(60), <1>1, <2>1 DEF Last
<1>7. CallType'
  <2>1. call.i + 1 \in 0..MAX_FILE_SIZE /\ 0 \in -BLOCKSIZE..MaxBytes /\ call.curr + Room \in Nat
    BY SMTT(30), Z3T(60), <1>1, <1>6, SizesType
  <2>2. Zeros \in [Bytes -> Byte] BY SMTT(30), Z3T(60) DEF Zeros, Byte, NUL
  <2>3. saved \in [Bytes -> Byte]
    <3>1. data[b] \in [Bytes -> Byte] BY <1>1 DEF FilesOK, DiskType, DataType, Turn
    <3>2. Strcpy(data[b]) \in [Bytes -> Byte] BY <3>1 DEF Strcpy, Byte
    <3>. QED BY <1>1, <3>2, CallFields
  <2>4. back \in 0..MAX_FILE_SIZE /\ call.isUsed \cup {call.i} \subseteq Direct BY <1>1, CallFields
  <2>. HIDE DEF copy, back, saved
  <2>. QED BY <1>1, <1>3, <1>5, <2>1, <2>2, <2>3, <2>4 DEF CallType
<1>. HIDE DEF copy, saved
<1>8. /\ call'.fh = call.fh /\ call'.nbytes = call.nbytes /\ call'.curr = call.curr + Room
      /\ call'.buf = call.buf /\ call'.tmp = copy /\ call'.isUsed = call.isUsed \cup {call.i}
      /\ call'.rollback_index = back /\ call'.i = call.i + 1 /\ call'.f_offset = 0
  BY <1>1, <1>3 DEF CallType
<1>9. FilesOK' BY <1>2, TurnFiles
<1>10. stale' = stale /\ block_used' = block_used \cup {b} /\ eof' = EofWith(b) BY TurnDisk
<1>11. FileOf(call.fh)' = FileOf(call.fh) /\ WriteSize' = WriteSize BY <1>2, <1>8 DEF FileOf, WriteSize
<1>12. WriteAt' = call.i * B + B
  <2>1. call.i * B + call.f_offset = WriteSize + call.curr BY <1>1 DEF WritePosition, WriteAt
  <2>2. WriteAt' = WriteSize + (call.curr + Room) BY <1>8, <1>11 DEF WriteAt
  <2>3. WriteSize + (call.curr + Room) = call.i * B + B BY SMTT(30), Z3T(60), <1>1, <1>6, <2>1, SizesType
  <2>. QED BY <2>2, <2>3
<1>13. WriteArgs'
  <2>1. Usable(call.fh)' BY <1>1, <1>2, <1>8, <1>10 DEF WriteArgs, Usable
  <2>. QED BY <1>1, <1>2, <1>5, <1>6, <1>8, <1>11, <2>1 DEF WriteArgs
<1>14. WritePosition'
  <2>1. (call.i + 1) * B + 0 = call.i * B + B /\ 0 >= 0 BY SMTT(30), Z3T(60), <1>1, SizesType
  <2>. QED BY <1>8, <1>12, <2>1 DEF WritePosition
<1>15. call'.tmp.direct_blocks = t BY <1>5, <1>8
<1>16. Covered(t, call.i * B + B)
  <2>1. call.i * B < call.i * B + B /\ call.i * B + B \in Nat BY SMTT(30), Z3T(60), <1>1, SizesType
  <2>2. call.i * B + B <= call.i * B + B BY SMTT(30), Z3T(60), <2>1
  <2>. QED BY <2>1, <2>2, CopyCovered
<1>17. Old(b) /\ New(b) BY CopyBlocks
<1>. HIDE DEF t
<1>18. \A j \in Direct : j * BLOCKSIZE < WriteSize' => t[j] = FileOf(call.fh)'.direct_blocks[j]
  BY <1>11, <1>17 DEF Old, t
<1>19. \A j \in Direct : NewBlock(j)' =>
         /\ InUse(call.tmp.direct_blocks[j])'
         /\ \A k \in Inodes : \A l \in Direct : inodes'[k].direct_blocks[l] # t[j]
         /\ \A l \in Direct : t[l] = t[j] => l = j
  <2>1. \A j \in Direct : NewBlock(j)' => t[j] # -1 /\ j * BLOCKSIZE >= WriteSize
    BY <1>11, <1>15 DEF NewBlock
  <2>2. inodes' = inodes BY <1>2
  <2>3. \A j \in Direct :
          InUse(call.tmp.direct_blocks[j])' <=> t[j] \in block_used \cup {b} /\ t[j] < EofWith(b)
    BY <1>10, <1>15 DEF InUse, InFile
  <2>. QED BY <1>17, <2>1, <2>2, <2>3 DEF New, t
<1>20. \A j \in call.isUsed \cup {call.i} : t[j] # -1 /\ (~NewBlock(j)' => j = back)
  <2>. SUFFICES ASSUME NEW j \in call.isUsed \cup {call.i} PROVE t[j] # -1 /\ (~NewBlock(j)' => j = back)
    OBVIOUS
  <2>1. call.isUsed \subseteq Direct BY <1>1, CallFields
  <2>2. middle => call.curr = 0 /\ call.isUsed = {}
    <3>1. middle => call.curr = 0 BY TurnBlock DEF Turn
    <3>. QED BY <1>1, <3>1 DEF WriteBlocks
  <2>3. CASE j = call.i
    <3>1. CASE middle BY <1>4, <2>3, <3>1
    <3>2. CASE ~middle
      <4>1. call.i * B >= WriteSize BY SMTT(30), Z3T(60), <1>1, <3>2, SizesType DEF WritePosition
      <4>. QED BY <1>4, <1>11, <1>15, <2>3, <4>1 DEF NewBlock
    <3>. QED BY <3>1, <3>2
  <2>4. CASE j # call.i
    <3>1. j \in call.isUsed /\ j \in Direct /\ ~middle BY <2>1, <2>2, <2>4
    <3>2. call.tmp.direct_blocks[j] # -1 /\ (~NewBlock(j) => j = call.rollback_index)
      BY <1>1, <3>1 DEF WriteBlocks
    <3>3. NewBlock(j)' <=> NewBlock(j) BY <1>4, <1>11, <1>15, <2>4, <3>1 DEF NewBlock
    <3>. QED BY <1>4, <2>4, <3>1, <3>2, <3>3
  <2>. QED BY <2>3, <2>4
<1>21. call'.curr # 0 BY SMTT(30), Z3T(60), <1>1, <1>6, <1>8
<1>22. WriteBlocks'
  <2>1. Covered(call.tmp.direct_blocks, WriteAt)' BY <1>12, <1>15, <1>16 DEF Covered
  <2>. QED BY <1>8, <1>15, <1>18, <1>19, <1>20, <1>21, <2>1 DEF WriteBlocks
<1>. QED BY <1>1, <1>2, <1>7, <1>9, <1>13, <1>14, <1>22, Running

\* The last turn makes the blocks of the write blocks of the file, and its size covers them.
LEMMA FinishStep ==
  ASSUME IInv, NEW b, Turn(b), WriteBlock(b), Last
  PROVE  IInv'
<1>. DEFINE B == BLOCKSIZE
            t == WithBlock(b)
            kk == handles[call.fh].inode_number
            copy == [call.tmp EXCEPT !.direct_blocks[call.i] = b]
            size == copy.file_size + call.nbytes
            new == [copy EXCEPT !.file_size = size]
<1>1. /\ FilesOK /\ CallType /\ WriteArgs /\ WritePosition /\ call.fh \in Handles
      /\ call.i \in Direct /\ call.i * B \in Nat /\ call.curr \in Nat /\ call.nbytes \in Nat
      /\ call.f_offset \in Nat /\ WriteSize \in 0..MaxBytes /\ WriteAt \in Nat
  BY TurnFacts, CallFields DEF Turn
<1>2. /\ inodes' = [inodes EXCEPT ![kk] = new] /\ Advance(call.fh, call.nbytes, size) /\ Returns(0)
  BY DEF WriteBlock
<1>3. DiskType /\ HandleType /\ InodesOK /\ BlocksOK /\ HandlesOK BY <1>1 DEF FilesOK
<1>4. /\ t \in [Direct -> Blocks \cup {-1}] /\ t[call.i] = b /\ b # -1 BY <1>1, WithBlockAt DEF Turn
<1>5. copy \in Inode /\ copy.direct_blocks = t /\ copy.file_size = WriteSize
  <2>1. call.tmp \in Inode /\ call.tmp.file_size = WriteSize BY <1>1, CallFields DEF WriteArgs
  <2>2. copy = [call.tmp EXCEPT !.direct_blocks = t] BY DEF WithBlock
  <2>. HIDE DEF copy, t
  <2>. QED BY <1>4, <2>1, <2>2 DEF Inode
<1>6. kk \in Inodes /\ kk \in inode_used /\ Usable(call.fh) /\ FileOf(call.fh) = inodes[kk]
  BY <1>1, FileOfOK DEF WriteArgs, FileOf
<1>. HIDE DEF copy, t, kk
<1>7. size = WriteSize + call.nbytes /\ size \in 0..MaxBytes /\ size > WriteSize
  BY SMTT(30), Z3T(60), <1>1, <1>5, SizesType DEF WriteArgs
<1>. HIDE DEF size
<1>8. new \in Inode /\ new.direct_blocks = t /\ new.file_size = size BY <1>5, <1>7 DEF Inode
<1>. HIDE DEF new
<1>9. inodes \in [Inodes -> Inode] BY <1>3 DEF DiskType
<1>10. \A m \in Inodes : inodes'[m] = IF m = kk THEN new ELSE inodes[m] BY <1>2, <1>6, <1>9
<1>11. /\ block_used' = block_used \cup {b} /\ eof' = EofWith(b) /\ inode_used' = inode_used
       /\ stale' = stale /\ \A c \in Blocks : InUse(c) => InUse(c)'
       /\ block_used' \subseteq Blocks /\ eof' \in 0..NUM_DATA_BLOCKS /\ DataType'
  BY TurnDisk
<1>12. DiskType'
  <2>1. inodes' \in [Inodes -> Inode] BY <1>2, <1>6, <1>8, <1>9
  <2>. QED BY <1>3, <1>11, <2>1 DEF DiskType
<1>13. Covered(t, size)
  <2>1. call.i * B + call.f_offset = WriteSize + call.curr /\ call.curr < call.nbytes
    BY <1>1 DEF WritePosition, WriteAt, WriteArgs
  <2>2. /\ Missing \in Nat /\ Room \in Nat /\ call.f_offset + Room = B
        /\ call.curr + Missing = call.nbytes /\ Missing <= Room
    BY TurnLength DEF Turn, Last
  <2>3. call.i * B < size /\ size <= call.i * B + B /\ size \in Nat
    BY SMTT(30), Z3T(60), <1>1, <1>7, <2>1, <2>2, SizesType
  <2>. QED BY <2>3, CopyCovered DEF t
<1>14. InodesOK'
  <2>. SUFFICES ASSUME NEW m \in Inodes
                PROVE  /\ Covered(inodes'[m].direct_blocks, inodes'[m].file_size)
                       /\ m \notin inode_used' => inodes'[m].file_size = 0
    BY DEF InodesOK, Covered
  <2>1. CASE m = kk BY <1>6, <1>8, <1>10, <1>11, <1>13, <2>1
  <2>2. CASE m # kk BY <1>3, <1>10, <1>11, <2>2 DEF InodesOK
  <2>. QED BY <2>1, <2>2
<1>15. \A j \in Direct : t[j] # -1 =>
         \/ t[j] = inodes[kk].direct_blocks[j]
         \/ /\ t[j] \in block_used' /\ t[j] < eof'
            /\ \A k \in Inodes : \A l \in Direct : inodes[k].direct_blocks[l] # t[j]
            /\ \A l \in Direct : t[l] = t[j] => l = j
  <2>. SUFFICES ASSUME NEW j \in Direct, t[j] # -1, t[j] # inodes[kk].direct_blocks[j]
                PROVE  /\ t[j] \in block_used' /\ t[j] < eof'
                       /\ \A k \in Inodes : \A l \in Direct : inodes[k].direct_blocks[l] # t[j]
                       /\ \A l \in Direct : t[l] = t[j] => l = j
    OBVIOUS
  <2>1. Old(b) /\ New(b) BY CopyBlocks
  <2>2. ~(j * BLOCKSIZE < WriteSize) BY <1>6, <2>1 DEF Old, t
  <2>3. j * BLOCKSIZE \in Int BY SMTT(30), Z3T(60), SizesType DEF Direct
  <2>4. j * BLOCKSIZE >= WriteSize BY SMTT(30), Z3T(60), <1>1, <2>2, <2>3, SizesType
  <2>. QED BY <1>11, <2>1, <2>4 DEF New, t
<1>16. BlocksOK'
  <2>1. ASSUME NEW m \in Inodes, NEW l \in Direct, inodes[m].direct_blocks[l] # -1
        PROVE  /\ inodes[m].direct_blocks[l] \in block_used' /\ inodes[m].direct_blocks[l] < eof'
               /\ \A k \in Inodes : \A j \in Direct :
                    inodes[k].direct_blocks[j] = inodes[m].direct_blocks[l] => k = m /\ j = l
    <3>1. inodes[m].direct_blocks[l] \in Blocks
      <4>1. inodes[m].direct_blocks \in [Direct -> Blocks \cup {-1}] BY IInvParts, InodeFields
      <4>. QED BY <2>1, <4>1
    <3>2. /\ InUse(inodes[m].direct_blocks[l])
          /\ \A k \in Inodes : \A j \in Direct :
               inodes[k].direct_blocks[j] = inodes[m].direct_blocks[l] => k = m /\ j = l
      BY <1>3, <2>1 DEF BlocksOK
    <3>3. \A c \in Blocks : InUse(c) => c \in block_used' /\ c < eof' BY <1>11 DEF InUse, InFile
    <3>. QED BY <3>1, <3>2, <3>3
  <2>. SUFFICES ASSUME NEW m \in Inodes, NEW l \in Direct, inodes'[m].direct_blocks[l] # -1
                PROVE  /\ inodes'[m].direct_blocks[l] \in block_used'
                       /\ inodes'[m].direct_blocks[l] < eof'
                       /\ \A k \in Inodes : \A j \in Direct :
                            inodes'[k].direct_blocks[j] = inodes'[m].direct_blocks[l] => k = m /\ j = l
    BY DEF BlocksOK, InUse, InFile
  <2>. DEFINE c == inodes'[m].direct_blocks[l]
  <2>2. inodes'[kk].direct_blocks = t /\ \A k \in Inodes \ {kk} : inodes'[k] = inodes[k]
    BY <1>6, <1>8, <1>10
  <2>3. c \in block_used' /\ c < eof'
    <3>1. CASE m = kk BY <1>6, <1>15, <2>1, <2>2, <3>1
    <3>2. CASE m # kk BY <2>1, <2>2, <3>2
    <3>. QED BY <3>1, <3>2
  <2>4. ASSUME NEW k \in Inodes, NEW j \in Direct, inodes'[k].direct_blocks[j] = c PROVE k = m /\ j = l
    <3>1. CASE m # kk /\ k # kk
      <4>1. inodes[m].direct_blocks[l] # -1 /\ inodes[k].direct_blocks[j] = inodes[m].direct_blocks[l]
        BY <2>2, <2>4, <3>1
      <4>. QED BY <2>1, <4>1
    <3>2. CASE m = kk /\ k # kk
      <4>1. t[l] # -1 /\ inodes[k].direct_blocks[j] = t[l] BY <2>2, <2>4, <3>2
      <4>2. t[l] = inodes[kk].direct_blocks[l] BY <1>15, <4>1
      <4>3. /\ inodes[kk].direct_blocks[l] # -1
            /\ inodes[k].direct_blocks[j] = inodes[kk].direct_blocks[l]
        BY <4>1, <4>2
      <4>4. k = kk BY <1>6, <2>1, <4>3
      <4>. QED BY <3>2, <4>4
    <3>3. CASE m # kk /\ k = kk
      <4>1. t[j] # -1 /\ inodes[m].direct_blocks[l] = t[j] BY <2>2, <2>4, <3>3
      <4>2. t[j] = inodes[kk].direct_blocks[j] BY <1>15, <4>1
      <4>3. /\ inodes[kk].direct_blocks[j] # -1
            /\ inodes[m].direct_blocks[l] = inodes[kk].direct_blocks[j]
        BY <4>1, <4>2
      <4>4. m = kk BY <1>6, <2>1, <4>3
      <4>. QED BY <3>3, <4>4
    <3>4. CASE m = kk /\ k = kk
      <4>1. t[j] # -1 /\ t[l] # -1 /\ t[j] = t[l] BY <2>2, <2>4, <3>4
      <4>2. CASE t[j] = inodes[kk].direct_blocks[j] /\ t[l] = inodes[kk].direct_blocks[l]
        <5>1. /\ inodes[kk].direct_blocks[l] # -1
              /\ inodes[kk].direct_blocks[j] = inodes[kk].direct_blocks[l]
          BY <4>1, <4>2
        <5>2. j = l BY <1>6, <2>1, <5>1
        <5>. QED BY <3>4, <5>2
      <4>3. CASE t[j] # inodes[kk].direct_blocks[j] \/ t[l] # inodes[kk].direct_blocks[l]
        <5>1. j = l BY <1>15, <4>1, <4>3
        <5>. QED BY <3>4, <5>1
      <4>. QED BY <4>2, <4>3
    <3>. QED BY <3>1, <3>2, <3>3, <3>4
  <2>. QED BY <2>3, <2>4
<1>17. handles' = [handles EXCEPT ![call.fh].offset = size]
  <2>1. handles[call.fh].offset + call.nbytes = size BY <1>1, <1>7 DEF WriteArgs
  <2>2. ~(size > size) BY SMTT(30), Z3T(60), <1>7, SizesType
  <2>. QED BY <1>2, <2>1, <2>2 DEF Advance
<1>18. /\ HandleType' /\ handles'[call.fh].offset = size
       /\ \A g \in Handles : handles'[g].inode_number = handles[g].inode_number
       /\ \A g \in Handles \ {call.fh} : handles'[g] = handles[g]
  <2>1. handles \in [Handles -> [offset : 0..MaxBytes, inode_number : Inodes \cup {-1}]]
    BY <1>3 DEF HandleType
  <2>2. handles' \in [Handles -> [offset : 0..MaxBytes, inode_number : Inodes \cup {-1}]]
    BY <1>1, <1>7, <1>17, <2>1
  <2>. QED BY <1>1, <1>3, <1>11, <1>17, <2>1, <2>2 DEF HandleType
<1>19. HandlesOK'
  <2>. SUFFICES ASSUME NEW g \in Handles, Usable(g)'
                PROVE  /\ handles'[g].inode_number \in inode_used
                       /\ handles'[g].offset <= inodes'[handles'[g].inode_number].file_size
    BY <1>11 DEF HandlesOK, FileOf
  <2>1. Usable(g) BY <1>11, <1>18 DEF Usable
  <2>2. /\ handles[g].inode_number \in inode_used /\ handles[g].inode_number \in Inodes
        /\ handles[g].offset \in 0..FileOf(g).file_size /\ FileOf(g).file_size \in 0..MaxBytes
    BY <1>1, <2>1, FileOfOK
  <2>3. CASE g = call.fh
    <3>1. inodes'[handles'[g].inode_number].file_size = size
      BY <1>6, <1>8, <1>10, <1>18, <2>3 DEF kk
    <3>2. size <= size BY SMTT(30), Z3T(60), <1>7, SizesType
    <3>. QED BY <1>18, <2>2, <2>3, <3>1, <3>2
  <2>4. CASE g # call.fh
    <3>1. handles'[g] = handles[g] BY <1>18, <2>4
    <3>2. CASE handles[g].inode_number = kk
      <4>1. FileOf(g).file_size = WriteSize BY <1>6, <3>2 DEF FileOf, WriteSize
      <4>2. handles[g].offset <= size BY SMTT(30), Z3T(60), <1>1, <1>7, <2>2, <4>1, SizesType
      <4>. QED BY <1>6, <1>8, <1>10, <2>2, <3>1, <3>2, <4>2
    <3>3. CASE handles[g].inode_number # kk
      <4>1. handles[g].offset <= FileOf(g).file_size BY <1>3, <2>1 DEF HandlesOK
      <4>. QED BY <1>10, <2>2, <3>1, <3>3, <4>1 DEF FileOf
    <3>. QED BY <3>2, <3>3
  <2>. QED BY <2>3, <2>4
<1>. QED BY <1>2, <1>12, <1>14, <1>16, <1>18, <1>19, Returned DEF FilesOK

\* What a turn of the loop of ssufs_write does: it never gets behind the loop, and the
\* block that it reads is inside the disk file.
LEMMA TurnCases ==
  ASSUME Library, IInv, write_turn
  PROVE  /\ pc = "write"
         /\ (~InBlock /\ SkipBlock) \/ Rollback \/ \E b \in Blocks : Turn(b) /\ WriteBlock(b)
<1>. DEFINE d == call.tmp.direct_blocks[call.i]
            b == IF d = -1 THEN ssufs_allocDataBlock ELSE d
<1>1. pc = "write" BY DEF write_turn
<1>2. call.i # MAX_FILE_SIZE
  <2>1. call.i \in Nat /\ call.i < MAX_FILE_SIZE BY <1>1, TurnFacts
  <2>. QED BY SMTT(30), Z3T(60), <2>1, SizesType
<1>3. IF ~InBlock THEN SkipBlock ELSE IF b = -1 THEN Rollback
      ELSE IF call.f_offset = 0 \/ InFile(b) THEN WriteBlock(b) ELSE Abort
  BY <1>2 DEF write_turn
<1>4. CASE ~InBlock BY <1>1, <1>3, <1>4
<1>5. CASE InBlock /\ b = -1 BY <1>1, <1>3, <1>5
<1>6. CASE InBlock /\ b # -1
  <2>1. /\ d \in Blocks \cup {-1} /\ (d # -1 <=> call.f_offset # 0) /\ (d # -1 => InUse(d))
    BY <1>1, <1>6, TurnBlock
  <2>2. d = -1 => b \in Blocks \ block_used BY <1>6, AllocBlockOK
  <2>3. d # -1 => b = d OBVIOUS
  <2>. HIDE DEF b
  <2>4. Turn(b) BY <1>1, <1>6, <2>1, <2>2, <2>3 DEF Turn, d
  <2>5. call.f_offset = 0 \/ InFile(b) BY <2>1, <2>3 DEF InUse
  <2>6. WriteBlock(b) BY <1>3, <1>6, <2>5
  <2>7. b \in Blocks BY <2>4 DEF Turn
  <2>. QED BY <1>1, <2>4, <2>6, <2>7
<1>. QED BY <1>4, <1>5, <1>6

\* A turn keeps the invariant.
LEMMA TurnStep ==
  ASSUME Library, IInv, write_turn
  PROVE  IInv'
<1>1. /\ pc = "write"
      /\ (~InBlock /\ SkipBlock) \/ Rollback \/ \E b \in Blocks : Turn(b) /\ WriteBlock(b)
  BY TurnCases
<1>2. CASE ~InBlock /\ SkipBlock BY <1>1, <1>2, SkipStep
<1>3. CASE Rollback BY <1>1, <1>3, RollbackStep
<1>4. CASE \E b \in Blocks : Turn(b) /\ WriteBlock(b)
  <2>1. PICK b \in Blocks : Turn(b) /\ WriteBlock(b) BY <1>4
  <2>. QED BY <2>1, GoOnStep, FinishStep
<1>. QED BY <1>1, <1>2, <1>3, <1>4

\* Every step keeps the invariant, if the client appends only.
LEMMA NextIInv ==
  ASSUME Library, ~Overwrites, IInv, [Next]_vars
  PROVE  IInv'
<1>1. CASE ssufs_formatDisk BY <1>1, FormatStep
<1>2. ASSUME NEW f \in Names, ssufs_create(f) PROVE IInv' BY <1>2, CreateStep
<1>3. ASSUME NEW f \in Names, ssufs_delete(f) PROVE IInv' BY <1>3, DeleteStep
<1>4. ASSUME NEW f \in Names, ssufs_open(f) PROVE IInv' BY <1>4, OpenStep
<1>5. ASSUME NEW h \in Handles, ssufs_close(h) PROVE IInv' BY <1>5, CloseStep
<1>6. ASSUME NEW h \in Handles, NEW n \in Seeks, ssufs_lseek(h, n) PROVE IInv' BY <1>6, SeekStep
<1>7. ASSUME NEW h \in Handles, NEW n \in Sizes, ssufs_read(h, n) PROVE IInv' BY <1>7, ReadStep
<1>8. ASSUME NEW h \in Handles, NEW n \in Sizes, NEW b \in Buffers, ssufs_write(h, n, b) PROVE IInv'
  BY <1>8, StartStep
<1>9. CASE write_turn BY <1>9, TurnStep
<1>10. CASE UNCHANGED vars
  <2>1. UNCHANGED <<disk, handles, stale>> /\ ret' = ret /\ pc' = pc /\ call' = call
    BY <1>10 DEF vars
  <2>2. FilesOK' BY <2>1, IInvParts, SameFiles
  <2>3. Types' BY <2>1, IInvParts DEF Types, TypeOK, DataType, CallType, disk
  <2>4. pc' # "abort" BY <2>1 DEF IInv
  <2>5. CASE pc # "write" BY <2>1, <2>2, <2>3, <2>4, <2>5 DEF IInv, FilesOK, WriteOK
  <2>6. CASE pc = "write"
    <3>1. WriteArgs /\ WritePosition /\ WriteBlocks BY <2>6, TurnFacts
    <3>2. UNCHANGED <<inodes, handles, stale, block_used, eof, call>> BY <2>1 DEF disk
    <3>3. WriteSize' = WriteSize /\ WriteAt' = WriteAt BY <3>2 DEF WriteSize, WriteAt, FileOf
    <3>4. WriteArgs' /\ WritePosition'
      BY <3>1, <3>2, <3>3 DEF WriteArgs, WritePosition, Usable
    <3>5. WriteBlocks' BY SMTT(30), Z3T(60), <3>1, <3>2, <3>3 DEF WriteBlocks, Covered, NewBlock, InUse, InFile, FileOf
    <3>. QED BY <2>2, <2>3, <2>4, <3>4, <3>5 DEF IInv, FilesOK, WriteOK
  <2>. QED BY <2>5, <2>6
<1>. QED BY <1>1, <1>2, <1>3, <1>4, <1>5, <1>6, <1>7, <1>8, <1>9, <1>10 DEF Next

\* What a piece of a sequence is.
LEMMA SubSeqIs ==
  ASSUME NEW s, NEW m \in Int, NEW n \in Int, m <= n
  PROVE  SubSeq(s, m, n) = [i \in 1..n - m + 1 |-> s[m + i - 1]]
<1>. DEFINE S == {s[i] : i \in m..n}
<1>1. \A i \in m..n : s[i] \in S OBVIOUS
<1>. HIDE DEF S
<1>2. /\ SubSeq(s, m, n) \in Seq(S) /\ Len(SubSeq(s, m, n)) = n - m + 1
      /\ \A i \in 1..n - m + 1 : SubSeq(s, m, n)[i] = s[m + i - 1]
  BY SMTT(30), Z3T(60), <1>1
<1>. DEFINE q == SubSeq(s, m, n)
<1>3. q \in Seq(S) /\ Len(q) = n - m + 1 /\ \A i \in 1..n - m + 1 : q[i] = s[m + i - 1] BY <1>2
<1>. HIDE DEF q
<1>4. q = [i \in 1..Len(q) |-> q[i]] BY SMTT(30), Z3T(60), <1>3
<1>5. q = [i \in 1..n - m + 1 |-> s[m + i - 1]] BY <1>3, <1>4
<1>. QED BY <1>5 DEF q

\* The invariant holds in every state, for clients that append.
LEMMA Invariant ==
  ASSUME Library, ~Overwrites
  PROVE  Spec => []IInv
<1>1. IInv /\ [Next]_vars => IInv' BY NextIInv
<1>. QED BY InitIInv, <1>1, PTL DEF Spec

\* What the invariant says of the blocks.
LEMMA IInvBlocks == IInv => BlocksOwned
<1>. SUFFICES ASSUME IInv, NEW k \in Inodes
              PROVE  /\ Owned(k) \subseteq block_used
                     /\ k \notin inode_used => Owned(k) = {}
                     /\ \A m \in Inodes \ {k} : Owned(k) \cap Owned(m) = {}
                     /\ \A j, l \in Direct : inodes[k].direct_blocks[j] = inodes[k].direct_blocks[l] =>
                                               j = l \/ inodes[k].direct_blocks[j] = -1
  BY DEF BlocksOwned
<1>1. BlocksOK /\ InodesOK BY IInvParts
<1>2. Owned(k) \subseteq block_used
  <2>1. \A j \in Direct : inodes[k].direct_blocks[j] # -1 => inodes[k].direct_blocks[j] \in block_used
    BY <1>1 DEF BlocksOK, InUse
  <2>. QED BY <2>1 DEF Owned
<1>3. k \notin inode_used => Owned(k) = {}
  <2>1. \A j \in Direct : j * BLOCKSIZE \in Nat BY SMTT(30), Z3T(60), SizesType DEF Direct
  <2>2. \A j \in Direct : ~(j * BLOCKSIZE < 0) BY SMTT(30), Z3T(60), <2>1
  <2>. QED BY <1>1, <2>2 DEF InodesOK, Covered, Owned
<1>4. \A m \in Inodes \ {k} : Owned(k) \cap Owned(m) = {}
  <2>. SUFFICES ASSUME NEW m \in Inodes \ {k}, NEW j \in Direct, NEW l \in Direct,
                       inodes[k].direct_blocks[j] # -1,
                       inodes[m].direct_blocks[l] = inodes[k].direct_blocks[j]
                PROVE  FALSE
    BY DEF Owned
  <2>. QED BY <1>1 DEF BlocksOK
<1>5. \A j, l \in Direct : inodes[k].direct_blocks[j] = inodes[k].direct_blocks[l] =>
                             j = l \/ inodes[k].direct_blocks[j] = -1
  BY <1>1 DEF BlocksOK
<1>. QED BY <1>2, <1>3, <1>4, <1>5

\* What the invariant says of the sizes, of the asserts and of the loop of a write.
LEMMA IInvSizes == IInv => SizeCovered /\ NothingWrong
<1>. SUFFICES ASSUME IInv PROVE SizeCovered /\ NothingWrong
  OBVIOUS
<1>1. SizeCovered BY IInvParts DEF SizeCovered, InodesOK, Covered, HandlesOK
<1>2. NothingWrong BY IInvParts, TurnFacts DEF NothingWrong, Types
<1>. QED BY <1>1, <1>2

\* What a read copies are the bytes of the file at the offset.
LEMMA IInvReads ==
  ASSUME Library
  PROVE  IInv => ReadsContents
<1>. SUFFICES ASSUME IInv, NEW h \in Handles, Usable(h),
                     NEW n \in 1..FileOf(h).file_size - handles[h].offset
              PROVE  Readable(h, n) /\ Copied(h, n) = SubSeq(Contents(handles[h].inode_number),
                                         handles[h].offset + 1, handles[h].offset + n)
  BY DEF ReadsContents
<1>. DEFINE off == handles[h].offset
            k == handles[h].inode_number
            size == FileOf(h).file_size
            d == FileOf(h).direct_blocks
            C == Contents(k)
            byte(at) == data[d[at \div BLOCKSIZE]][at % BLOCKSIZE]
<1>1. FilesOK /\ off \in 0..size /\ size \in 0..MaxBytes BY IInvParts, FileOfOK
<1>2. n \in Nat /\ n \in 1..size - off /\ off \in Nat /\ size \in Nat BY SMTT(30), Z3T(60), <1>1, SizesType
<1>3. /\ Readable(h, n)
      /\ \A i \in 0..n - 1 : /\ BlockAt(h, Position(h, i) \div BLOCKSIZE) = d[(off + i) \div BLOCKSIZE]
                             /\ Position(h, i) % BLOCKSIZE = (off + i) % BLOCKSIZE
  BY <1>1, <1>2, ReadByte
<1>4. C = [p \in 1..size |-> byte(p - 1)] BY DEF Contents, FileOf
<1>5. Copied(h, n) = [i \in 1..n |-> byte(off + (i - 1))]
  <2>1. \A i \in 1..n : i - 1 \in 0..n - 1 BY SMTT(30), Z3T(60), <1>2
  <2>2. \A i \in 1..n : data[BlockAt(h, Position(h, i - 1) \div BLOCKSIZE)][Position(h, i - 1) % BLOCKSIZE]
                          = byte(off + (i - 1))
    BY <1>3, <2>1
  <2>. QED BY <2>2 DEF Copied
<1>. HIDE DEF C, off, size, byte
<1>6. SubSeq(C, off + 1, off + n) = [i \in 1..n |-> C[off + i]]
  <2>. DEFINE a == off + 1
              z == off + n
  <2>1. a \in Int /\ z \in Int /\ a <= z /\ z - a + 1 = n BY SMTT(30), Z3T(60), <1>2
  <2>2. \A i \in 1..n : a + i - 1 = off + i BY SMTT(30), Z3T(60), <1>2
  <2>. HIDE DEF a, z
  <2>3. SubSeq(C, a, z) = [i \in 1..z - a + 1 |-> C[a + i - 1]] BY SMTT(30), Z3T(60), <2>1, SubSeqIs
  <2>4. SubSeq(C, a, z) = [i \in 1..n |-> C[off + i]] BY <2>1, <2>2, <2>3
  <2>. QED BY <2>4 DEF a, z
<1>7. \A i \in 1..n : C[off + i] = byte(off + (i - 1))
  <2>1. \A i \in 1..n : off + i \in 1..size /\ (off + i) - 1 = off + (i - 1) BY SMTT(30), Z3T(60), <1>2
  <2>. QED BY <1>4, <2>1
<1>8. Copied(h, n) = SubSeq(C, off + 1, off + n) BY <1>5, <1>6, <1>7
<1>. QED BY <1>3, <1>8 DEF C, off

(***************************************************************************)
(* To its clients the file system is a set of byte sequences               *)
(***************************************************************************)
\* Byte p of a file with the blocks d.
ByteAt(d, p) == data[d[p \div BLOCKSIZE]][p % BLOCKSIZE]

\* A name belongs to one file, only open handles are stale, and a file holds no '\0' and no
\* byte that was never assigned, so that strcpy in ssufs_write copies it.
NamesOK ==
  /\ \A k \in inode_used : inodes[k].name \in Names
  /\ \A k, m \in inode_used : inodes[k].name = inodes[m].name => k = m
StaleOK == \A h \in stale : handles[h].inode_number # -1
TextOK ==
  \A k \in Inodes : \A p \in 0..inodes[k].file_size - 1 :
    ByteAt(inodes[k].direct_blocks, p) \in Nat \ {0}
Meaning == NamesOK /\ StaleOK /\ TextOK

\* A write that runs has put the bytes of its buffer behind the file, and its rollback
\* buffer has the bytes of the file in the block that it may have to restore.
WrittenOK ==
  \A p \in WriteSize..WriteAt - 1 : ByteAt(call.tmp.direct_blocks, p) = call.buf[p - WriteSize]
RollbackOK ==
  \A j \in call.isUsed : \A p \in 0..WriteSize - 1 : p \div BLOCKSIZE = j =>
    call.rollback[p % BLOCKSIZE] = ByteAt(FileOf(call.fh).direct_blocks, p)
NameOK == call.tmp.name = FileOf(call.fh).name
Writing == pc = "write" => WrittenOK /\ RollbackOK /\ NameOK

SInv == IInv /\ Meaning /\ Writing

\* A step of the store, or one that the store does not see.
Seen == [Store!Next]_(Store!vars)

\* A function on 1..d is a sequence of length d.
LEMMA SeqIs ==
  ASSUME NEW S, NEW d \in Nat, NEW f \in [1..d -> S]
  PROVE  f \in Seq(S) /\ Len(f) = d
<1>1. f \in Seq(S)
  <2>1. [k \in 1..d |-> f[k]] \in Seq(S) BY SMTT(30), Z3T(60)
  <2>2. f = [k \in 1..d |-> f[k]] BY SMTT(30), Z3T(60)
  <2>. QED BY <2>1, <2>2
<1>2. Len(f) \in Nat /\ DOMAIN f = 1..Len(f) BY <1>1, SMTT(30), Z3T(60)
<1>3. DOMAIN f = 1..d OBVIOUS
<1>. QED BY <1>1, <1>2, <1>3, SMTT(30), Z3T(60)

\* One sequence behind another.
LEMMA ConcatIs ==
  ASSUME NEW S, NEW d \in Nat, NEW n \in Nat
  PROVE  \A f \in [1..d -> S], g \in [1..n -> S] : \A r \in [1..d + n -> S] :
           (\A k \in 1..d : r[k] = f[k]) /\ (\A k \in 1..n : r[d + k] = g[k]) => r = f \o g
<1>. SUFFICES ASSUME NEW f \in [1..d -> S], NEW g \in [1..n -> S], NEW r \in [1..d + n -> S],
                     \A k \in 1..d : r[k] = f[k], \A k \in 1..n : r[d + k] = g[k]
              PROVE  r = f \o g
  OBVIOUS
<1>1. f \in Seq(S) /\ Len(f) = d BY SeqIs
<1>2. g \in Seq(S) /\ Len(g) = n BY SeqIs
<1>3. r \in Seq(S) /\ Len(r) = d + n
  <2>1. d + n \in Nat BY SMTT(30), Z3T(60)
  <2>. QED BY <2>1, SeqIs
<1>4. /\ f \o g \in Seq(S) /\ Len(f \o g) = d + n
      /\ \A k \in 1..d : (f \o g)[k] = f[k]
      /\ \A k \in d + 1..d + n : (f \o g)[k] = g[k - d]
  BY SMTT(30), Z3T(60), <1>1, <1>2
<1>5. ASSUME NEW k \in d + 1..d + n PROVE r[k] = g[k - d]
  <2>1. k - d \in 1..n /\ d + (k - d) = k BY SMTT(30), Z3T(60)
  <2>. QED BY <2>1
<1>. DEFINE c == f \o g
<1>6. c \in Seq(S) /\ Len(c) = d + n /\ \A k \in 1..d + n : r[k] = c[k] BY SMTT(30), Z3T(60), <1>4, <1>5
<1>. HIDE DEF c
<1>7. r = c BY SMTT(30), Z3T(60), <1>3, <1>6
<1>. QED BY <1>7 DEF c

\* The files as the client sees them, in terms of the inodes.
FileNames == {inodes[k].name : k \in inode_used}
View ==
  /\ Files = [f \in FileNames |-> Files[f]]
  /\ \A k \in inode_used : Files[inodes[k].name] = Contents(k)
\* It determines the files of the store.
LEMMA FilesView ==
  ASSUME Library, DiskType, NamesOK
  PROVE  View
<1>1. inode_used \in SUBSET Nat BY SMTT(30), Z3T(60), SizesType DEF DiskType, Inodes
<1>2. ASSUME NEW k \in inode_used PROVE open_namei(inodes[k].name) = k
  <2>. DEFINE S == {m \in inode_used : inodes[m].name = inodes[k].name}
  <2>1. S \in SUBSET Nat /\ S # {} BY <1>1
  <2>2. First(S) \in S BY <2>1, FirstOf
  <2>. QED BY <2>2 DEF open_namei, NamesOK
<1>3. Files = [f \in FileNames |-> Contents(open_namei(f))] BY DEF Files, FileNames
<1>. QED BY <1>2, <1>3 DEF View, FileNames

\* The same of the files after a step.
LEMMA FilesViewNext ==
  ASSUME Library, DiskType', NamesOK'
  PROVE  View'
<1>1. inode_used' \in SUBSET Nat BY SMTT(30), Z3T(60), SizesType DEF DiskType, Inodes
<1>2. ASSUME NEW k \in inode_used' PROVE open_namei(inodes[k].name)' = k
  <2>. DEFINE S == {m \in inode_used' : inodes'[m].name = inodes'[k].name}
  <2>1. S \in SUBSET Nat /\ S # {} BY <1>1
  <2>2. First(S) \in S BY <2>1, FirstOf
  <2>. QED BY <2>2 DEF open_namei, NamesOK
<1>3. Files' = [f \in FileNames' |-> Contents(open_namei(f))'] BY DEF Files, FileNames
<1>. QED BY <1>2, <1>3 DEF View, FileNames

\* Where byte p of a file lies.
LEMMA BytePlace ==
  ASSUME NEW p \in Nat
  PROVE  /\ p \div BLOCKSIZE \in Nat /\ p % BLOCKSIZE \in Bytes /\ (p \div BLOCKSIZE) * BLOCKSIZE <= p
         /\ p = (p \div BLOCKSIZE) * BLOCKSIZE + (p % BLOCKSIZE)
<1>1. BLOCKSIZE \in Nat \ {0} BY SizesType
<1>2. p = (p \div BLOCKSIZE) * BLOCKSIZE + (p % BLOCKSIZE) /\ p % BLOCKSIZE \in 0..BLOCKSIZE - 1 /\ p \div BLOCKSIZE \in Nat
  BY <1>1, DivMod
<1>3. (p \div BLOCKSIZE) * BLOCKSIZE \in Nat BY SMTT(30), Z3T(60), <1>1, <1>2, TimesNat
<1>4. (p \div BLOCKSIZE) * BLOCKSIZE <= p BY SMTT(30), Z3T(60), <1>1, <1>2, <1>3
<1>. QED BY <1>2, <1>4 DEF Bytes

\* A byte of a file has a block of the file.
LEMMA FileByte ==
  ASSUME FilesOK, NEW k \in Inodes, NEW p \in 0..inodes[k].file_size - 1
  PROVE  /\ p \in Nat /\ p \div BLOCKSIZE \in Direct /\ p % BLOCKSIZE \in Bytes
         /\ (p \div BLOCKSIZE) * BLOCKSIZE < inodes[k].file_size
         /\ inodes[k].direct_blocks[p \div BLOCKSIZE] \in Blocks
         /\ inodes[k].direct_blocks[p \div BLOCKSIZE] # -1
<1>. DEFINE j == p \div BLOCKSIZE
<1>1. inodes[k] \in Inode BY DEF FilesOK, DiskType
<1>2. inodes[k].file_size \in 0..MaxBytes /\ inodes[k].direct_blocks \in [Direct -> Blocks \cup {-1}]
  BY <1>1, InodeParts
<1>3. p \in Nat BY SMTT(30), Z3T(60), <1>2, SizesType
<1>4. j \in Nat /\ p % BLOCKSIZE \in Bytes /\ j * BLOCKSIZE <= p BY <1>3, BytePlace
<1>. HIDE DEF j
<1>5. j * BLOCKSIZE \in Nat BY SMTT(30), Z3T(60), <1>4, SizesType, TimesNat
<1>6. j * BLOCKSIZE < inodes[k].file_size /\ j * BLOCKSIZE < MaxBytes
  BY SMTT(30), Z3T(60), <1>2, <1>3, <1>4, <1>5, SizesType
<1>7. j \in Direct
  <2>1. MAX_FILE_SIZE <= j => MAX_FILE_SIZE * BLOCKSIZE <= j * BLOCKSIZE BY SMTT(30), Z3T(60), <1>4, SizesType, TimesLe
  <2>. QED BY SMTT(30), Z3T(60), <1>4, <1>5, <1>6, <2>1, SizesType DEF Direct
<1>8. inodes[k].direct_blocks[j] # -1 BY <1>6, <1>7 DEF FilesOK, InodesOK, Covered
<1>. QED BY <1>2, <1>3, <1>4, <1>6, <1>7, <1>8 DEF j

\* The contents of a file, byte by byte.
LEMMA ContentsIs ==
  ASSUME FilesOK, TextOK, NEW k \in Inodes
  PROVE  /\ inodes[k].file_size \in Nat
         /\ Contents(k) \in [1..inodes[k].file_size -> Nat \ {0}] /\ Len(Contents(k)) = inodes[k].file_size
         /\ \A p \in 1..inodes[k].file_size : Contents(k)[p] = ByteAt(inodes[k].direct_blocks, p - 1)
<1>1. inodes[k] \in Inode BY DEF FilesOK, DiskType
<1>. DEFINE n == inodes[k].file_size
<1>2. n \in 0..MaxBytes BY <1>1, InodeParts
<1>3. n \in Nat BY SMTT(30), Z3T(60), <1>2, SizesType
<1>4. Contents(k) = [p \in 1..n |-> ByteAt(inodes[k].direct_blocks, p - 1)] BY DEF Contents, ByteAt
<1>5. \A p \in 1..n : ByteAt(inodes[k].direct_blocks, p - 1) \in Nat \ {0}
  <2>1. \A p \in 1..n : p - 1 \in 0..n - 1 BY SMTT(30), Z3T(60), <1>3
  <2>. QED BY <2>1 DEF TextOK
<1>6. Contents(k) \in [1..n -> Nat \ {0}] BY <1>4, <1>5
<1>. HIDE DEF n
<1>7. Len(Contents(k)) = n BY <1>3, <1>6, SeqIs
<1>. QED BY <1>3, <1>4, <1>6, <1>7 DEF n

\* A step that leaves a file its blocks, its size and the bytes in them.
KeepsFile(k) ==
  /\ inodes'[k].file_size = inodes[k].file_size
  /\ inodes'[k].direct_blocks = inodes[k].direct_blocks
  /\ \A p \in 0..inodes[k].file_size - 1 :
       ByteAt(inodes[k].direct_blocks, p)' = ByteAt(inodes[k].direct_blocks, p)
\* A file whose size and bytes a step keeps has the contents it had.
LEMMA KeptContents ==
  ASSUME FilesOK, NEW k \in Inodes, KeepsFile(k)
  PROVE  Contents(k)' = Contents(k)
<1>1. inodes[k] \in Inode BY DEF FilesOK, DiskType
<1>. DEFINE n == inodes[k].file_size
<1>2. n \in 0..MaxBytes BY <1>1, InodeParts
<1>3. \A p \in 1..n : p - 1 \in 0..n - 1 BY SMTT(30), Z3T(60), <1>2, SizesType
<1>4. Contents(k) = [p \in 1..n |-> ByteAt(inodes[k].direct_blocks, p - 1)] BY DEF Contents, ByteAt
<1>5. Contents(k)' = [p \in 1..n |-> ByteAt(inodes[k].direct_blocks, p - 1)'] BY DEF Contents, ByteAt, KeepsFile
<1>. QED BY <1>3, <1>4, <1>5 DEF KeepsFile

\* If every file is kept, so is what the client sees of the files.
LEMMA KeptFiles ==
  ASSUME Library, FilesOK, Meaning, DiskType', inode_used' = inode_used,
         \A k \in inode_used : inodes'[k].name = inodes[k].name,
         \A k \in Inodes : KeepsFile(k)
  PROVE  NamesOK' /\ TextOK' /\ Files' = Files
<1>1. DiskType /\ inode_used \subseteq Inodes BY DEF FilesOK, DiskType
<1>2. NamesOK'
  <2>1. NamesOK BY DEF Meaning
  <2>. QED BY SMTT(30), Z3T(60), <2>1 DEF NamesOK
<1>3. TextOK' BY DEF Meaning, TextOK, KeepsFile
<1>4. \A k \in inode_used : Contents(k)' = Contents(k) BY <1>1, KeptContents
<1>5. View BY <1>1, FilesView DEF Meaning
<1>6. View' BY <1>2, FilesViewNext
<1>7. FileNames' = FileNames BY DEF FileNames
<1>8. ASSUME NEW f \in FileNames PROVE Files'[f] = Files[f]
  <2>1. PICK k \in inode_used : f = inodes[k].name BY DEF FileNames
  <2>2. Files'[f] = Contents(k)' BY <1>6, <2>1 DEF View
  <2>3. Files[f] = Contents(k) BY <1>5, <2>1 DEF View
  <2>. QED BY <1>4, <2>2, <2>3
<1>9. Files = [f \in FileNames |-> Files[f]] BY <1>5 DEF View
<1>10. Files' = [f \in FileNames |-> Files'[f]] BY <1>6, <1>7 DEF View
<1>11. [f \in FileNames |-> Files[f]] = [f \in FileNames |-> Files'[f]] BY <1>8
<1>. QED BY <1>2, <1>3, <1>9, <1>10, <1>11

\* A call that fails, and a step that the client does not see.
LEMMA SeenFail ==
  ASSUME ret' = -1, Files' = Files, OpenHandles' = OpenHandles
  PROVE  Seen
BY DEF Seen, Store!Next, Store!Fail
\* A turn that shows the client nothing is a stuttering step.
LEMMA SeenNothing ==
  ASSUME ret' = ret, Files' = Files, OpenHandles' = OpenHandles
  PROVE  Seen
BY DEF Seen, Store!vars

\* A step keeps what the proof needs, and is one of the store.
Simulates == Meaning' /\ Writing' /\ Seen
\* A step that leaves no write behind need only keep the meaning and be seen.
LEMMA Done ==
  ASSUME NEW r, Returns(r)
  PROVE  Writing' /\ ret' = r
<1>1. pc' = "idle" /\ ret' = r BY DEF Returns
<1>. QED BY <1>1 DEF Writing

\* A step that changes the locals of a call only.
LEMMA Quiet ==
  ASSUME Meaning, UNCHANGED <<disk, handles, stale>>
  PROVE  Meaning' /\ Files' = Files /\ OpenHandles' = OpenHandles
<1>1. inode_used' = inode_used /\ inodes' = inodes /\ data' = data /\ handles' = handles /\ stale' = stale
  BY DEF disk
<1>2. Meaning' BY <1>1 DEF Meaning, NamesOK, StaleOK, TextOK, ByteAt
<1>3. Files' = Files BY <1>1 DEF Files, Contents, open_namei
<1>4. OpenHandles' = OpenHandles BY <1>1 DEF OpenHandles, Usable, FileOf
<1>. QED BY <1>2, <1>3, <1>4
\* A call that returns -1 with the disk and the handles as they were.
LEMMA FailedCall ==
  ASSUME Meaning, Returns(-1), UNCHANGED <<disk, handles, stale>>
  PROVE  Simulates
<1>1. Meaning' /\ Files' = Files /\ OpenHandles' = OpenHandles BY Quiet
<1>2. Writing' /\ ret' = -1 BY Done
<1>. QED BY <1>1, <1>2, SeenFail DEF Simulates

\* An empty disk is the store without files.
LEMMA EmptyStore == Empty => Meaning /\ Files = <<>> /\ OpenHandles = [h \in Handles |-> <<>>]
<1>. SUFFICES ASSUME Empty PROVE Meaning /\ Files = <<>> /\ OpenHandles = [h \in Handles |-> <<>>]
  OBVIOUS
<1>1. inode_used = {} /\ stale = {} BY DEF Empty
<1>2. \A k \in Inodes : inodes[k].file_size = 0 BY DEF Empty, FreeInode
<1>3. TextOK
  <2>1. 0..0 - 1 = {} BY SMTT(30), Z3T(60)
  <2>. QED BY <1>2, <2>1 DEF TextOK
<1>4. Meaning BY <1>1, <1>3 DEF Meaning, NamesOK, StaleOK
<1>5. Files = <<>>
  <2>1. Files = [f \in {} |-> Contents(open_namei(f))] BY <1>1 DEF Files
  <2>. QED BY SMTT(30), Z3T(60), <2>1
<1>6. \A h \in Handles : ~Usable(h) BY DEF Empty, Usable, NoHandle
<1>. QED BY <1>4, <1>5, <1>6 DEF OpenHandles

\* ssufs_formatDisk empties the store.
LEMMA FormatSim ==
  ASSUME ssufs_formatDisk
  PROVE  Simulates
<1>1. Empty' /\ Returns(0) BY DEF ssufs_formatDisk, Empty
<1>2. Empty' => (Meaning /\ Files = <<>> /\ OpenHandles = [h \in Handles |-> <<>>])' BY EmptyStore, PTL
<1>3. Writing' /\ ret' = 0 BY <1>1, Done
<1>4. Seen BY <1>1, <1>2, <1>3 DEF Seen, Store!Next, Store!Format, Store!Closed
<1>. QED BY <1>1, <1>2, <1>3, <1>4 DEF Simulates

\* What the client sees of a handle.
Shown(h) == IF Usable(h) THEN <<FileOf(h).name, handles[h].offset>> ELSE <<>>
\* What the client sees of the handles.
LEMMA ShownHandles ==
  OpenHandles = [h \in Handles |-> Shown(h)] /\ OpenHandles' = [h \in Handles |-> Shown(h)']
BY DEF OpenHandles, Shown

\* One handle changes.
LEMMA OneShown ==
  ASSUME NEW h \in Handles, \A g \in Handles \ {h} : Shown(g)' = Shown(g)
  PROVE  OpenHandles' = [OpenHandles EXCEPT ![h] = Shown(h)']
<1>. DEFINE s == Shown(h)'
            O == OpenHandles
            P == OpenHandles'
<1>1. O = [g \in Handles |-> Shown(g)] /\ P = [g \in Handles |-> Shown(g)'] BY ShownHandles
<1>2. \A g \in Handles : P[g] = IF g = h THEN s ELSE O[g] BY <1>1
<1>. HIDE DEF s, O, P
<1>3. P = [O EXCEPT ![h] = s] BY <1>1, <1>2
<1>. QED BY <1>3 DEF s, O, P

\* What the client sees of a handle that it may use, and of its file.
LEMMA HandleSeen ==
  ASSUME Library, FilesOK, Meaning, NEW h \in Handles, Usable(h)
  PROVE  /\ OpenHandles[h] = <<FileOf(h).name, handles[h].offset>> /\ OpenHandles[h] # <<>>
         /\ OpenHandles[h][1] = FileOf(h).name /\ OpenHandles[h][2] = handles[h].offset
         /\ FileOf(h).name \in DOMAIN Files /\ Files[FileOf(h).name] = Contents(handles[h].inode_number)
         /\ Len(Files[OpenHandles[h][1]]) = FileOf(h).file_size
<1>. DEFINE k == handles[h].inode_number
<1>1. k \in inode_used /\ k \in Inodes /\ FileOf(h) = inodes[k] BY FileOfOK DEF FileOf
<1>2. View BY FilesView DEF FilesOK, Meaning
<1>3. FileOf(h).name \in DOMAIN Files /\ Files[FileOf(h).name] = Contents(k)
  BY <1>1, <1>2 DEF View, FileNames
<1>4. Len(Contents(k)) = FileOf(h).file_size BY <1>1, ContentsIs DEF Meaning
<1>5. OpenHandles[h] = <<FileOf(h).name, handles[h].offset>> BY DEF OpenHandles
<1>. HIDE DEF k
<1>6. OpenHandles[h] # <<>> /\ OpenHandles[h][1] = FileOf(h).name /\ OpenHandles[h][2] = handles[h].offset
  BY SMTT(30), Z3T(60), <1>5
<1>. QED BY <1>3, <1>4, <1>5, <1>6 DEF k

\* A step that leaves the handles alone and keeps the names of the files.
LEMMA KeptHandles ==
  ASSUME FilesOK, UNCHANGED <<handles, stale>>, \A k \in inode_used : inodes'[k].name = inodes[k].name
  PROVE  OpenHandles' = OpenHandles
<1>1. \A h \in Handles : Usable(h)' <=> Usable(h) BY DEF Usable
<1>2. \A h \in Handles : Usable(h) => FileOf(h)'.name = FileOf(h).name BY FileOfOK DEF FileOf
<1>. QED BY <1>1, <1>2 DEF OpenHandles

\* The offset of a handle moves inside its file.
LEMMA Moved ==
  ASSUME Library, FilesOK, Meaning, UNCHANGED <<disk, stale>>, NEW h \in Handles, Usable(h),
         NEW n \in 0..FileOf(h).file_size, handles' = [handles EXCEPT ![h].offset = n], Returns(0)
  PROVE  Simulates
<1>1. inode_used' = inode_used /\ inodes' = inodes /\ data' = data /\ stale' = stale BY DEF disk
<1>2. handles \in [Handles -> [offset : 0..MaxBytes, inode_number : Inodes \cup {-1}]]
  BY DEF FilesOK, HandleType
<1>3. /\ \A g \in Handles : handles'[g].inode_number = handles[g].inode_number
      /\ \A g \in Handles \ {h} : handles'[g] = handles[g]
      /\ handles'[h].offset = n
  <2>1. handles[h] \in [offset : 0..MaxBytes, inode_number : Inodes \cup {-1}] BY <1>2
  <2>2. handles' = [handles EXCEPT ![h] = [handles[h] EXCEPT !.offset = n]] OBVIOUS
  <2>3. [handles[h] EXCEPT !.offset = n].inode_number = handles[h].inode_number
        /\ [handles[h] EXCEPT !.offset = n].offset = n
    BY <2>1
  <2>. QED BY <1>2, <2>2, <2>3
<1>4. \A g \in Handles : (Usable(g)' <=> Usable(g)) /\ FileOf(g)' = FileOf(g)
  BY <1>1, <1>3 DEF Usable, FileOf
<1>5. Files' = Files BY <1>1 DEF Files, Contents, open_namei
<1>6. Meaning'
  <2>1. NamesOK' /\ TextOK' BY <1>1 DEF Meaning, NamesOK, TextOK, ByteAt
  <2>2. StaleOK' BY <1>1, <1>3 DEF Meaning, StaleOK, FilesOK, HandleType
  <2>. QED BY <2>1, <2>2 DEF Meaning
<1>7. /\ OpenHandles[h] = <<FileOf(h).name, handles[h].offset>> /\ OpenHandles[h] # <<>>
      /\ Len(Files[OpenHandles[h][1]]) = FileOf(h).file_size
  BY HandleSeen
<1>8. OpenHandles' = [OpenHandles EXCEPT ![h][2] = n]
  <2>1. OpenHandles' = [OpenHandles EXCEPT ![h] = <<FileOf(h).name, n>>]
    <3>1. ASSUME NEW g \in Handles \ {h} PROVE Shown(g)' = Shown(g)
      <4>1. handles'[g] = handles[g] /\ (Usable(g)' <=> Usable(g)) /\ FileOf(g)' = FileOf(g) BY <1>3, <1>4
      <4>. QED BY SMTT(30), Z3T(60), <4>1 DEF Shown
    <3>2. Shown(h)' = <<FileOf(h).name, n>> BY <1>3, <1>4 DEF Shown
    <3>. QED BY <3>1, <3>2, OneShown
  <2>2. [OpenHandles[h] EXCEPT ![2] = n] = <<FileOf(h).name, n>> BY SMTT(30), Z3T(60), <1>7
  <2>. QED BY <2>1, <2>2
<1>9. Writing' /\ ret' = 0 BY Done
<1>10. Store!Move(h) BY <1>5, <1>7, <1>8, <1>9 DEF Store!Move, Store!Size, Store!Closed
<1>11. Seen BY <1>10 DEF Seen, Store!Next
<1>. QED BY <1>6, <1>9, <1>11 DEF Simulates

\* ssufs_lseek moves one offset, or fails.
LEMMA SeekSim ==
  ASSUME Library, IInv, Meaning, NEW h \in Handles, NEW n \in Seeks, ssufs_lseek(h, n)
  PROVE  Simulates
<1>1. FilesOK /\ Usable(h) /\ UNCHANGED <<disk, stale>> BY IInvParts DEF ssufs_lseek
<1>. DEFINE offset == handles[h].offset + n
<1>2. CASE BadOffset(h, offset)
  <2>1. Returns(-1) /\ UNCHANGED handles BY <1>2 DEF ssufs_lseek
  <2>. QED BY <1>1, <2>1, FailedCall
<1>3. CASE ~BadOffset(h, offset)
  <2>1. Returns(0) /\ handles' = [handles EXCEPT ![h].offset = offset] BY <1>3 DEF ssufs_lseek
  <2>2. FileOf(h).file_size \in 0..MaxBytes /\ handles[h].offset \in 0..MaxBytes /\ n \in Int
    BY <1>1, FileOfOK, HandleParts, SsufsAssumption DEF FilesOK
  <2>3. offset \in 0..FileOf(h).file_size BY SMTT(30), Z3T(60), <1>3, <2>2, SizesType DEF BadOffset
  <2>. HIDE DEF offset
  <2>. QED BY <1>1, <2>1, <2>3, Moved
<1>. QED BY <1>2, <1>3

\* ssufs_read moves the offset behind the bytes it returns, or fails.
LEMMA ReadSim ==
  ASSUME Library, IInv, Meaning, NEW h \in Handles, NEW n \in Sizes, ssufs_read(h, n), IInv'
  PROVE  Simulates
<1>1. FilesOK /\ Usable(h) BY IInvParts DEF ssufs_read
<1>. DEFINE off == handles[h].offset
            size == FileOf(h).file_size
<1>2. size \in 0..MaxBytes /\ off \in 0..size BY <1>1, FileOfOK
<1>3. n \in Nat BY SsufsAssumption
<1>4. pc' # "abort" BY DEF IInv
<1>5. CASE off + n > size
  <2>1. Returns(-1) /\ UNCHANGED <<disk, handles, stale>> BY <1>5 DEF ssufs_read
  <2>. QED BY <2>1, FailedCall
<1>6. CASE ~(off + n > size)
  <2>1. /\ UNCHANGED <<disk, stale>>
        /\ IF Readable(h, n) THEN Advance(h, n, size) /\ Returns(0) ELSE Returns(-1) /\ UNCHANGED handles
    BY <1>4, <1>6 DEF ssufs_read, Abort
  <2>2. CASE Readable(h, n)
    <3>1. off + n \in 0..size BY SMTT(30), Z3T(60), <1>2, <1>3, <1>6, SizesType
    <3>2. handles' = [handles EXCEPT ![h].offset = off + n] BY <1>6, <2>1, <2>2 DEF Advance
    <3>. QED BY <1>1, <2>1, <2>2, <3>1, <3>2, Moved
  <2>3. CASE ~Readable(h, n) BY <2>1, <2>3, FailedCall
  <2>. QED BY <2>2, <2>3
<1>. QED BY <1>5, <1>6

\* One handle is opened or closed.
LEMMA HandleSet ==
  ASSUME FilesOK, Meaning, UNCHANGED disk, NEW h \in Handles, NEW n, NEW k,
         handles' = [handles EXCEPT ![h] = [offset |-> n, inode_number |-> k]],
         (h \notin stale /\ stale' = stale) \/ stale' = stale \ {h}
  PROVE  /\ Meaning' /\ Files' = Files
         /\ OpenHandles' = [OpenHandles EXCEPT ![h] = IF k # -1 THEN <<inodes[k].name, n>> ELSE <<>>]
<1>1. inode_used' = inode_used /\ inodes' = inodes /\ data' = data BY DEF disk
<1>2. handles'[h] = [offset |-> n, inode_number |-> k] /\ \A g \in Handles \ {h} : handles'[g] = handles[g]
  BY DEF FilesOK, HandleType
<1>3. stale \subseteq Handles /\ h \notin stale' /\ \A g \in Handles \ {h} : g \in stale' <=> g \in stale
  BY DEF FilesOK, HandleType
<1>4. Files' = Files BY <1>1 DEF Files, Contents, open_namei
<1>5. Meaning'
  <2>1. NamesOK' /\ TextOK' BY <1>1 DEF Meaning, NamesOK, TextOK, ByteAt
  <2>2. StaleOK'
    <3>1. stale' \subseteq stale /\ \A g \in stale' : g \in Handles \ {h} BY <1>3
    <3>. QED BY <1>2, <3>1 DEF Meaning, StaleOK
  <2>. QED BY <2>1, <2>2 DEF Meaning
<1>6. ASSUME NEW g \in Handles \ {h} PROVE Shown(g)' = Shown(g)
  <2>1. handles'[g] = handles[g] /\ inodes' = inodes /\ (g \in stale' <=> g \in stale) BY <1>1, <1>2, <1>3
  <2>. QED BY SMTT(30), Z3T(60), <2>1 DEF Shown, Usable, FileOf
<1>7. Shown(h)' = IF k # -1 THEN <<inodes[k].name, n>> ELSE <<>>
  <2>1. handles'[h].inode_number = k /\ handles'[h].offset = n BY SMTT(30), Z3T(60), <1>2
  <2>. QED BY SMTT(30), Z3T(60), <1>1, <1>3, <2>1 DEF Shown, Usable, FileOf
<1>. QED BY <1>4, <1>5, <1>6, <1>7, OneShown

\* ssufs_open opens a free handle at offset 0, or fails.
LEMMA OpenSim ==
  ASSUME Library, IInv, Meaning, NEW f \in Names, ssufs_open(f)
  PROVE  Simulates
<1>1. FilesOK /\ DiskType BY IInvParts
<1>2. UNCHANGED <<disk, stale>> BY DEF ssufs_open
<1>. DEFINE k == open_namei(f)
            h == ssufs_allocFileHandle
<1>3. CASE k = -1 \/ h = -1
  <2>1. Returns(-1) /\ UNCHANGED handles BY <1>3 DEF ssufs_open
  <2>. QED BY <1>2, <2>1, FailedCall
<1>4. CASE ~(k = -1 \/ h = -1)
  <2>1. handles' = [handles EXCEPT ![h] = [offset |-> 0, inode_number |-> k]] /\ Returns(0)
    BY <1>4 DEF ssufs_open
  <2>2. k \in inode_used /\ inodes[k].name = f /\ h \in Handles /\ handles[h].inode_number = -1
    BY <1>1, <1>4, NameiOK, AllocHandleOK
  <2>. HIDE DEF k, h
  <2>3. h \notin stale BY <2>2 DEF Meaning, StaleOK
  <2>4. /\ Meaning' /\ Files' = Files
        /\ OpenHandles' = [OpenHandles EXCEPT ![h] = IF k # -1 THEN <<inodes[k].name, 0>> ELSE <<>>]
    BY <1>1, <1>2, <2>1, <2>2, <2>3, HandleSet
  <2>5. OpenHandles' = [OpenHandles EXCEPT ![h] = <<f, 0>>] BY <1>4, <2>2, <2>4
  <2>6. OpenHandles[h] = <<>> BY <2>2, ShownHandles DEF Shown, Usable
  <2>7. f \in DOMAIN Files
    <3>1. View BY <1>1, FilesView DEF Meaning
    <3>. QED BY <2>2, <3>1 DEF View, FileNames
  <2>8. Writing' /\ ret' = 0 BY <2>1, Done
  <2>9. Store!Open(f, h) BY <2>4, <2>5, <2>6, <2>7, <2>8 DEF Store!Open, Store!Closed
  <2>10. Seen BY <2>2, <2>9 DEF Seen, Store!Next
  <2>. QED BY <2>4, <2>8, <2>10 DEF Simulates
<1>. QED BY <1>3, <1>4

\* ssufs_close makes one handle useless.
LEMMA CloseSim ==
  ASSUME IInv, Meaning, NEW h \in Handles, ssufs_close(h)
  PROVE  Simulates
<1>1. /\ handles' = [handles EXCEPT ![h] = [offset |-> 0, inode_number |-> -1]] /\ Returns(0)
      /\ UNCHANGED disk /\ stale' = stale \ {h}
  BY DEF ssufs_close, NoHandle
<1>2. /\ Meaning' /\ Files' = Files
      /\ OpenHandles' = [OpenHandles EXCEPT ![h] = IF -1 # -1 THEN <<inodes[-1].name, 0>> ELSE <<>>]
  BY <1>1, IInvParts, HandleSet
<1>3. OpenHandles' = [OpenHandles EXCEPT ![h] = <<>>] BY <1>2
<1>4. Writing' /\ ret' = 0 BY <1>1, Done
<1>5. Store!Close(h) BY <1>2, <1>3, <1>4 DEF Store!Close, Store!Closed
<1>6. Seen BY <1>5 DEF Seen, Store!Next
<1>. QED BY <1>2, <1>4, <1>6 DEF Simulates

\* A file is created with a new name and without bytes.
LEMMA CreateSim ==
  ASSUME Library, IInv, Meaning, NEW f \in Names, ssufs_create(f), IInv'
  PROVE  Simulates
<1>1. FilesOK /\ DiskType /\ InodesOK BY IInvParts
<1>2. UNCHANGED <<block_used, data, eof, handles, stale>> BY DEF ssufs_create
<1>3. CASE CannotCreate(f)
  <2>1. Returns(-1) /\ UNCHANGED <<inode_used, inodes>> BY <1>3 DEF ssufs_create
  <2>. QED BY <1>2, <2>1, FailedCall DEF disk
<1>4. CASE ~CannotCreate(f)
  <2>1. PICK k \in Inodes \ inode_used : k = ssufs_allocInode BY <1>4, AllocInodeOK DEF CannotCreate
  <2>2. /\ inode_used' = inode_used \cup {k} /\ Returns(0)
        /\ inodes' = [inodes EXCEPT ![k].status = "1", ![k].name = f]
    BY <1>4, <2>1 DEF ssufs_create
  <2>3. \A m \in inode_used : inodes[m].name # f
    <3>. DEFINE S == {m \in inode_used : inodes[m].name = f}
    <3>1. S \in SUBSET Nat
      <4>1. Inodes \subseteq Nat BY SMTT(30), Z3T(60), SizesType DEF Inodes
      <4>. QED BY <1>1, <4>1 DEF DiskType
    <3>2. First(S) = -1 BY <1>4 DEF CannotCreate, open_namei
    <3>3. S = {} BY <3>1, <3>2, FirstOf
    <3>. QED BY <3>3
  <2>4. inodes \in [Inodes -> Inode] /\ inodes[k] \in Inode BY <1>1, <2>1 DEF DiskType
  <2>. DEFINE new == [[inodes[k] EXCEPT !.status = "1"] EXCEPT !.name = f]
  <2>5. \A m \in Inodes : inodes'[m] = IF m = k THEN new ELSE inodes[m] BY SMTT(30), Z3T(60), <2>1, <2>2, <2>4
  <2>6. new.direct_blocks = inodes[k].direct_blocks BY <2>4 DEF Inode
  <2>7. new.file_size = inodes[k].file_size BY <2>4 DEF Inode
  <2>8. new.name = f BY <2>4 DEF Inode
  <2>. HIDE DEF new
  <2>9. \A m \in Inodes : KeepsFile(m) BY <1>2, <2>5, <2>6, <2>7 DEF KeepsFile, ByteAt
  <2>10. inode_used \subseteq Inodes BY <1>1 DEF DiskType
  <2>11. inodes'[k].name = f /\ \A m \in inode_used : inodes'[m].name = inodes[m].name
    BY <2>1, <2>5, <2>8, <2>10
  <2>12. NamesOK'
    <3>1. NamesOK BY DEF Meaning
    <3>2. \A m \in inode_used' : m = k \/ m \in inode_used BY <2>2
    <3>3. \A m \in inode_used' : inodes'[m].name \in Names BY <2>11, <3>1, <3>2 DEF NamesOK
    <3>4. ASSUME NEW m \in inode_used', NEW n \in inode_used', inodes'[m].name = inodes'[n].name PROVE m = n
      BY <2>3, <2>11, <3>1, <3>2, <3>4 DEF NamesOK
    <3>. QED BY <3>3, <3>4 DEF NamesOK
  <2>13. TextOK' /\ StaleOK' BY <1>2, <2>9 DEF Meaning, TextOK, StaleOK, KeepsFile
  <2>14. View BY <1>1, FilesView DEF Meaning
  <2>15. View' BY <2>12, IInvParts, FilesViewNext DEF IInv, Types, TypeOK, DiskType
  <2>16. FileNames' = FileNames \cup {f} BY <2>2, <2>11 DEF FileNames
  <2>17. Files'[f] = <<>>
    <3>1. Files'[f] = Contents(k)' BY <2>2, <2>11, <2>15 DEF View
    <3>2. inodes'[k].file_size = 0 BY <1>1, <2>1, <2>5, <2>7 DEF InodesOK
    <3>3. Contents(k)' = <<>> BY SMTT(30), Z3T(60), <3>2 DEF Contents
    <3>. QED BY <3>1, <3>3
  <2>18. \A g \in FileNames : Files'[g] = Files[g] /\ g # f
    <3>. SUFFICES ASSUME NEW m \in inode_used
                  PROVE  Files'[inodes[m].name] = Files[inodes[m].name] /\ inodes[m].name # f
      BY DEF FileNames
    <3>1. Files[inodes[m].name] = Contents(m) BY <2>14 DEF View
    <3>2. Files'[inodes[m].name] = Contents(m)' BY <2>2, <2>11, <2>15 DEF View
    <3>3. Contents(m)' = Contents(m) BY <1>1, <2>9, <2>10, KeptContents
    <3>. QED BY <2>3, <3>1, <3>2, <3>3
  <2>19. /\ f \notin DOMAIN Files
         /\ Files' = [g \in DOMAIN Files \cup {f} |-> IF g = f THEN <<>> ELSE Files[g]]
    <3>. DEFINE F == Files
                G == Files'
    <3>1. F = [g \in FileNames |-> F[g]] BY <2>14 DEF View
    <3>2. G = [g \in FileNames \cup {f} |-> G[g]] BY <2>15, <2>16 DEF View
    <3>3. G[f] = <<>> /\ \A g \in FileNames : G[g] = F[g] /\ g # f BY <2>17, <2>18
    <3>. HIDE DEF F, G
    <3>4. DOMAIN F = FileNames BY <3>1
    <3>5. G = [g \in FileNames \cup {f} |-> IF g = f THEN <<>> ELSE F[g]] BY <3>2, <3>3
    <3>. QED BY <3>3, <3>4, <3>5 DEF F, G
  <2>20. OpenHandles' = OpenHandles BY <1>1, <1>2, <2>11, KeptHandles
  <2>21. Writing' /\ ret' = 0 BY <2>2, Done
  <2>22. Store!Create(f) BY <2>19, <2>20, <2>21 DEF Store!Create
  <2>23. Seen BY <2>22 DEF Seen, Store!Next
  <2>. QED BY <2>12, <2>13, <2>21, <2>23 DEF Simulates, Meaning
<1>. QED BY <1>3, <1>4

\* The blocks that the deletion of a file frees, and the data blocks after it.
Freed(k) == {inodes[k].direct_blocks[j] : j \in {l \in Direct : inodes[k].direct_blocks[l] # -1}}
DataWithout(k) == [b \in Blocks |-> IF b \in Freed(k) THEN Erased(data[b]) ELSE data[b]]

\* A file is deleted: no other file has one of its blocks, and its handles are stale.
LEMMA DeleteSim ==
  ASSUME Library, IInv, Meaning, NEW f \in Names, ssufs_delete(f), IInv'
  PROVE  Simulates
<1>1. FilesOK /\ DiskType /\ HandleType /\ BlocksOK BY IInvParts
<1>2. PICK k \in inode_used : k = open_namei(f) /\ k \in Inodes /\ inodes[k].name = f
  BY <1>1, NameiOK DEF ssufs_delete
<1>3. /\ data' = DataWithout(k)
      /\ inode_used' = inode_used \ {k} /\ inodes' = [inodes EXCEPT ![k] = Deleted(k)]
      /\ stale' = stale \cup {h \in Handles : handles[h].inode_number = k}
      /\ Returns(0) /\ handles' = handles
  <2>. DEFINE n == open_namei(f)
  <2>1. pc' # "abort" BY DEF IInv
  <2>2. /\ data' = DataWithout(n)
        /\ inode_used' = inode_used \ {n} /\ inodes' = [inodes EXCEPT ![n] = Deleted(n)]
        /\ stale' = stale \cup {h \in Handles : handles[h].inode_number = n}
        /\ Returns(0) /\ handles' = handles
    BY <2>1 DEF ssufs_delete, Abort, DataWithout, Freed
  <2>. HIDE DEF n
  <2>3. n = k BY <1>2 DEF n
  <2>. QED BY <2>2, <2>3
<1>4. ASSUME NEW m \in Inodes \ {k}, NEW l \in Direct, inodes[m].direct_blocks[l] # -1
      PROVE  inodes[m].direct_blocks[l] \notin Freed(k)
  <2>. SUFFICES ASSUME NEW j \in Direct, inodes[k].direct_blocks[j] = inodes[m].direct_blocks[l] PROVE FALSE
    BY DEF Freed
  <2>. QED BY <1>1, <1>2, <1>4 DEF BlocksOK
<1>5. inodes \in [Inodes -> Inode] /\ inode_used \subseteq Inodes BY <1>1 DEF DiskType
<1>6. inodes'[k] = Deleted(k) /\ \A m \in Inodes \ {k} : inodes'[m] = inodes[m] BY <1>2, <1>3, <1>5
<1>7. inodes'[k].file_size = 0 BY <1>2, <1>5, <1>6, DeletedParts
<1>8. ASSUME NEW m \in Inodes \ {k} PROVE KeepsFile(m)
  <2>1. ASSUME NEW p \in 0..inodes[m].file_size - 1
        PROVE  ByteAt(inodes[m].direct_blocks, p)' = ByteAt(inodes[m].direct_blocks, p)
    <3>. DEFINE b == inodes[m].direct_blocks[p \div BLOCKSIZE]
    <3>1. p \div BLOCKSIZE \in Direct /\ b \in Blocks /\ b # -1 BY <1>1, FileByte
    <3>2. b \notin Freed(k) BY <1>4, <3>1
    <3>3. data'[b] = data[b] BY <1>3, <3>1, <3>2 DEF DataWithout
    <3>4. inodes'[m] = inodes[m] BY <1>6
    <3>. QED BY <3>3, <3>4 DEF ByteAt
  <2>2. inodes'[m] = inodes[m] BY <1>6
  <2>. QED BY <2>1, <2>2 DEF KeepsFile, ByteAt
<1>9. \A m \in inode_used' : m \in inode_used /\ m \in Inodes \ {k} /\ inodes'[m].name = inodes[m].name
  BY <1>3, <1>5, <1>6
<1>10. NamesOK
  BY DEF Meaning
<1>11. NamesOK' BY <1>9, <1>10 DEF NamesOK
<1>12. TextOK'
  <2>. SUFFICES ASSUME NEW m \in Inodes, NEW p \in 0..inodes'[m].file_size - 1
                PROVE  ByteAt(inodes[m].direct_blocks, p)' \in Nat \ {0}
    BY DEF TextOK
  <2>1. m # k
    <3>1. 0..0 - 1 = {} BY SMTT(30), Z3T(60)
    <3>. QED BY <1>7, <3>1
  <2>2. KeepsFile(m) BY <1>8, <2>1
  <2>. QED BY <2>2 DEF KeepsFile, Meaning, TextOK
<1>13. StaleOK'
  <2>1. \A h \in Handles : handles[h].inode_number = k => handles[h].inode_number # -1
    BY SMTT(30), Z3T(60), <1>2, SizesType DEF Inodes
  <2>. QED BY <1>3, <2>1 DEF StaleOK, Meaning
<1>14. View BY <1>1, FilesView DEF Meaning
<1>15. View' BY <1>11, FilesViewNext DEF IInv, Types, TypeOK, DiskType
<1>16. FileNames' = FileNames \ {f}
  <2>1. \A m \in inode_used : inodes[m].name = f <=> m = k BY <1>2, <1>10 DEF NamesOK
  <2>2. FileNames' = {inodes[m].name : m \in inode_used \ {k}} BY <1>3, <1>9 DEF FileNames
  <2>. QED BY <2>1, <2>2 DEF FileNames
<1>17. ASSUME NEW m \in inode_used' PROVE Files'[inodes[m].name] = Files[inodes[m].name]
  <2>1. m \in inode_used /\ m \in Inodes /\ KeepsFile(m) /\ inodes'[m].name = inodes[m].name BY <1>8, <1>9
  <2>2. Files[inodes[m].name] = Contents(m) BY <1>14, <2>1 DEF View
  <2>3. Files'[inodes[m].name] = Contents(m)' BY <1>15, <2>1 DEF View
  <2>4. Contents(m)' = Contents(m) BY <1>1, <2>1, KeptContents
  <2>. QED BY <2>2, <2>3, <2>4
<1>18. f \in DOMAIN Files /\ Files' = [g \in DOMAIN Files \ {f} |-> Files[g]]
  <2>. DEFINE F == Files
              G == Files'
  <2>1. F = [g \in FileNames |-> F[g]] BY <1>14 DEF View
  <2>2. G = [g \in FileNames \ {f} |-> G[g]] BY <1>15, <1>16 DEF View
  <2>3. \A g \in FileNames \ {f} : G[g] = F[g] BY <1>3, <1>17, <1>2 DEF FileNames
  <2>4. f \in FileNames BY <1>2 DEF FileNames
  <2>. HIDE DEF F, G
  <2>5. DOMAIN F = FileNames BY <2>1
  <2>6. G = [g \in FileNames \ {f} |-> F[g]] BY <2>2, <2>3
  <2>. QED BY <2>4, <2>5, <2>6 DEF F, G
<1>19. OpenHandles' = [h \in Handles |-> IF OpenHandles[h] # <<>> /\ OpenHandles[h][1] = f
                                        THEN <<>> ELSE OpenHandles[h]]
  <2>1. ASSUME NEW h \in Handles
        PROVE  Shown(h)' = IF OpenHandles[h] # <<>> /\ OpenHandles[h][1] = f THEN <<>> ELSE OpenHandles[h]
    <3>1. Usable(h)' <=> Usable(h) /\ handles[h].inode_number # k BY <1>3 DEF Usable
    <3>2. CASE ~Usable(h)
      <4>1. OpenHandles[h] = <<>> BY <3>2, ShownHandles DEF Shown
      <4>2. Shown(h)' = <<>> BY <3>1, <3>2 DEF Shown
      <4>. QED BY <4>1, <4>2
    <3>3. CASE Usable(h)
      <4>1. /\ OpenHandles[h] = <<FileOf(h).name, handles[h].offset>> /\ OpenHandles[h] # <<>>
            /\ OpenHandles[h][1] = FileOf(h).name /\ handles[h].inode_number \in inode_used
            /\ handles[h].inode_number \in Inodes
        BY <1>1, <3>3, HandleSeen, FileOfOK
      <4>2. FileOf(h).name = f <=> handles[h].inode_number = k BY <1>2, <1>10, <4>1 DEF FileOf, NamesOK
      <4>3. CASE handles[h].inode_number = k
        <5>1. Shown(h)' = <<>> BY <3>1, <4>3 DEF Shown
        <5>. QED BY <4>1, <4>2, <4>3, <5>1
      <4>4. CASE handles[h].inode_number # k
        <5>1. FileOf(h)' = FileOf(h) BY <1>3, <1>6, <4>1, <4>4 DEF FileOf
        <5>2. Shown(h)' = OpenHandles[h] BY SMTT(30), Z3T(60), <1>3, <3>1, <3>3, <4>1, <4>4, <5>1 DEF Shown
        <5>. QED BY <4>1, <4>2, <4>4, <5>2
      <4>. QED BY <4>3, <4>4
    <3>. QED BY <3>2, <3>3
  <2>2. OpenHandles' = [h \in Handles |-> Shown(h)'] BY ShownHandles
  <2>. QED BY <2>1, <2>2
<1>20. Writing' /\ ret' = 0 BY <1>3, Done
<1>21. Store!Delete(f) BY <1>18, <1>19, <1>20 DEF Store!Delete, Store!Closed
<1>22. Seen BY <1>21 DEF Seen, Store!Next
<1>. QED BY <1>11, <1>12, <1>13, <1>20, <1>22 DEF Simulates, Meaning

\* The size of the file that a write appends to.
LEMMA WriteSizeType == IInv /\ pc = "write" => WriteSize \in 0..MaxBytes
BY TurnFacts

\* A write that starts has written nothing.
LEMMA StartSim ==
  ASSUME IInv, Meaning, NEW h \in Handles, NEW n \in Sizes, NEW b \in Buffers, ssufs_write(h, n, b), IInv'
  PROVE  Simulates
<1>1. UNCHANGED <<disk, handles, stale>> BY DEF ssufs_write
<1>2. CASE TooLarge(h, n)
  <2>1. Returns(-1) BY <1>2 DEF ssufs_write
  <2>. QED BY <1>1, <2>1, FailedCall
<1>3. CASE ~TooLarge(h, n)
  <2>1. PICK u \in Uninit : /\ pc' = "write" /\ ret' = ret
          /\ call' = [NoCall EXCEPT !.fh = h, !.nbytes = n, !.f_offset = handles[h].offset,
                        !.buf = b, !.tmp = FileOf(h), !.rollback_index = u]
    BY <1>3 DEF ssufs_write
  <2>2. call'.curr = 0 /\ call'.isUsed = {} BY <2>1 DEF NoCall
  <2>3. (IInv /\ pc = "write" => WriteSize \in 0..MaxBytes)' BY WriteSizeType, PTL
  <2>4. WriteSize'..WriteAt' - 1 = {}
    <3>. DEFINE a == WriteSize'
                z == WriteAt'
    <3>1. a \in 0..MaxBytes /\ z = a + 0 BY <2>1, <2>2, <2>3 DEF WriteAt
    <3>. HIDE DEF a, z
    <3>2. a..z - 1 = {} BY SMTT(30), Z3T(60), <3>1, SizesType
    <3>. QED BY <3>2 DEF a, z
  <2>5. NameOK'
    <3>1. call'.tmp = FileOf(h) /\ call'.fh = h BY <2>1 DEF NoCall
    <3>. QED BY <1>1, <3>1 DEF NameOK, FileOf, disk
  <2>6. Writing' BY <2>2, <2>4, <2>5 DEF Writing, WrittenOK, RollbackOK
  <2>7. Meaning' /\ Files' = Files /\ OpenHandles' = OpenHandles BY <1>1, Quiet
  <2>. QED BY <2>1, <2>6, <2>7, SeenNothing DEF Simulates
<1>. QED BY <1>2, <1>3

\* A turn without a block writes nothing.
LEMMA SkipSim ==
  ASSUME SInv, pc = "write", SkipBlock
  PROVE  Simulates
<1>1. CallType /\ Meaning /\ WrittenOK /\ RollbackOK /\ NameOK BY IInvParts DEF SInv, Writing
<1>2. UNCHANGED <<disk, handles, stale, ret, pc>> BY DEF SkipBlock
<1>3. /\ call'.fh = call.fh /\ call'.curr = call.curr /\ call'.buf = call.buf /\ call'.tmp = call.tmp
      /\ call'.isUsed = call.isUsed /\ call'.rollback = call.rollback
  BY <1>1 DEF SkipBlock, CallType
<1>4. inodes' = inodes /\ data' = data /\ handles' = handles BY <1>2 DEF disk
<1>5. WriteSize' = WriteSize /\ WriteAt' = WriteAt /\ FileOf(call.fh)' = FileOf(call.fh)
  BY <1>3, <1>4 DEF WriteSize, WriteAt, FileOf
<1>6. WrittenOK' BY <1>1, <1>3, <1>4, <1>5 DEF WrittenOK, ByteAt
<1>7. RollbackOK' BY <1>1, <1>3, <1>4, <1>5 DEF RollbackOK, ByteAt
<1>8. NameOK' BY <1>1, <1>3, <1>5 DEF NameOK
<1>9. Meaning' /\ Files' = Files /\ OpenHandles' = OpenHandles BY <1>1, <1>2, Quiet
<1>. QED BY <1>2, <1>6, <1>7, <1>8, <1>9, SeenNothing DEF Simulates, Writing

\* A rollback gives the block of the file back the bytes that it had.
LEMMA RollbackSim ==
  ASSUME Library, SInv, pc = "write", Rollback, IInv'
  PROVE  Simulates
<1>1. /\ FilesOK /\ DiskType /\ BlocksOK /\ CallType /\ WriteArgs /\ WriteBlocks /\ WriteSize \in 0..MaxBytes
      /\ Meaning /\ RollbackOK
  BY TurnFacts DEF FilesOK, SInv, Writing
<1>. DEFINE d == call.tmp.direct_blocks
            writers(b) == {j \in call.isUsed : d[j] = b}
            kk == handles[call.fh].inode_number
<1>2. /\ data' = [b \in Blocks |->
               IF writers(b) = {} THEN data[b]
               ELSE IF \E j \in writers(b) : j = call.rollback_index /\ \A l \in writers(b) : l <= j
                    THEN call.rollback ELSE call.tmp_buf]
      /\ Returns(-1) /\ UNCHANGED <<inode_used, inodes, handles, stale>>
  <2>1. pc' # "abort" BY DEF IInv
  <2>. QED BY <2>1 DEF Rollback, Abort
<1>3. call.isUsed \subseteq Direct /\ call.fh \in Handles BY <1>1, CallFields
<1>4. kk \in Inodes /\ FileOf(call.fh) = inodes[kk] BY <1>1, <1>3, FileOfOK DEF WriteArgs, FileOf
<1>5. ASSUME NEW k \in Inodes PROVE KeepsFile(k)
  <2>1. ASSUME NEW p \in 0..inodes[k].file_size - 1
        PROVE  data'[inodes[k].direct_blocks[p \div BLOCKSIZE]][p % BLOCKSIZE] =
                 data[inodes[k].direct_blocks[p \div BLOCKSIZE]][p % BLOCKSIZE]
    <3>. DEFINE q == p \div BLOCKSIZE
                b == inodes[k].direct_blocks[q]
    <3>1. q \in Direct /\ b \in Blocks /\ b # -1 BY <1>1, FileByte
    <3>2. CASE writers(b) = {} BY <1>2, <3>1, <3>2
    <3>3. CASE writers(b) # {}
      <4>1. ASSUME NEW j \in writers(b) PROVE ~NewBlock(j) /\ j = call.rollback_index /\ j \in Direct
        BY <1>1, <1>3, <3>1 DEF WriteBlocks
      <4>2. PICK j \in writers(b) : TRUE BY <3>3
      <4>3. j \in call.isUsed /\ d[j] = b /\ j \in Direct BY <4>1, <4>2
      <4>4. \A l \in writers(b) : l <= j
        <5>1. j <= j BY SMTT(30), Z3T(60), <4>3, SizesType DEF Direct
        <5>. QED BY <4>1, <4>2, <5>1
      <4>5. data'[b] = call.rollback
        <5>1. \E l \in writers(b) : l = call.rollback_index /\ \A m \in writers(b) : m <= l
          BY <4>1, <4>2, <4>4
        <5>. QED BY <1>2, <3>1, <3>3, <5>1
      <4>6. j * BLOCKSIZE < WriteSize
        <5>1. j * BLOCKSIZE \in Int BY SMTT(30), Z3T(60), <4>3, SizesType DEF Direct
        <5>2. ~(j * BLOCKSIZE >= WriteSize) BY <3>1, <4>1, <4>2, <4>3 DEF NewBlock
        <5>. QED BY SMTT(30), Z3T(60), <1>1, <5>1, <5>2, SizesType
      <4>7. inodes[kk].direct_blocks[j] = b BY <1>1, <1>4, <4>3, <4>6 DEF WriteBlocks
      <4>8. k = kk /\ q = j
        <5>1. inodes[kk].direct_blocks[j] = inodes[k].direct_blocks[q] /\ inodes[k].direct_blocks[q] # -1
          BY <3>1, <4>7
        <5>. HIDE DEF q, kk
        <5>2. \A m \in Inodes : \A l \in Direct :
                inodes[m].direct_blocks[l] = inodes[k].direct_blocks[q] => m = k /\ l = q
          BY <1>1, <3>1, <5>1 DEF BlocksOK
        <5>. QED BY <1>4, <4>3, <5>1, <5>2
      <4>9. p \in 0..WriteSize - 1 BY <1>4, <4>8 DEF WriteSize
      <4>10. call.rollback[p % BLOCKSIZE] = ByteAt(FileOf(call.fh).direct_blocks, p)
        BY <1>1, <4>3, <4>8, <4>9 DEF RollbackOK
      <4>. QED BY <1>4, <4>5, <4>7, <4>8, <4>10 DEF ByteAt
    <3>. QED BY <3>2, <3>3
  <2>. QED BY <1>2, <2>1 DEF KeepsFile, ByteAt
<1>6. NamesOK' /\ TextOK' /\ Files' = Files
  <2>1. DiskType' BY DEF IInv, Types, TypeOK, DiskType
  <2>. QED BY <1>1, <1>2, <1>5, <2>1, KeptFiles
<1>7. StaleOK' BY <1>1, <1>2 DEF Meaning, StaleOK
<1>8. OpenHandles' = OpenHandles BY <1>1, <1>2, KeptHandles
<1>9. Writing' /\ ret' = -1 BY <1>2, Done
<1>. QED BY <1>6, <1>7, <1>8, <1>9, SeenFail DEF Simulates, Meaning

\* A turn leaves the bytes of all files alone: it writes behind those of its own file.
LEMMA TurnKeeps ==
  ASSUME IInv, NEW b, Turn(b), WriteBlock(b), NEW k \in Inodes, NEW p \in 0..inodes[k].file_size - 1
  PROVE  data'[inodes[k].direct_blocks[p \div BLOCKSIZE]][p % BLOCKSIZE] =
           ByteAt(inodes[k].direct_blocks, p)
<1>. DEFINE q == p \div BLOCKSIZE
            r == p % BLOCKSIZE
            c == inodes[k].direct_blocks[q]
            kk == handles[call.fh].inode_number
<1>1. /\ FilesOK /\ DiskType /\ BlocksOK /\ CallType /\ WriteArgs /\ WritePosition
      /\ WriteSize \in 0..MaxBytes /\ WriteAt \in Nat /\ call.i * BLOCKSIZE \in Nat /\ call.f_offset \in Nat
      /\ call.i \in Direct
  BY TurnFacts DEF FilesOK, Turn
<1>2. q \in Direct /\ r \in Bytes /\ c \in Blocks /\ c # -1 /\ p \in Nat BY <1>1, FileByte
<1>3. data' = [data EXCEPT ![b] = NewBytes(b)] /\ data \in [Blocks -> [Bytes -> Byte]]
  BY <1>1, TurnDisk DEF DiskType, DataType
<1>4. kk \in Inodes /\ FileOf(call.fh) = inodes[kk]
  <2>1. call.fh \in Handles BY <1>1, CallFields
  <2>. QED BY <1>1, <2>1, FileOfOK DEF WriteArgs, FileOf
<1>5. CASE c # b
  <2>1. data'[c] = data[c] BY <1>2, <1>3, <1>5
  <2>. QED BY <2>1 DEF ByteAt
<1>6. CASE c = b
  <2>1. c \in block_used BY <1>1, <1>2 DEF BlocksOK, InUse
  <2>2. call.f_offset # 0 BY <1>6, <2>1 DEF Turn
  <2>3. call.curr = 0 /\ b = inodes[kk].direct_blocks[call.i] BY <1>4, <2>2, TurnBlock DEF Turn
  <2>4. k = kk /\ q = call.i
    <3>. HIDE DEF q, kk
    <3>1. inodes[kk].direct_blocks[call.i] = inodes[k].direct_blocks[q] /\ inodes[k].direct_blocks[q] # -1
      BY <1>2, <1>6, <2>3
    <3>2. \A m \in Inodes : \A l \in Direct :
            inodes[m].direct_blocks[l] = inodes[k].direct_blocks[q] => m = k /\ l = q
      BY <1>1, <1>2, <3>1 DEF BlocksOK
    <3>. QED BY <1>1, <1>4, <3>1, <3>2
  <2>5. p < WriteSize /\ p = q * BLOCKSIZE + r
    <3>1. p \in 0..WriteSize - 1 BY <1>4, <2>4 DEF WriteSize
    <3>2. p < WriteSize BY SMTT(30), Z3T(60), <1>1, <1>2, <3>1, SizesType
    <3>. QED BY <1>2, <3>2, BytePlace
  <2>. HIDE DEF q, r, c, kk
  <2>6. r < call.f_offset
    <3>1. call.i * BLOCKSIZE + call.f_offset = WriteSize + 0 BY <1>1, <2>3 DEF WritePosition, WriteAt
    <3>2. p = call.i * BLOCKSIZE + r BY <2>4, <2>5
    <3>. QED BY SMTT(30), Z3T(60), <1>1, <1>2, <2>5, <3>1, <3>2, SizesType DEF Bytes
  <2>7. \A n : r \notin call.f_offset..n BY SMTT(30), Z3T(60), <1>1, <1>2, <2>6, SizesType DEF Bytes
  <2>8. NewBytes(b)[r] = data[b][r] BY <1>2, <2>2, <2>7 DEF NewBytes, Base
  <2>9. data'[b] = NewBytes(b) BY <1>2, <1>3, <1>6
  <2>. QED BY <1>6, <2>8, <2>9 DEF ByteAt, c, q, r
<1>. QED BY <1>5, <1>6

\* A turn puts the next bytes of the buffer behind those that the write has put already.
LEMMA TurnWrites ==
  ASSUME IInv, WrittenOK, NEW b, Turn(b), WriteBlock(b),
         NEW n \in Nat, n = IF Last THEN Missing ELSE Room,
         NEW p \in Nat, WriteSize <= p, p < WriteAt + n
  PROVE  data'[WithBlock(b)[p \div BLOCKSIZE]][p % BLOCKSIZE] = call.buf[p - WriteSize]
<1>. DEFINE q == p \div BLOCKSIZE
            r == p % BLOCKSIZE
<1>1. /\ FilesOK /\ DiskType /\ CallType /\ WriteArgs /\ WritePosition /\ WriteBlocks
      /\ WriteSize \in 0..MaxBytes /\ WriteAt \in Nat /\ call.i * BLOCKSIZE \in Nat /\ call.f_offset \in Nat
      /\ call.i \in Direct /\ call.i \in Nat /\ call.curr \in Nat /\ pc = "write"
  BY TurnFacts DEF FilesOK, Turn
<1>2. data' = [data EXCEPT ![b] = NewBytes(b)] /\ data \in [Blocks -> [Bytes -> Byte]] /\ b \in Blocks
  BY <1>1, TurnDisk DEF DiskType, DataType, Turn
<1>3. p = q * BLOCKSIZE + r /\ q \in Nat /\ r \in Bytes /\ q * BLOCKSIZE <= p BY BytePlace
<1>4. /\ WithBlock(b)[call.i] = b /\ b # -1
      /\ \A j \in Direct \ {call.i} : WithBlock(b)[j] = call.tmp.direct_blocks[j]
  BY <1>1, <1>2, WithBlockAt
<1>5. call.i * BLOCKSIZE + call.f_offset = WriteAt /\ WriteAt = WriteSize + call.curr
  BY <1>1 DEF WritePosition, WriteAt
<1>6. q * BLOCKSIZE \in Nat /\ BLOCKSIZE \in Nat \ {0} BY SMTT(30), Z3T(60), <1>3, SizesType, TimesNat
<1>. HIDE DEF q, r
<1>7. CASE p < WriteAt
  <2>1. call.curr > 0 BY SMTT(30), Z3T(60), <1>1, <1>5, <1>7, SizesType
  <2>2. call.f_offset = 0 BY <1>1, <2>1 DEF WritePosition
  <2>3. q * BLOCKSIZE < call.i * BLOCKSIZE BY SMTT(30), Z3T(60), <1>1, <1>3, <1>5, <1>6, <1>7, <2>2
  <2>4. call.i <= q => call.i * BLOCKSIZE <= q * BLOCKSIZE BY SMTT(30), Z3T(60), <1>1, <1>3, <1>6, TimesLe
  <2>5. q < call.i BY SMTT(30), Z3T(60), <1>1, <1>3, <1>6, <2>3, <2>4
  <2>6. q \in Direct \ {call.i} BY SMTT(30), Z3T(60), <1>1, <1>3, <2>5, SizesType DEF Direct
  <2>. DEFINE c == call.tmp.direct_blocks[q]
  <2>7. WithBlock(b)[q] = c BY <1>4, <2>6
  <2>8. q * BLOCKSIZE < WriteAt BY SMTT(30), Z3T(60), <1>1, <1>3, <1>6, <1>7
  <2>9. c # -1 BY <1>1, <2>6, <2>8 DEF WriteBlocks, Covered
  <2>10. c \in block_used BY <1>1, <2>6, <2>9, CopyInUse
  <2>11. c # b BY <2>2, <2>10 DEF Turn
  <2>12. c \in Blocks BY <1>1, <2>10 DEF DiskType
  <2>13. data'[c] = data[c] BY <1>2, <2>11, <2>12
  <2>14. p \in WriteSize..WriteAt - 1 BY SMTT(30), Z3T(60), <1>1, <1>7, SizesType
  <2>15. data[c][r] = call.buf[p - WriteSize] BY <2>14 DEF WrittenOK, ByteAt, q, r
  <2>16. data'[WithBlock(b)[q]][r] = call.buf[p - WriteSize] BY <2>7, <2>13, <2>15
  <2>. QED BY <2>16 DEF q, r
<1>8. CASE WriteAt <= p
  <2>1. n <= Room /\ call.f_offset + Room = BLOCKSIZE /\ Room \in Nat BY TurnLength DEF Turn
  <2>. DEFINE s == p - call.i * BLOCKSIZE
  <2>2. s \in 0..BLOCKSIZE - 1 /\ p = call.i * BLOCKSIZE + s
    BY SMTT(30), Z3T(60), <1>1, <1>5, <1>6, <1>8, <2>1
  <2>3. s \in call.f_offset..call.f_offset + n - 1 /\ call.curr + s - call.f_offset = p - WriteSize
    <3>1. p < call.i * BLOCKSIZE + call.f_offset + n /\ call.i * BLOCKSIZE + call.f_offset <= p BY <1>5, <1>8
    <3>2. call.i * BLOCKSIZE + call.f_offset = WriteSize + call.curr BY <1>5
    <3>. QED BY SMTT(30), Z3T(60), <1>1, <3>1, <3>2, SizesType
  <2>. HIDE DEF s
  <2>4. q = call.i /\ r = s
    <3>1. (call.i * BLOCKSIZE + s) \div BLOCKSIZE = call.i /\ (call.i * BLOCKSIZE + s) % BLOCKSIZE = s
      BY <1>1, <1>6, <2>2, DivUnique
    <3>. QED BY <2>2, <3>1 DEF q, r
  <2>5. data'[b] = NewBytes(b) BY <1>2
  <2>6. NewBytes(b)[s] = call.buf[call.curr + s - call.f_offset] BY <2>2, <2>3 DEF NewBytes, Bytes
  <2>7. data'[WithBlock(b)[q]][r] = call.buf[p - WriteSize] BY <1>4, <2>3, <2>4, <2>5, <2>6
  <2>. QED BY <2>7 DEF q, r
<1>. QED BY SMTT(30), Z3T(60), <1>1, <1>7, <1>8

\* A turn in the middle of a block saves the bytes that the file has in it: strcpy copies
\* all of them, as none of them is '\0'.
LEMMA TurnSaves ==
  ASSUME IInv, Meaning, NEW b, Turn(b), NEW p \in 0..WriteSize - 1, p \div BLOCKSIZE = call.i
  PROVE  call.f_offset # 0 /\ Strcpy(data[b])[p % BLOCKSIZE] = ByteAt(FileOf(call.fh).direct_blocks, p)
<1>. DEFINE r == p % BLOCKSIZE
            kk == handles[call.fh].inode_number
<1>1. /\ FilesOK /\ CallType /\ WriteArgs /\ WritePosition
      /\ WriteSize \in 0..MaxBytes /\ WriteAt \in Nat /\ call.i * BLOCKSIZE \in Nat /\ call.f_offset \in Nat
      /\ call.i \in Direct /\ call.i \in Nat /\ WriteSize <= WriteAt /\ pc = "write"
  BY TurnFacts DEF Turn
<1>2. kk \in Inodes /\ FileOf(call.fh) = inodes[kk]
  <2>1. call.fh \in Handles BY <1>1, CallFields
  <2>. QED BY <1>1, <2>1, FileOfOK DEF WriteArgs, FileOf
<1>3. p \in Nat /\ p < WriteSize BY SMTT(30), Z3T(60), <1>1, SizesType
<1>4. r \in Bytes /\ p = call.i * BLOCKSIZE + r BY <1>3, BytePlace
<1>. HIDE DEF r, kk
<1>5. r \in Nat /\ r < BLOCKSIZE /\ BLOCKSIZE \in Nat \ {0} BY SMTT(30), Z3T(60), <1>4, SizesType DEF Bytes
<1>6. call.f_offset # 0 BY SMTT(30), Z3T(60), <1>1, <1>3, <1>4, <1>5, SizesType DEF WritePosition
<1>7. b = inodes[kk].direct_blocks[call.i] BY <1>2, <1>6, TurnBlock DEF Turn
<1>8. ASSUME NEW l \in 0..r PROVE data[b][l] \notin {NUL, JUNK}
  <2>. DEFINE m == call.i * BLOCKSIZE + l
  <2>1. m \in 0..WriteSize - 1 /\ l \in 0..BLOCKSIZE - 1 BY SMTT(30), Z3T(60), <1>1, <1>3, <1>4, <1>5, SizesType
  <2>2. m \div BLOCKSIZE = call.i /\ m % BLOCKSIZE = l BY <1>1, <1>5, <2>1, DivUnique
  <2>. HIDE DEF m
  <2>3. ByteAt(inodes[kk].direct_blocks, m) \in Nat \ {0}
    BY <1>2, <2>1 DEF Meaning, TextOK, WriteSize
  <2>4. data[b][l] \in Nat \ {0} BY <1>7, <2>2, <2>3 DEF ByteAt
  <2>. QED BY SMTT(30), Z3T(60), <2>4 DEF NUL, JUNK
<1>9. \A l \in 0..r - 1 : l \in 0..r BY SMTT(30), Z3T(60), <1>5
<1>10. Strcpy(data[b])[r] = data[b][r] BY <1>4, <1>8, <1>9 DEF Strcpy
<1>. QED BY <1>2, <1>6, <1>7, <1>10 DEF ByteAt, r

\* The locals after a turn that leaves bytes for the next one.
LEMMA GoOnCall ==
  ASSUME CallType, call.i \in Direct, NEW b \in Blocks, WriteBlock(b), ~Last
  PROVE  /\ UNCHANGED <<inodes, handles, ret, pc>>
         /\ call'.fh = call.fh /\ call'.buf = call.buf /\ call'.curr = call.curr + Room
         /\ call'.isUsed = call.isUsed \cup {call.i}
         /\ call'.rollback = IF call.f_offset # 0 THEN Strcpy(data[b]) ELSE call.rollback
         /\ call'.tmp.name = call.tmp.name /\ call'.tmp.direct_blocks = WithBlock(b)
<1>. DEFINE copy == [call.tmp EXCEPT !.direct_blocks[call.i] = b]
            saved == IF call.f_offset # 0 THEN Strcpy(data[b]) ELSE call.rollback
            back == IF call.f_offset # 0 THEN call.i ELSE call.rollback_index
<1>1. call' = [call EXCEPT !.i = call.i + 1, !.f_offset = 0, !.curr = call.curr + Room, !.tmp = copy,
                 !.tmp_buf = Zeros, !.isUsed = call.isUsed \cup {call.i}, !.rollback = saved,
                 !.rollback_index = back]
  BY DEF WriteBlock
<1>2. copy.name = call.tmp.name /\ copy.direct_blocks = WithBlock(b)
  <2>1. call.tmp \in Inode BY CallFields
  <2>2. copy = [call.tmp EXCEPT !.direct_blocks = WithBlock(b)] BY DEF WithBlock
  <2>. HIDE DEF copy
  <2>. QED BY <2>1, <2>2 DEF Inode
<1>. HIDE DEF copy, saved, back
<1>3. /\ call'.fh = call.fh /\ call'.buf = call.buf /\ call'.curr = call.curr + Room
      /\ call'.isUsed = call.isUsed \cup {call.i} /\ call'.rollback = saved /\ call'.tmp = copy
  BY <1>1 DEF CallType
<1>4. UNCHANGED <<inodes, handles, ret, pc>> BY DEF WriteBlock
<1>. QED BY <1>2, <1>3, <1>4 DEF saved

\* A turn that leaves bytes for the next one does not show.
LEMMA GoOnSim ==
  ASSUME Library, SInv, NEW b, Turn(b), WriteBlock(b), ~Last, IInv'
  PROVE  Simulates
<1>1. /\ FilesOK /\ CallType /\ WriteArgs /\ WritePosition /\ WriteBlocks /\ IInv
      /\ WriteSize \in 0..MaxBytes /\ WriteAt \in Nat /\ call.i \in Direct /\ call.curr \in Nat
      /\ pc = "write" /\ b \in Blocks /\ Meaning /\ WrittenOK /\ RollbackOK /\ NameOK
  BY TurnFacts DEF Turn, SInv, Writing
<1>2. /\ inodes' = inodes /\ handles' = handles /\ ret' = ret /\ pc' = pc
      /\ call'.fh = call.fh /\ call'.buf = call.buf /\ call'.curr = call.curr + Room
      /\ call'.isUsed = call.isUsed \cup {call.i}
      /\ call'.rollback = IF call.f_offset # 0 THEN Strcpy(data[b]) ELSE call.rollback
      /\ call'.tmp.name = call.tmp.name /\ call'.tmp.direct_blocks = WithBlock(b)
  BY <1>1, GoOnCall
<1>3. inode_used' = inode_used /\ stale' = stale BY <1>1, TurnDisk
<1>4. ASSUME NEW k \in Inodes PROVE KeepsFile(k)
  <2>1. \A p \in 0..inodes[k].file_size - 1 :
          data'[inodes[k].direct_blocks[p \div BLOCKSIZE]][p % BLOCKSIZE] = ByteAt(inodes[k].direct_blocks, p)
    BY <1>1, TurnKeeps
  <2>. QED BY <1>2, <2>1 DEF KeepsFile, ByteAt
<1>5. NamesOK' /\ TextOK' /\ Files' = Files
  <2>1. DiskType' BY DEF IInv, Types, TypeOK, DiskType
  <2>. QED BY <1>1, <1>2, <1>3, <1>4, <2>1, KeptFiles
<1>6. StaleOK' BY <1>1, <1>2, <1>3 DEF Meaning, StaleOK
<1>7. OpenHandles' = OpenHandles BY <1>1, <1>2, <1>3, KeptHandles
<1>8. FileOf(call.fh)' = FileOf(call.fh) /\ WriteSize' = WriteSize BY <1>2 DEF FileOf, WriteSize
<1>9. NameOK' BY <1>1, <1>2, <1>8 DEF NameOK
<1>10. Room \in Nat /\ WriteAt' = WriteAt + Room
  <2>1. Room \in Nat BY <1>1, TurnLength DEF Turn
  <2>2. WriteAt' = WriteSize + (call.curr + Room) /\ WriteAt = WriteSize + call.curr BY <1>2, <1>8 DEF WriteAt
  <2>3. WriteSize + (call.curr + Room) = (WriteSize + call.curr) + Room BY SMTT(30), Z3T(60), <1>1, <2>1, SizesType
  <2>. QED BY <2>1, <2>2, <2>3
<1>11. WrittenOK'
  <2>. SUFFICES ASSUME NEW p \in WriteSize..(WriteAt + Room) - 1
                PROVE  data'[WithBlock(b)[p \div BLOCKSIZE]][p % BLOCKSIZE] = call.buf[p - WriteSize]
    BY <1>2, <1>8, <1>10 DEF WrittenOK, ByteAt
  <2>1. p \in Nat /\ WriteSize <= p /\ p < WriteAt + Room BY SMTT(30), Z3T(60), <1>1, <1>10, SizesType
  <2>2. Room = IF Last THEN Missing ELSE Room OBVIOUS
  <2>. QED BY <1>1, <1>10, <2>1, <2>2, TurnWrites
<1>12. RollbackOK'
  <2>. SUFFICES ASSUME NEW j \in call.isUsed \cup {call.i}, NEW p \in 0..WriteSize - 1, p \div BLOCKSIZE = j
                PROVE  call'.rollback[p % BLOCKSIZE] = ByteAt(FileOf(call.fh).direct_blocks, p)'
    BY <1>2, <1>8 DEF RollbackOK
  <2>. DEFINE kk == handles[call.fh].inode_number
  <2>1. kk \in Inodes /\ FileOf(call.fh) = inodes[kk]
    <3>1. call.fh \in Handles BY <1>1, CallFields
    <3>. QED BY <1>1, <3>1, FileOfOK DEF WriteArgs, FileOf
  <2>2. ByteAt(FileOf(call.fh).direct_blocks, p)' = ByteAt(FileOf(call.fh).direct_blocks, p)
    <3>. HIDE DEF kk
    <3>1. p \in 0..inodes[kk].file_size - 1 BY <2>1 DEF WriteSize
    <3>2. data'[inodes[kk].direct_blocks[p \div BLOCKSIZE]][p % BLOCKSIZE] = ByteAt(inodes[kk].direct_blocks, p)
      BY <1>1, <2>1, <3>1, TurnKeeps
    <3>. QED BY <1>8, <2>1, <3>2 DEF ByteAt
  <2>3. CASE j = call.i
    <3>1. call.f_offset # 0 /\ Strcpy(data[b])[p % BLOCKSIZE] = ByteAt(FileOf(call.fh).direct_blocks, p)
      BY <1>1, <2>3, TurnSaves
    <3>. QED BY <1>2, <2>2, <3>1
  <2>4. CASE j # call.i
    <3>1. j \in call.isUsed /\ call.curr # 0 BY <1>1, <2>4 DEF WriteBlocks
    <3>2. call.curr > 0 BY SMTT(30), Z3T(60), <1>1, <3>1
    <3>3. call.f_offset = 0 BY <1>1, <3>2 DEF WritePosition
    <3>4. call.rollback[p % BLOCKSIZE] = ByteAt(FileOf(call.fh).direct_blocks, p) BY <1>1, <3>1 DEF RollbackOK
    <3>. QED BY <1>2, <2>2, <3>3, <3>4
  <2>. QED BY <2>3, <2>4
<1>. QED BY <1>2, <1>5, <1>6, <1>7, <1>9, <1>11, <1>12, SeenNothing DEF Simulates, Meaning, Writing

\* What the last turn does to the inode of the file and to the handle.
LEMMA FinishDoes ==
  ASSUME IInv, NEW b, Turn(b), WriteBlock(b), Last, NEW h \in Handles, h = call.fh,
         NEW k, k = handles[h].inode_number
  PROVE  /\ Returns(0) /\ inode_used' = inode_used /\ stale' = stale
         /\ \A m \in Inodes \ {k} : inodes'[m] = inodes[m]
         /\ inodes'[k].name = call.tmp.name /\ inodes'[k].direct_blocks = WithBlock(b)
         /\ inodes'[k].file_size = WriteSize + call.nbytes
         /\ \A g \in Handles : handles'[g].inode_number = handles[g].inode_number
         /\ \A g \in Handles \ {h} : handles'[g] = handles[g]
         /\ handles'[h].offset = WriteSize + call.nbytes
<1>. DEFINE copy == [call.tmp EXCEPT !.direct_blocks[call.i] = b]
            size == copy.file_size + call.nbytes
            new == [copy EXCEPT !.file_size = size]
<1>1. /\ FilesOK /\ CallType /\ WriteArgs /\ call.i \in Direct /\ b \in Blocks
      /\ WriteSize \in 0..MaxBytes /\ call.nbytes \in Nat
  BY TurnFacts DEF Turn
<1>2. inodes' = [inodes EXCEPT ![k] = new] /\ Advance(h, call.nbytes, size) /\ Returns(0) BY DEF WriteBlock
<1>3. call.tmp \in Inode /\ call.tmp.file_size = WriteSize /\ handles[h].offset = WriteSize
  BY <1>1, CallFields DEF WriteArgs
<1>4. WithBlock(b) \in [Direct -> Blocks \cup {-1}] BY <1>1, WithBlockAt
<1>5. copy \in Inode /\ copy.name = call.tmp.name /\ copy.direct_blocks = WithBlock(b) /\ copy.file_size = WriteSize
  <2>1. copy = [call.tmp EXCEPT !.direct_blocks = WithBlock(b)] BY DEF WithBlock
  <2>. HIDE DEF copy
  <2>. QED BY <1>3, <1>4, <2>1 DEF Inode
<1>. HIDE DEF copy
<1>6. size = WriteSize + call.nbytes BY <1>5
<1>7. size \in Nat BY SMTT(30), Z3T(60), <1>1, <1>6, SizesType
<1>. HIDE DEF size
<1>8. new.name = copy.name /\ new.direct_blocks = copy.direct_blocks /\ new.file_size = size BY <1>5 DEF Inode
<1>. HIDE DEF new
<1>9. k \in Inodes /\ inodes \in [Inodes -> Inode]
  BY <1>1, FileOfOK DEF WriteArgs, FilesOK, DiskType
<1>10. inodes'[k] = new /\ \A m \in Inodes \ {k} : inodes'[m] = inodes[m] BY <1>2, <1>9
<1>11. handles' = [handles EXCEPT ![h].offset = size]
  <2>1. handles[h].offset + call.nbytes = size BY <1>3, <1>6
  <2>2. ~(size > size) BY SMTT(30), Z3T(60), <1>7
  <2>. QED BY <1>2, <2>1, <2>2 DEF Advance
<1>12. /\ \A g \in Handles : handles'[g].inode_number = handles[g].inode_number
       /\ \A g \in Handles \ {h} : handles'[g] = handles[g]
       /\ handles'[h].offset = size
  <2>1. handles \in [Handles -> [offset : 0..MaxBytes, inode_number : Inodes \cup {-1}]]
    BY <1>1 DEF FilesOK, HandleType
  <2>2. handles[h] \in [offset : 0..MaxBytes, inode_number : Inodes \cup {-1}] BY <2>1
  <2>3. /\ [handles[h] EXCEPT !.offset = size].inode_number = handles[h].inode_number
        /\ [handles[h] EXCEPT !.offset = size].offset = size
    BY <2>2
  <2>4. handles' = [handles EXCEPT ![h] = [handles[h] EXCEPT !.offset = size]] BY <1>11
  <2>. QED BY <2>1, <2>3, <2>4
<1>13. inode_used' = inode_used /\ stale' = stale BY TurnDisk
<1>. QED BY <1>2, <1>5, <1>6, <1>8, <1>10, <1>12, <1>13

\* The bytes of the file after the last turn.
LEMMA Appended ==
  ASSUME SInv, NEW b, Turn(b), WriteBlock(b), Last, NEW h \in Handles, h = call.fh,
         NEW k \in Inodes, k = handles[h].inode_number, NEW p \in 0..WriteSize + call.nbytes - 1
  PROVE  /\ p < WriteSize => ByteAt(inodes[k].direct_blocks, p)' = ByteAt(inodes[k].direct_blocks, p)
         /\ p >= WriteSize => ByteAt(inodes[k].direct_blocks, p)' = call.buf[p - WriteSize]
<1>1. /\ IInv /\ FilesOK /\ CallType /\ WriteArgs /\ WrittenOK /\ pc = "write"
      /\ WriteSize \in 0..MaxBytes /\ WriteAt \in Nat /\ call.nbytes \in Nat /\ call.curr \in Nat
  BY TurnFacts DEF Turn, SInv, Writing
<1>2. inodes'[k].direct_blocks = WithBlock(b) BY <1>1, FinishDoes
<1>3. FileOf(call.fh) = inodes[k] /\ inodes[k].file_size = WriteSize BY DEF FileOf, WriteSize
<1>4. p \in Nat /\ p < WriteSize + call.nbytes BY SMTT(30), Z3T(60), <1>1, SizesType
<1>5. ASSUME p < WriteSize
      PROVE  ByteAt(inodes[k].direct_blocks, p)' = ByteAt(inodes[k].direct_blocks, p)
  <2>1. p \in 0..inodes[k].file_size - 1 BY SMTT(30), Z3T(60), <1>1, <1>3, <1>4, <1>5, SizesType
  <2>2. /\ p \div BLOCKSIZE \in Direct /\ (p \div BLOCKSIZE) * BLOCKSIZE < WriteSize
    BY <1>1, <1>3, <2>1, FileByte
  <2>3. WithBlock(b)[p \div BLOCKSIZE] = inodes[k].direct_blocks[p \div BLOCKSIZE]
    BY <1>1, <1>3, <2>2, CopyBlocks DEF Old
  <2>4. data'[inodes[k].direct_blocks[p \div BLOCKSIZE]][p % BLOCKSIZE] = ByteAt(inodes[k].direct_blocks, p)
    BY <1>1, <2>1, TurnKeeps
  <2>. QED BY <1>2, <2>3, <2>4 DEF ByteAt
<1>6. ASSUME p >= WriteSize
      PROVE  ByteAt(inodes[k].direct_blocks, p)' = call.buf[p - WriteSize]
  <2>1. Missing \in Nat /\ call.curr + Missing = call.nbytes BY <1>1, TurnLength DEF Turn
  <2>2. WriteSize <= p /\ p < WriteAt + Missing BY SMTT(30), Z3T(60), <1>1, <1>4, <1>6, <2>1, SizesType DEF WriteAt
  <2>3. Missing = IF Last THEN Missing ELSE Room OBVIOUS
  <2>4. data'[WithBlock(b)[p \div BLOCKSIZE]][p % BLOCKSIZE] = call.buf[p - WriteSize]
    BY <1>1, <1>4, <2>1, <2>2, <2>3, TurnWrites
  <2>. QED BY <1>2, <2>4 DEF ByteAt
<1>. QED BY <1>5, <1>6

\* The last turn puts the bytes of the write behind the file.
LEMMA FinishSim ==
  ASSUME Library, SInv, NEW b, Turn(b), WriteBlock(b), Last, IInv'
  PROVE  Simulates
<1>1. /\ FilesOK /\ DiskType /\ CallType /\ WriteArgs /\ IInv /\ WriteSize \in 0..MaxBytes
      /\ call.nbytes \in Nat /\ call.curr \in Nat /\ Meaning /\ NameOK /\ pc = "write"
  BY TurnFacts DEF Turn, SInv, Writing, FilesOK
<1>2. PICK h \in Handles : h = call.fh BY <1>1, CallFields
<1>3. PICK n \in Nat : n = call.nbytes BY <1>1
<1>4. PICK buf \in Buffers : buf = call.buf BY <1>1 DEF WriteArgs
<1>5. PICK k \in inode_used : k = handles[h].inode_number /\ k \in Inodes
  BY <1>1, <1>2, FileOfOK DEF WriteArgs
<1>6. PICK size \in Nat : size = WriteSize BY SMTT(30), Z3T(60), <1>1, SizesType
<1>7. /\ Usable(h) /\ FileOf(h) = inodes[k] /\ inodes[k].file_size = size /\ handles[h].offset = size
      /\ size + n <= MaxBytes /\ n > 0 /\ call.tmp.name = inodes[k].name
  <2>1. Usable(h) /\ handles[h].offset = size /\ size + n <= MaxBytes /\ call.curr < n
    BY <1>1, <1>2, <1>3, <1>6 DEF WriteArgs
  <2>2. n > 0 BY SMTT(30), Z3T(60), <1>1, <1>3, <2>1
  <2>3. FileOf(h) = inodes[k] /\ inodes[k].file_size = size BY <1>2, <1>5, <1>6 DEF FileOf, WriteSize
  <2>. QED BY <1>1, <1>2, <2>1, <2>2, <2>3 DEF NameOK
<1>8. /\ Returns(0) /\ inode_used' = inode_used /\ stale' = stale
      /\ \A m \in Inodes \ {k} : inodes'[m] = inodes[m]
      /\ inodes'[k].name = inodes[k].name /\ inodes'[k].file_size = size + n
      /\ \A g \in Handles : handles'[g].inode_number = handles[g].inode_number
      /\ \A g \in Handles \ {h} : handles'[g] = handles[g]
      /\ handles'[h].offset = size + n
  <2>1. IInv /\ h = call.fh /\ k = handles[h].inode_number BY <1>1, <1>2, <1>5
  <2>2. /\ Returns(0) /\ inode_used' = inode_used /\ stale' = stale
        /\ \A m \in Inodes \ {k} : inodes'[m] = inodes[m]
        /\ inodes'[k].name = call.tmp.name /\ inodes'[k].file_size = WriteSize + call.nbytes
        /\ \A g \in Handles : handles'[g].inode_number = handles[g].inode_number
        /\ \A g \in Handles \ {h} : handles'[g] = handles[g]
        /\ handles'[h].offset = WriteSize + call.nbytes
    BY <2>1, FinishDoes
  <2>. QED BY <2>2, <1>3, <1>6, <1>7
<1>9. ASSUME NEW m \in Inodes \ {k} PROVE KeepsFile(m)
  <2>1. \A p \in 0..inodes[m].file_size - 1 :
          data'[inodes[m].direct_blocks[p \div BLOCKSIZE]][p % BLOCKSIZE] = ByteAt(inodes[m].direct_blocks, p)
    BY <1>1, TurnKeeps
  <2>2. inodes'[m] = inodes[m] BY <1>8
  <2>. QED BY <2>1, <2>2 DEF KeepsFile, ByteAt
<1>10. \A p \in 0..size + n - 1 :
         /\ p < size => ByteAt(inodes[k].direct_blocks, p)' = ByteAt(inodes[k].direct_blocks, p)
         /\ p >= size => ByteAt(inodes[k].direct_blocks, p)' = buf[p - size]
  BY <1>2, <1>3, <1>4, <1>5, <1>6, Appended
<1>11. \A i \in 0..n - 1 : buf[i] \in Nat \ {0}
  <2>1. \A i \in 0..n - 1 : i \in 0..MaxBytes - 1 BY SMTT(30), Z3T(60), <1>7, SizesType
  <2>2. buf \in [0..MaxBytes - 1 -> Nat \ {0}] BY SsufsAssumption
  <2>. QED BY <2>1, <2>2
<1>12. \A p \in 0..size + n - 1 : ByteAt(inodes[k].direct_blocks, p)' \in Nat \ {0}
  <2>. SUFFICES ASSUME NEW p \in 0..size + n - 1 PROVE ByteAt(inodes[k].direct_blocks, p)' \in Nat \ {0}
    OBVIOUS
  <2>1. CASE p < size
    <3>1. p \in 0..inodes[k].file_size - 1 BY SMTT(30), Z3T(60), <1>7, <2>1
    <3>. QED BY <1>1, <1>5, <1>10, <2>1, <3>1 DEF Meaning, TextOK
  <2>2. CASE p >= size
    <3>1. p - size \in 0..n - 1 BY SMTT(30), Z3T(60), <2>2
    <3>. QED BY <1>10, <1>11, <2>2, <3>1
  <2>. QED BY SMTT(30), Z3T(60), <2>1, <2>2
<1>13. \A m \in inode_used : inodes'[m].name = inodes[m].name BY <1>1, <1>8 DEF DiskType
<1>14. Meaning'
  <2>1. NamesOK
    BY <1>1 DEF Meaning
  <2>2. NamesOK' BY SMTT(30), Z3T(60), <1>8, <1>13, <2>1 DEF NamesOK
  <2>3. TextOK'
    <3>. SUFFICES ASSUME NEW m \in Inodes, NEW p \in 0..inodes'[m].file_size - 1
                  PROVE  ByteAt(inodes[m].direct_blocks, p)' \in Nat \ {0}
      BY DEF TextOK
    <3>1. CASE m = k
      <4>1. p \in 0..size + n - 1 BY SMTT(30), Z3T(60), <1>8, <3>1
      <4>2. ByteAt(inodes[k].direct_blocks, p)' \in Nat \ {0} BY <1>12, <4>1
      <4>. QED BY <3>1, <4>2
    <3>2. CASE m # k
      <4>1. KeepsFile(m) BY <1>9, <3>2
      <4>. QED BY <1>1, <4>1 DEF KeepsFile, Meaning, TextOK
    <3>. QED BY <3>1, <3>2
  <2>4. StaleOK' BY <1>1, <1>8 DEF Meaning, StaleOK, FilesOK, HandleType
  <2>. QED BY <2>2, <2>3, <2>4 DEF Meaning
<1>. DEFINE tail == [i \in 1..n |-> buf[i - 1]]
            name == inodes[k].name
<1>15. Contents(k)' = Contents(k) \o tail
  <2>. DEFINE C == Contents(k)
              D == Contents(k)'
  <2>1. /\ C \in [1..size -> Nat \ {0}] /\ \A p \in 1..size : C[p] = ByteAt(inodes[k].direct_blocks, p - 1)
    BY <1>1, <1>5, <1>7, ContentsIs DEF Meaning
  <2>2. D = [p \in 1..size + n |-> ByteAt(inodes[k].direct_blocks, p - 1)'] BY <1>8 DEF Contents, ByteAt
  <2>3. \A p \in 1..size + n : p - 1 \in 0..size + n - 1 BY SMTT(30), Z3T(60)
  <2>4. D \in [1..size + n -> Nat \ {0}] BY <1>12, <2>2, <2>3
  <2>5. tail \in [1..n -> Nat \ {0}]
    <3>1. \A i \in 1..n : i - 1 \in 0..n - 1 BY SMTT(30), Z3T(60)
    <3>. QED BY <1>11, <3>1
  <2>6. ASSUME NEW p \in 1..size PROVE D[p] = C[p]
    <3>1. p \in 1..size + n /\ p - 1 \in 0..size + n - 1 /\ p - 1 < size BY SMTT(30), Z3T(60)
    <3>. QED BY <1>10, <2>1, <2>2, <3>1
  <2>7. ASSUME NEW i \in 1..n PROVE D[size + i] = tail[i]
    <3>1. /\ size + i \in 1..size + n /\ (size + i) - 1 \in 0..size + n - 1 /\ (size + i) - 1 >= size
          /\ ((size + i) - 1) - size = i - 1
      BY SMTT(30), Z3T(60)
    <3>. QED BY <1>10, <2>2, <3>1
  <2>. DEFINE S == Nat \ {0}
  <2>8. C \in [1..size -> S] /\ tail \in [1..n -> S] /\ D \in [1..size + n -> S] BY <2>1, <2>4, <2>5
  <2>. HIDE DEF C, D, S, tail
  <2>9. (\A p \in 1..size : D[p] = C[p]) /\ (\A i \in 1..n : D[size + i] = tail[i]) BY <2>6, <2>7
  <2>10. \A f \in [1..size -> S], g \in [1..n -> S] : \A r \in [1..size + n -> S] :
           (\A p \in 1..size : r[p] = f[p]) /\ (\A i \in 1..n : r[size + i] = g[i]) => r = f \o g
    BY ConcatIs
  <2>11. D = C \o tail BY <2>8, <2>9, <2>10
  <2>. QED BY <2>11 DEF C, D
<1>. HIDE DEF tail
<1>16. View BY <1>1, FilesView DEF Meaning
<1>17. View'
  <2>1. DiskType' BY DEF IInv, Types, TypeOK, DiskType
  <2>. QED BY <1>14, <2>1, FilesViewNext DEF Meaning
<1>18. FileNames' = FileNames BY <1>8, <1>13 DEF FileNames
<1>19. name \in FileNames /\ Files'[name] = Files[name] \o tail
  BY <1>8, <1>15, <1>16, <1>17 DEF View, FileNames
<1>20. ASSUME NEW g \in FileNames, g # name PROVE Files'[g] = Files[g]
  <2>1. PICK m \in inode_used : g = inodes[m].name BY DEF FileNames
  <2>2. m \in Inodes \ {k} BY <1>1, <1>20, <2>1 DEF DiskType
  <2>3. Files'[g] = Contents(m)' BY <1>8, <1>13, <1>17, <2>1 DEF View
  <2>4. Files[g] = Contents(m) BY <1>16, <2>1 DEF View
  <2>5. Contents(m)' = Contents(m) BY <1>1, <1>9, <2>2, KeptContents
  <2>. QED BY <2>3, <2>4, <2>5
<1>. HIDE DEF name
<1>21. Files' = [Files EXCEPT ![name] = Files[name] \o tail]
  <2>. DEFINE F == Files
              G == Files'
  <2>1. F = [g \in FileNames |-> F[g]] BY <1>16 DEF View
  <2>2. G = [g \in FileNames |-> G[g]] BY <1>17, <1>18 DEF View
  <2>3. G[name] = F[name] \o tail /\ \A g \in FileNames : g # name => G[g] = F[g] BY <1>19, <1>20
  <2>. HIDE DEF F, G
  <2>4. G = [F EXCEPT ![name] = F[name] \o tail] BY <1>19, <2>1, <2>2, <2>3
  <2>. QED BY <2>4 DEF F, G
<1>22. /\ OpenHandles[h] = <<name, size>> /\ OpenHandles[h] # <<>> /\ OpenHandles[h][1] = name
       /\ OpenHandles[h][2] = size /\ Len(Files[OpenHandles[h][1]]) = size
  BY <1>1, <1>7, HandleSeen DEF name
<1>23. OpenHandles' = [OpenHandles EXCEPT ![h][2] = @ + n]
  <2>1. ASSUME NEW g \in Handles \ {h} PROVE Shown(g)' = Shown(g)
    <3>1. handles'[g] = handles[g] /\ (Usable(g)' <=> Usable(g)) BY <1>8 DEF Usable
    <3>2. Usable(g) => FileOf(g)'.name = FileOf(g).name
      <4>1. Usable(g) => handles[g].inode_number \in inode_used BY <1>1, FileOfOK
      <4>. QED BY <1>13, <3>1, <4>1 DEF FileOf
    <3>. QED BY SMTT(30), Z3T(60), <3>1, <3>2 DEF Shown
  <2>2. Shown(h)' = <<name, size + n>>
    <3>1. Usable(h)' BY <1>7, <1>8 DEF Usable
    <3>2. FileOf(h)'.name = name BY <1>5, <1>8 DEF FileOf, name
    <3>. QED BY SMTT(30), Z3T(60), <1>8, <3>1, <3>2 DEF Shown
  <2>3. OpenHandles' = [OpenHandles EXCEPT ![h] = <<name, size + n>>] BY <2>1, <2>2, OneShown
  <2>4. [OpenHandles[h] EXCEPT ![2] = OpenHandles[h][2] + n] = <<name, size + n>> BY SMTT(30), Z3T(60), <1>22
  <2>. QED BY <2>3, <2>4
<1>24. Writing' /\ ret' = 0 BY <1>8, Done
<1>25. Store!Write(h, n, buf)
  BY <1>7, <1>21, <1>22, <1>23, <1>24 DEF Store!Write, Store!Size, Store!Closed, tail
<1>26. n \in 1..MaxBytes BY SMTT(30), Z3T(60), <1>7, SizesType
<1>27. Seen BY <1>25, <1>26 DEF Seen, Store!Next
<1>. QED BY <1>14, <1>24, <1>27 DEF Simulates

\* A turn of the loop of ssufs_write: a stuttering step until the last one.
LEMMA TurnSim ==
  ASSUME Library, SInv, write_turn, IInv'
  PROVE  Simulates
<1>1. /\ pc = "write"
      /\ (~InBlock /\ SkipBlock) \/ Rollback \/ \E b \in Blocks : Turn(b) /\ WriteBlock(b)
  BY TurnCases DEF SInv
<1>2. CASE ~InBlock /\ SkipBlock BY <1>1, <1>2, SkipSim
<1>3. CASE Rollback BY <1>1, <1>3, RollbackSim
<1>4. CASE \E b \in Blocks : Turn(b) /\ WriteBlock(b)
  <2>1. PICK b \in Blocks : Turn(b) /\ WriteBlock(b) BY <1>4
  <2>. QED BY <2>1, GoOnSim, FinishSim
<1>. QED BY <1>1, <1>2, <1>3, <1>4

\* Every step keeps the invariant and is a step of the store, if the client appends only.
LEMMA NextSim ==
  ASSUME Library, ~Overwrites, SInv, [Next]_vars
  PROVE  SInv' /\ Seen
<1>1. IInv /\ Meaning /\ Writing BY DEF SInv
<1>2. IInv' BY <1>1, NextIInv
<1>. SUFFICES Simulates BY <1>2 DEF SInv, Simulates
<1>3. CASE ssufs_formatDisk BY <1>3, FormatSim
<1>4. ASSUME NEW f \in Names, ssufs_create(f) PROVE Simulates BY <1>1, <1>2, <1>4, CreateSim
<1>5. ASSUME NEW f \in Names, ssufs_delete(f) PROVE Simulates BY <1>1, <1>2, <1>5, DeleteSim
<1>6. ASSUME NEW f \in Names, ssufs_open(f) PROVE Simulates BY <1>1, <1>6, OpenSim
<1>7. ASSUME NEW h \in Handles, ssufs_close(h) PROVE Simulates BY <1>1, <1>7, CloseSim
<1>8. ASSUME NEW h \in Handles, NEW n \in Seeks, ssufs_lseek(h, n) PROVE Simulates BY <1>1, <1>8, SeekSim
<1>9. ASSUME NEW h \in Handles, NEW n \in Sizes, ssufs_read(h, n) PROVE Simulates
  BY <1>1, <1>2, <1>9, ReadSim
<1>10. ASSUME NEW h \in Handles, NEW n \in Sizes, NEW b \in Buffers, ssufs_write(h, n, b) PROVE Simulates
  BY <1>1, <1>2, <1>10, StartSim
<1>11. CASE write_turn BY <1>2, <1>11, TurnSim
<1>12. CASE UNCHANGED vars
  <2>1. UNCHANGED <<disk, handles, stale>> /\ ret' = ret /\ pc' = pc /\ call' = call BY <1>12 DEF vars
  <2>2. Meaning' /\ Files' = Files /\ OpenHandles' = OpenHandles BY <1>1, <2>1, Quiet
  <2>3. inodes' = inodes /\ data' = data /\ handles' = handles BY <2>1 DEF disk
  <2>4. WriteSize' = WriteSize /\ WriteAt' = WriteAt BY <2>1, <2>3 DEF WriteSize, WriteAt, FileOf
  <2>5. Writing' BY <1>1, <2>1, <2>3, <2>4 DEF Writing, WrittenOK, RollbackOK, NameOK, ByteAt, FileOf
  <2>. QED BY <2>1, <2>2, <2>5, SeenNothing DEF Simulates
<1>. QED BY <1>3, <1>4, <1>5, <1>6, <1>7, <1>8, <1>9, <1>10, <1>11, <1>12 DEF Next

\* The empty disk is the empty store.
LEMMA InitSim == Init => SInv /\ Store!Init
<1>. SUFFICES ASSUME Init PROVE SInv /\ Store!Init
  OBVIOUS
<1>1. Empty /\ pc = "idle" /\ ret = 0 BY DEF Init, Empty
<1>2. Meaning /\ Files = <<>> /\ OpenHandles = [h \in Handles |-> <<>>] BY <1>1, EmptyStore
<1>. QED BY <1>1, <1>2, InitIInv DEF SInv, Writing, Store!Init, Store!Closed

(***************************************************************************)
(* The theorems                                                            *)
(***************************************************************************)
INSTANCE FiniteSetTheorems

\* The two facts of the library.
LEMMA LibraryHolds == Library
<1>1. ASSUME NEW S \in SUBSET Nat, S # {} PROVE \E k \in S : \A j \in S : k <= j
  <2>1. IsWellFoundedOn(OpToRel(<, Nat), Nat) BY NatLessThanWellFounded
  <2>2. PICK k \in S : \A j \in S : ~(<<j, k>> \in OpToRel(<, Nat)) BY <1>1, <2>1, WFMin
  <2>3. \A j \in S : ~(j < k)
    <3>. SUFFICES ASSUME NEW j \in S, j < k PROVE FALSE
      OBVIOUS
    <3>1. <<j, k>> \in OpToRel(<, Nat) BY SMT DEF OpToRel
    <3>. QED BY <2>2, <3>1
  <2>. QED BY SMTT(30), Z3T(60), <2>3
<1>. QED BY <1>1, FS_Interval DEF Library

\* A data block belongs to one file, once, and is in use while it does; a deleted file
\* has none (rollback of ssufs_write and ssufs_freeInode, ssufs-ops.c:159-177,
\* ssufs-disk.c:125-134).
THEOREM BlocksStayOwned ==
  ASSUME ~Overwrites
  PROVE  Spec => []BlocksOwned
BY LibraryHolds, Invariant, IInvBlocks, PTL

\* A file has exactly the blocks that its size needs, and no handle points behind its
\* end (ssufs_write, ssufs_read and ssufs_lseek, ssufs-ops.c:96, 147, 192).
THEOREM SizesStayCovered ==
  ASSUME ~Overwrites
  PROVE  Spec => []SizeCovered
BY LibraryHolds, Invariant, IInvSizes, PTL

\* No assert of ssufs-disk.c fails, every value stays in its range, and the loop of a
\* write ends in one of its returns (ssufs-ops.c:176, 197), never behind it (214).
THEOREM NothingGoesWrong ==
  ASSUME ~Overwrites
  PROVE  Spec => []NothingWrong
BY LibraryHolds, Invariant, IInvSizes, PTL

\* ssufs_read copies the bytes of the file at the offset, over as many blocks as it takes,
\* and never gets behind its loop (ssufs-ops.c:99-126).
THEOREM ReadsAreRight ==
  ASSUME ~Overwrites
  PROVE  Spec => []ReadsContents
BY LibraryHolds, Invariant, IInvReads, PTL

\* A write that finds no free block leaves every file with blocks that are in use, as
\* ssufs_Dtest.c:9 says; the client of ssufs_Dtest.c appends.
THEOREM FailedAppendKeepsBlocks ==
  ASSUME ~Overwrites
  PROVE  Spec => FailedWriteKeepsBlocks
<1>1. IInv' => (pc = "write" /\ pc' = "idle" /\ ret' = -1 =>
         \A k \in Inodes : \A j \in Direct : inodes'[k].direct_blocks[j] \in block_used' \cup {-1})
  BY DEF IInv, BlocksOK, InUse
<1>. QED BY <1>1, LibraryHolds, Invariant, PTL DEF FailedWriteKeepsBlocks

\* To a client that appends, the file system is a set of byte sequences: blocks, offsets and
\* the rollback of a write that finds no free block do not show (ssufs-ops.c).
THEOREM FilesAreSequences ==
  ASSUME ~Overwrites
  PROVE  Spec => ImplementsFiles
<1>1. SInv /\ [Next]_vars => SInv' /\ [Store!Next]_(Store!vars) BY LibraryHolds, NextSim DEF Seen
<1>. QED BY InitSim, <1>1, PTL DEF Spec, ImplementsFiles, Store!Spec
=============================================================================
