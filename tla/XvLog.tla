-------------------------------- MODULE XvLog --------------------------------
(***************************************************************************)
(* The redo log of xv6 (log.c) over its buffer cache (bio.c), with a crash *)
(* at any moment and the recovery at boot.  Blocks are the blocks of the   *)
(* file system; the header and the data blocks of the log are head and     *)
(* logd.  What happens between acquire and release of log.lock or          *)
(* bcache.lock, or under a buffer's sleep lock, is one action; a transfer  *)
(* of one block to or from the disk is atomic, as the log itself assumes.  *)
(*                                                                         *)
(* A buffer's reference count is the number of processes p with blk[p] on  *)
(* it.  A buffer whose count is 0 and that is not dirty may be recycled    *)
(* for any other block of the disk.                                        *)
(***************************************************************************)
EXTENDS Integers, Sequences, FiniteSets

CONSTANTS Procs, initproc,
          Blocks, Values, NoData,   \* blocks of the file system and their contents
          LOGSIZE, MAXOPBLOCKS,     \* param.h
          OpBlocks,                 \* most blocks an operation adds to the log
          MaxCrashes                \* bound of the model: crashes in one execution

\* The largest operation, filewrite, adds 7 blocks to the log: 4 of data, the
\* i-node, the indirect block and the bitmap; MAXOPBLOCKS is 10.
ASSUME LogAssumption ==
  /\ IsFiniteSet(Procs) /\ initproc \in Procs
  /\ NoData \notin Values /\ NoData \notin Blocks
  /\ LOGSIZE \in Nat /\ MAXOPBLOCKS \in Nat /\ OpBlocks \in Nat \ {0}
  /\ OpBlocks + 2 <= MAXOPBLOCKS /\ MAXOPBLOCKS <= LOGSIZE

VARIABLES home, logd, head,   \* on disk: the blocks, the log's data blocks, its header
          data,               \* data[b]: what b's buffer holds, NoData unless B_VALID
          dirty,              \* the blocks whose buffer is B_DIRTY
          lh, outstanding, committing,   \* fields of struct log
          tail,               \* loop variable of write_log and install_trans
          pc, blk,            \* control state of a process, and the block of its buffer
          tx, left,           \* processes inside begin_op and end_op, blocks they may add
          crashes             \* crashes so far

ondisk == <<home, logd, head>>
cache == <<data, dirty>>
log == <<lh, outstanding, committing, tail>>
procs == <<pc, blk, tx, left>>
vars == <<ondisk, cache, log, procs, crashes>>

NoBlock == NoData
\* sb.nlog, which mkfs sets to LOGSIZE; one of these blocks is the header.
size == LOGSIZE
Slots == 1..size - 1

Logged(b) == \E i \in 1..Len(lh) : lh[i] = b
Recovering == pc[initproc] \in {"read_head", "recover"}
Committers == {"write_log", "install", "recover"}

\* After a crash, and at the first boot, nothing is cached and initlog runs.
Boot ==
  /\ data' = [b \in Blocks |-> NoData] /\ dirty' = {}
  /\ lh' = <<>> /\ outstanding' = 0 /\ committing' = FALSE /\ tail' = 0
  /\ pc' = [p \in Procs |-> IF p = initproc THEN "read_head" ELSE "idle"]
  /\ blk' = [p \in Procs |-> NoBlock]
  /\ tx' = {} /\ left' = [p \in Procs |-> 0]
Init ==
  /\ home \in [Blocks -> Values] /\ head = <<>>
  /\ \E v \in Values : logd = [i \in Slots |-> v]
  /\ data = [b \in Blocks |-> NoData] /\ dirty = {}
  /\ lh = <<>> /\ outstanding = 0 /\ committing = FALSE /\ tail = 0
  /\ pc = [p \in Procs |-> IF p = initproc THEN "read_head" ELSE "idle"]
  /\ blk = [p \in Procs |-> NoBlock]
  /\ tx = {} /\ left = [p \in Procs |-> 0]
  /\ crashes = 0
crash == crashes < MaxCrashes /\ crashes' = crashes + 1 /\ Boot /\ UNCHANGED ondisk
-----------------------------------------------------------------------------
\* The buffer cache.

Locked(b) == \E p \in Procs : blk[p] = b /\ pc[p] \in {"held", "modified"}
Contents(b) == IF data[b] = NoData THEN home[b] ELSE data[b]

\* Some process calls bget for another block of the disk and recycles b's buffer.
recycle(b) ==
  /\ data[b] # NoData /\ b \notin dirty /\ \A p \in Procs : blk[p] # b
  /\ data' = [data EXCEPT ![b] = NoData]
  /\ UNCHANGED <<ondisk, dirty, log, procs, crashes>>

\* bget as far as acquiresleep, called inside an operation or, to read, outside.
bget(p, b) ==
  /\ pc[p] \in {"idle", "op"} /\ ~Recovering
  /\ pc' = [pc EXCEPT ![p] = "bget"] /\ blk' = [blk EXCEPT ![p] = b]
  /\ UNCHANGED <<ondisk, cache, log, tx, left, crashes>>

\* The rest of bread.
bread(p) ==
  /\ pc[p] = "bget" /\ ~Locked(blk[p])
  /\ data' = [data EXCEPT ![blk[p]] = Contents(blk[p])]
  /\ pc' = [pc EXCEPT ![p] = "held"]
  /\ UNCHANGED <<ondisk, dirty, log, blk, tx, left, crashes>>

brelse(p) ==
  /\ pc[p] = "held"
  /\ pc' = [pc EXCEPT ![p] = IF p \in tx THEN "op" ELSE "idle"]
  /\ blk' = [blk EXCEPT ![p] = NoBlock]
  /\ UNCHANGED <<ondisk, cache, log, tx, left, crashes>>
-----------------------------------------------------------------------------
\* Operations of the file system.

Busy_MutRoom == committing \/ Len(lh) + outstanding * MAXOPBLOCKS > LOGSIZE
Busy == committing \/ Len(lh) + (outstanding + 1) * MAXOPBLOCKS > LOGSIZE
Wakeup(q) == IF pc[q] = "sleep" THEN "begin" ELSE pc[q]

begin_op(p) ==
  /\ pc[p] \in {"idle", "begin"} /\ ~Recovering
  /\ IF Busy
       THEN pc' = [pc EXCEPT ![p] = "sleep"] /\ UNCHANGED <<outstanding, tx, left>>
       ELSE /\ outstanding' = outstanding + 1 /\ pc' = [pc EXCEPT ![p] = "op"]
            /\ tx' = tx \cup {p} /\ left' = [left EXCEPT ![p] = OpBlocks]
  /\ UNCHANGED <<ondisk, cache, lh, committing, tail, blk, crashes>>

\* The file system changes the buffer's data before it calls log_write.
modify(p, v) ==
  /\ pc[p] = "held" /\ p \in tx /\ (left[p] > 0 \/ Logged(blk[p]))
  /\ data' = [data EXCEPT ![blk[p]] = v]
  /\ pc' = [pc EXCEPT ![p] = "modified"]
  /\ UNCHANGED <<ondisk, dirty, log, blk, tx, left, crashes>>

log_write_MutPin(p) ==
  /\ pc[p] = "modified" /\ Len(lh) < size - 1
  /\ IF Logged(blk[p])
       THEN UNCHANGED <<lh, left>>
       ELSE lh' = Append(lh, blk[p]) /\ left' = [left EXCEPT ![p] = @ - 1]
  /\ pc' = [pc EXCEPT ![p] = "held"]
  /\ UNCHANGED <<ondisk, cache, outstanding, committing, tail, blk, tx, crashes>>
log_write(p) ==
  /\ pc[p] = "modified" /\ Len(lh) < size - 1
  /\ IF Logged(blk[p])
       THEN UNCHANGED <<lh, left>>
       ELSE lh' = Append(lh, blk[p]) /\ left' = [left EXCEPT ![p] = @ - 1]
  /\ dirty' = dirty \cup {blk[p]}
  /\ pc' = [pc EXCEPT ![p] = "held"]
  /\ UNCHANGED <<ondisk, data, outstanding, committing, tail, blk, tx, crashes>>

end_op_MutWakeup(p) ==
  /\ pc[p] = "op"
  /\ outstanding' = outstanding - 1 /\ tx' = tx \ {p} /\ left' = [left EXCEPT ![p] = 0]
  /\ IF outstanding' = 0
       THEN committing' = TRUE /\ tail' = 0 /\ pc' = [pc EXCEPT ![p] = "write_log"]
       ELSE pc' = [pc EXCEPT ![p] = "idle"] /\ UNCHANGED <<committing, tail>>
  /\ UNCHANGED <<ondisk, cache, lh, blk, crashes>>
end_op_MutCommit(p) ==
  /\ pc[p] = "op"
  /\ outstanding' = outstanding - 1 /\ tx' = tx \ {p} /\ left' = [left EXCEPT ![p] = 0]
  /\ IF outstanding' = 0 /\ Len(lh) > 1
       THEN committing' = TRUE /\ tail' = 0 /\ pc' = [pc EXCEPT ![p] = "write_log"]
       ELSE /\ pc' = [q \in Procs |-> IF q = p THEN "idle" ELSE Wakeup(q)]
            /\ UNCHANGED <<committing, tail>>
  /\ UNCHANGED <<ondisk, cache, lh, blk, crashes>>

\* The last operation goes on to commit.
end_op(p) ==
  /\ pc[p] = "op"
  /\ outstanding' = outstanding - 1 /\ tx' = tx \ {p} /\ left' = [left EXCEPT ![p] = 0]
  /\ IF outstanding' = 0
       THEN committing' = TRUE /\ tail' = 0 /\ pc' = [pc EXCEPT ![p] = "write_log"]
       ELSE /\ pc' = [q \in Procs |-> IF q = p THEN "idle" ELSE Wakeup(q)]
            /\ UNCHANGED <<committing, tail>>
  /\ UNCHANGED <<ondisk, cache, lh, blk, crashes>>
-----------------------------------------------------------------------------
\* commit() and recover_from_log().  Of the loops over the log's blocks, one turn
\* is two actions: bget of the home block, then what happens under its sleep lock.

copy_bget(p) ==
  /\ pc[p] \in Committers /\ blk[p] = NoBlock /\ tail < Len(lh)
  /\ blk' = [blk EXCEPT ![p] = lh[tail + 1]]
  /\ UNCHANGED <<ondisk, cache, log, pc, tx, left, crashes>>

Copied(p) == blk[p] # NoBlock /\ ~Locked(blk[p]) /\ tail' = tail + 1 /\ blk' = [blk EXCEPT ![p] = NoBlock]

write_log_MutFrom(p) ==
  /\ pc[p] = "write_log" /\ Copied(p)
  /\ logd' = [logd EXCEPT ![tail + 1] = home[blk[p]]]
  /\ UNCHANGED <<home, head, cache, lh, outstanding, committing, pc, tx, left, crashes>>
write_log(p) ==
  /\ pc[p] = "write_log" /\ Copied(p)
  /\ logd' = [logd EXCEPT ![tail + 1] = Contents(blk[p])]
  /\ data' = [data EXCEPT ![blk[p]] = Contents(blk[p])]
  /\ UNCHANGED <<home, head, dirty, lh, outstanding, committing, pc, tx, left, crashes>>

\* The commit itself, unless there is nothing to commit.
write_head(p) ==
  /\ pc[p] = "write_log" /\ tail = Len(lh)
  /\ head' = lh /\ tail' = 0 /\ pc' = [pc EXCEPT ![p] = IF lh = <<>> THEN "end" ELSE "install"]
  /\ UNCHANGED <<home, logd, cache, lh, outstanding, committing, blk, tx, left, crashes>>

install_trans(p) ==
  /\ pc[p] \in {"install", "recover"} /\ Copied(p)
  /\ home' = [home EXCEPT ![blk[p]] = logd[tail + 1]]
  /\ data' = [data EXCEPT ![blk[p]] = logd[tail + 1]]
  /\ dirty' = dirty \ {blk[p]}
  /\ UNCHANGED <<logd, head, lh, outstanding, committing, pc, tx, left, crashes>>

\* log.lh.n = 0 and the second write_head, in commit and in recover_from_log.
clear(p) ==
  /\ pc[p] \in {"install", "recover"} /\ blk[p] = NoBlock /\ tail = Len(lh)
  /\ lh' = <<>> /\ head' = <<>> /\ tail' = 0
  /\ pc' = [pc EXCEPT ![p] = IF @ = "install" THEN "end" ELSE "idle"]
  /\ UNCHANGED <<home, logd, cache, outstanding, committing, blk, tx, left, crashes>>

\* The rest of end_op after commit.
end_commit(p) ==
  /\ pc[p] = "end"
  /\ committing' = FALSE
  /\ pc' = [q \in Procs |-> IF q = p THEN "idle" ELSE Wakeup(q)]
  /\ UNCHANGED <<ondisk, cache, lh, outstanding, tail, blk, tx, left, crashes>>

read_head(p) ==
  /\ pc[p] = "read_head"
  /\ lh' = head /\ tail' = 0 /\ pc' = [pc EXCEPT ![p] = "recover"]
  /\ UNCHANGED <<ondisk, cache, outstanding, committing, blk, tx, left, crashes>>
-----------------------------------------------------------------------------
CacheStep(p) == bread(p) \/ brelse(p) \/ \E b \in Blocks : bget(p, b)
OpStep(p) == begin_op(p) \/ log_write(p) \/ end_op(p) \/ \E v \in Values : modify(p, v)
CommitStep(p) ==
  copy_bget(p) \/ write_log(p) \/ write_head(p) \/ install_trans(p) \/ clear(p) \/ end_commit(p) \/ read_head(p)
Next ==
  \/ \E p \in Procs : CacheStep(p) \/ OpStep(p) \/ CommitStep(p)
  \/ \E b \in Blocks : recycle(b)
  \/ crash
Spec == Init /\ [][Next]_vars
-----------------------------------------------------------------------------
States == {"idle", "begin", "sleep", "op", "bget", "held", "modified",
           "write_log", "install", "end", "read_head", "recover"}
TypeOK ==
  /\ home \in [Blocks -> Values] /\ logd \in [Slots -> Values]
  /\ data \in [Blocks -> Values \cup {NoData}] /\ dirty \subseteq Blocks
  /\ lh \in Seq(Blocks) /\ Len(lh) < size /\ head \in Seq(Blocks) /\ Len(head) < size
  /\ outstanding \in Nat /\ committing \in BOOLEAN /\ tail \in Nat
  /\ pc \in [Procs -> States]
  /\ blk \in [Procs -> Blocks \cup {NoBlock}]
  /\ tx \subseteq Procs /\ left \in [Procs -> 0..OpBlocks]

\* The log entries that the operations in progress may still add.
Reserved == UNION {{p} \X (1..left[p]) : p \in tx}

\* begin_op's estimate (log.c:132) leaves room for all that the operations in
\* progress may still log, so log_write never panics (log.c:218), although the
\* header takes one of the LOGSIZE blocks that the estimate counts on.
LogHasRoom == tx # {} => Len(lh) + Cardinality(Reserved) < size - 1

\* A process sleeps in begin_op only as long as the condition holds for which it
\* went to sleep: no wakeup of end_op (log.c:160, :171) comes too early or is left out.
SleepersHaveReason == \A p \in Procs : pc[p] = "sleep" => Busy

\* A block's buffer is pinned (B_DIRTY) while the only copy of logged data is there,
\* and for no longer: the cache neither loses an update nor fills up with pinned
\* buffers (bio.c:78, log.c:230).
PinnedWhileLogged ==
  /\ \A b \in dirty : Logged(b) /\ data[b] # NoData
  /\ ~Recovering => \A i \in 1..Len(lh) : lh[i] \in dirty <=> (head = <<>> \/ i > tail)

\* What a crash at this moment leaves: recovery copies the log's blocks home.
Safe == [b \in Blocks |-> IF \E i \in 1..Len(head) : head[i] = b
                          THEN logd[CHOOSE i \in 1..Len(head) : head[i] = b] ELSE home[b]]
Cur == IF Recovering THEN Safe ELSE [b \in Blocks |-> Contents(b)]

\* When no operation is in progress and none is being committed, everything ever
\* written is durable: the last end_op returns only after the commit.
DurableWhenIdle == (tx = {} /\ ~committing) => Safe = Cur

\* The log implements atomic transactions: the writes of all operations since the
\* last commit become durable in one step, and a crash at any moment, in the middle
\* of a commit or of a recovery, keeps all of them or none.
Transactions == INSTANCE XvLogSpec WITH cur <- Cur, safe <- Safe, active <- tx
ImplementsTransactions == Transactions!Spec
=============================================================================
