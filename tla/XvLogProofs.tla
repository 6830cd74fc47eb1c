---------------------------- MODULE XvLogProofs ----------------------------
(***************************************************************************)
(* The log of xv6 for any number of processes and blocks and any number of *)
(* crashes: it never overflows, loses no wakeup and implements atomic      *)
(* transactions.                                                           *)
(***************************************************************************)
EXTENDS XvLog, TLAPS

Holders == {"held", "modified"}
Users == {"bget", "held", "modified"}
Working == {"write_log", "install", "end", "read_head", "recover"}

\* At most one process commits or recovers, and no operation is in progress then.
PhaseOK ==
  /\ \A p \in Procs : pc[p] \in {"read_head", "recover"} => p = initproc
  /\ \A p, q \in Procs : pc[p] \in Working /\ pc[q] \in Working => p = q
  /\ \A p \in Procs : pc[p] \in {"write_log", "install", "end"} => committing
  /\ committing => tx = {} /\ ~Recovering
  /\ Recovering => tx = {} /\ \A p \in Procs : p # initproc => pc[p] = "idle"
  /\ \A p \in Procs : pc[p] \in {"op", "modified"} => p \in tx
  /\ \A p \in tx : pc[p] \in {"op"} \cup Users

\* What is in the header on disk and in its copy in memory.
HeadOK ==
  /\ (tx = {} /\ ~committing /\ ~Recovering) => lh = <<>>
  /\ \A p \in Procs : pc[p] \in {"end", "read_head"} => lh = <<>>
  /\ head # <<>> => Recovering \/ \E p \in Procs : pc[p] = "install"
  /\ \A p \in Procs : pc[p] \in {"install", "recover"} => head = lh
  /\ \A p \in Procs : pc[p] \in Committers => tail <= Len(lh)
  /\ \A i, j \in 1..Len(lh) : lh[i] = lh[j] => i = j
  /\ \A i, j \in 1..Len(head) : head[i] = head[j] => i = j

\* Who refers to a buffer.
RefOK ==
  /\ \A p \in Procs : pc[p] \in Users => blk[p] # NoBlock
  /\ \A p \in Procs : blk[p] # NoBlock /\ pc[p] \notin Users =>
       pc[p] \in Committers /\ tail < Len(lh) /\ blk[p] = lh[tail + 1]

\* The sleep lock of a buffer excludes, and protects valid data.
LockOK ==
  /\ \A p, q \in Procs : pc[p] \in Holders /\ pc[q] \in Holders /\ blk[p] = blk[q] => p = q
  /\ \A p \in Procs : pc[p] \in Holders => data[blk[p]] # NoData

\* A block that has been modified is in the log or may be added to it.
PendingOK == \A p \in Procs : pc[p] = "modified" => left[p] > 0 \/ Logged(blk[p])

\* The buffer of a block that is not in the log agrees with the disk.
CleanOK ==
  \A b \in Blocks :
    Logged(b) \/ data[b] \in {NoData, home[b]} \/ \E p \in Procs : pc[p] = "modified" /\ blk[p] = b

\* What write_log and install_trans have copied.
CopyOK ==
  /\ \A p \in Procs : pc[p] = "write_log" => \A i \in 1..tail : logd[i] = data[lh[i]]
  /\ \A p \in Procs : pc[p] \in {"install", "recover"} =>
       /\ \A i \in 1..Len(lh) : data[lh[i]] \in {NoData, logd[i]}
       /\ \A i \in 1..tail : home[lh[i]] = logd[i]

\* Nothing is cached when recovery begins.
BootOK ==
  /\ Recovering => dirty = {}
  /\ pc[initproc] = "read_head" => \A b \in Blocks : data[b] = NoData

\* Every operation in progress has reserved two blocks more than it may write.
RoomOK ==
  /\ IsFiniteSet(tx) /\ outstanding = Cardinality(tx)
  /\ tx # {} => Len(lh) + Cardinality(Reserved) + 2 * outstanding <= LOGSIZE

Inv ==
  /\ TypeOK /\ PhaseOK /\ HeadOK /\ RefOK /\ LockOK /\ PendingOK /\ CleanOK /\ CopyOK /\ BootOK
  /\ PinnedWhileLogged /\ RoomOK /\ SleepersHaveReason
-----------------------------------------------------------------------------
\* What the invariant says of the variables, part by part, so that a proof can name
\* the parts it uses.
PcType == pc \in [Procs -> States]
BlkType == blk \in [Procs -> Blocks \cup {NoBlock}]
DataType == data \in [Blocks -> Values \cup {NoData}]
HomeType == home \in [Blocks -> Values]
LogdType == logd \in [Slots -> Values]
LhType == lh \in Seq(Blocks) /\ Len(lh) \in Nat
HeadType == head \in Seq(Blocks) /\ Len(head) \in Nat
TailType == tail \in Nat
TxType == tx \subseteq Procs
LeftType == left \in [Procs -> 0..OpBlocks]
OutType == outstanding \in Nat
Distinct == initproc \in Procs /\ NoData \notin Values /\ \A c \in Blocks : c # NoBlock
RefBlock == \A q \in Procs : pc[q] \in Users => blk[q] \in Blocks
LhBlock == \A i \in 1..Len(lh) : lh[i] \in Blocks
HeadBlock == \A i \in 1..Len(head) : head[i] \in Blocks
LogPinned ==
  \A q \in Procs : pc[q] = "write_log" => tail <= Len(lh) /\ \A i \in 1..Len(lh) : lh[i] \in dirty
Empty == Len(<<>>) = 0 /\ 1..0 = {}
Facts ==
  /\ PcType /\ BlkType /\ DataType /\ HomeType /\ LogdType /\ LhType /\ HeadType /\ TailType
  /\ TxType /\ LeftType /\ OutType /\ Distinct /\ RefBlock /\ LhBlock /\ HeadBlock /\ LogPinned
  /\ Empty

\* Zenon proves the steps that do not name another prover.  Those that need arithmetic or
\* Boolean-valued variables name two, the second for when the first runs out of time.
USE ZenonT(60)

\* The invariant implies these parts.
LEMMA InvFacts == Inv => Facts
<1> SUFFICES ASSUME Inv PROVE Facts OBVIOUS
<1>1. PcType /\ BlkType /\ DataType /\ HomeType /\ LogdType /\ TxType /\ LeftType /\ OutType /\ TailType
  BY DEF Inv, TypeOK, PcType, BlkType, DataType, HomeType, LogdType, TxType, LeftType, OutType, TailType
<1>2. LhType /\ HeadType /\ LhBlock /\ HeadBlock /\ Empty
  BY SMTT(30), Z3T(60) DEF Inv, TypeOK, LhType, HeadType, LhBlock, HeadBlock, Empty
<1>3. Distinct /\ RefBlock
  BY <1>1, LogAssumption DEF Inv, RefOK, Users, BlkType, Distinct, RefBlock, NoBlock
<1>4. LogPinned
  BY <1>1, <1>2 DEF Inv, TailType, LhType, LogPinned, PhaseOK, HeadOK, PinnedWhileLogged, Recovering,
     Working, Committers
<1> QED BY <1>1, <1>2, <1>3, <1>4 DEF Facts

\* The block that the committer copies next, and its place in the log.
LEMMA NextSlot ==
  Inv /\ tail < Len(lh) =>
    /\ tail + 1 \in 1..Len(lh) /\ tail + 1 <= Len(lh) /\ tail + 1 \in Slots
    /\ lh[tail + 1] \in Blocks /\ logd[tail + 1] \in Values
<1> SUFFICES ASSUME Inv, tail < Len(lh)
             PROVE  /\ tail + 1 \in 1..Len(lh) /\ tail + 1 <= Len(lh) /\ tail + 1 \in Slots
                    /\ lh[tail + 1] \in Blocks /\ logd[tail + 1] \in Values
  OBVIOUS
<1>1. tail \in Nat /\ Len(lh) \in Nat /\ Len(lh) < size /\ size \in Nat
  BY SMTT(30), Z3T(60), LogAssumption DEF Inv, TypeOK, size
<1>2. tail + 1 \in 1..Len(lh) /\ tail + 1 <= Len(lh) /\ tail + 1 \in Slots
  BY SMTT(30), Z3T(60), <1>1 DEF Slots
<1>3. lh[tail + 1] \in Blocks /\ logd[tail + 1] \in Values
  BY <1>2, InvFacts DEF Facts, LhBlock, LogdType
<1> QED BY <1>2, <1>3

\* The places behind the next one.
LEMMA Behind == \A t, n \in Nat : \A i \in 1..n : i > t + 1 <=> i > t /\ i # t + 1
BY SMTT(30), Z3T(60)

\* The empty header names no block.
LEMMA NoPlaces == 1..Len(<<>>) = {}
BY SMTT(30), Z3T(60)

\* A place in a sequence does not exceed its length.
LEMMA Within == \A n \in Nat : \A i \in 1..n : ~(i > n)
BY SMTT(30), Z3T(60)

(***************************************************************************)
(* The operations, whose steps change the room in the log                  *)
(***************************************************************************)
\* Facts of the prover's library about finite sets.  They are proved where the library is
\* instantiated, behind the lemmas that assume them.
Subsets ==
  \A S : IsFiniteSet(S) => \A T \in SUBSET S : IsFiniteSet(T) /\ Cardinality(T) <= Cardinality(S)
Products ==
  \A S, T : IsFiniteSet(S) /\ IsFiniteSet(T) =>
    IsFiniteSet(S \X T) /\ Cardinality(S \X T) = Cardinality(S) * Cardinality(T)
Intervals == \A n \in Nat : IsFiniteSet(1..n) /\ Cardinality(1..n) = n
Elements ==
  /\ IsFiniteSet({}) /\ Cardinality({}) = 0
  /\ \A S : IsFiniteSet(S) =>
       /\ Cardinality(S) \in Nat /\ (Cardinality(S) = 0 <=> S = {})
       /\ \A x : x \in S => IsFiniteSet(S \ {x}) /\ Cardinality(S \ {x}) = Cardinality(S) - 1
       /\ \A x : x \notin S => IsFiniteSet(S \cup {x}) /\ Cardinality(S \cup {x}) = Cardinality(S) + 1
Counting == Elements /\ Subsets /\ Products /\ Intervals

\* Multiplication by a natural number keeps an order.
LEMMA Times == \A k, a, b \in Nat : a <= b => k * a <= k * b
BY SMTT(30), Z3T(60)

\* The product of two natural numbers is one.
LEMMA TimesNat == \A a, b \in Nat : a * b \in Nat
BY SMTT(30), Z3T(60)

\* The blocks that a set of operations may still add to the log are finitely many,
\* OpBlocks at most for each.
LEMMA ReservedFinite ==
  ASSUME Counting, NEW T \in SUBSET Procs, IsFiniteSet(T), NEW l \in [Procs -> 0..OpBlocks]
  PROVE  LET R == UNION {{p} \X (1..l[p]) : p \in T}
         IN  IsFiniteSet(R) /\ Cardinality(R) \in Nat /\ Cardinality(R) <= Cardinality(T) * OpBlocks
<1> DEFINE R == UNION {{p} \X (1..l[p]) : p \in T}
<1>1. IsFiniteSet(1..OpBlocks) /\ Cardinality(1..OpBlocks) = OpBlocks
  <2>1. OpBlocks \in Nat BY LogAssumption
  <2> QED BY <2>1 DEF Counting, Intervals
<1>2. IsFiniteSet(T \X (1..OpBlocks)) /\ Cardinality(T \X (1..OpBlocks)) = Cardinality(T) * OpBlocks
  <2>1. IsFiniteSet(T \X (1..OpBlocks)) /\ Cardinality(T \X (1..OpBlocks)) = Cardinality(T) * Cardinality(1..OpBlocks)
    BY <1>1 DEF Counting, Products
  <2> QED BY <1>1, <2>1
<1>3. R \subseteq T \X (1..OpBlocks)
  BY SMTT(30), Z3T(60), LogAssumption
<1>4. IsFiniteSet(R) /\ Cardinality(R) <= Cardinality(T \X (1..OpBlocks)) BY <1>2, <1>3 DEF Counting, Subsets
<1>5. Cardinality(R) \in Nat BY <1>4 DEF Counting, Elements
<1> QED BY <1>2, <1>4, <1>5

\* One operation fewer.
LEMMA OneLess ==
  ASSUME Counting, RoomOK, NEW p \in tx
  PROVE  /\ outstanding - 1 \in Nat /\ IsFiniteSet(tx \ {p}) /\ Cardinality(tx \ {p}) = outstanding - 1
         /\ outstanding - 1 = 0 <=> tx \ {p} = {}
<1>1. IsFiniteSet(tx \ {p}) /\ Cardinality(tx \ {p}) = Cardinality(tx) - 1
  BY DEF RoomOK, Counting, Elements
<1>2. Cardinality(tx \ {p}) \in Nat /\ (Cardinality(tx \ {p}) = 0 <=> tx \ {p} = {})
  BY <1>1 DEF Counting, Elements
<1> QED BY <1>1, <1>2 DEF RoomOK

\* The first boot finds a disk on which the log is empty.
LEMMA InitInv == Counting => (Init => Inv)
<1> SUFFICES ASSUME Counting, Init PROVE Inv OBVIOUS
<1>1. TypeOK
  <2>1. logd \in [Slots -> Values]
    BY DEF Init
  <2>2. pc \in [Procs -> States]
    <3>1. pc = [p \in Procs |-> IF p = initproc THEN "read_head" ELSE "idle"]
      BY DEF Init
    <3> QED BY <3>1 DEF States
  <2>3. /\ lh \in Seq(Blocks) /\ Len(lh) < size /\ head \in Seq(Blocks) /\ Len(head) < size
        /\ left \in [Procs -> 0..OpBlocks]
    BY SMTT(30), Z3T(60), LogAssumption DEF Init, size
  <2>4. /\ home \in [Blocks -> Values] /\ data \in [Blocks -> Values \cup {NoData}]
        /\ dirty = {} /\ blk \in [Procs -> Blocks \cup {NoBlock}]
    BY DEF Init
  <2>5. outstanding \in Nat /\ committing = FALSE /\ tail \in Nat /\ tx = {}
    BY DEF Init
  <2> QED BY <2>1, <2>2, <2>3, <2>4, <2>5 DEF TypeOK
<1>2. PhaseOK /\ HeadOK /\ RefOK /\ LockOK /\ PendingOK
  BY SMTT(30), Z3T(60), LogAssumption DEF Init, PhaseOK, HeadOK, RefOK, LockOK, PendingOK, Recovering, Working, Users,
      Holders, Committers, NoBlock
<1>3. CleanOK /\ CopyOK /\ BootOK /\ PinnedWhileLogged /\ SleepersHaveReason
  BY LogAssumption DEF Init, CleanOK, CopyOK, BootOK, PinnedWhileLogged, SleepersHaveReason,
      Recovering, Logged
<1>4. RoomOK
  BY DEF Init, RoomOK, Counting, Elements
<1> QED BY <1>1, <1>2, <1>3, <1>4 DEF Inv

\* begin_op sleeps, or reserves room in the log for the operation.
LEMMA BeginOpKeeps == ASSUME Counting, Inv, NEW p \in Procs, begin_op(p) PROVE Inv'
<1> Facts BY InvFacts
<1> UNCHANGED <<home, logd, head, data, dirty, lh, committing, tail, blk>>
  BY DEF begin_op, ondisk, cache, log, procs
<1>a. PICK s \in {"sleep", "op"} : pc' = [pc EXCEPT ![p] = s]
  BY DEF begin_op
<1>b. pc[p] \in {"idle", "begin"} /\ ~Recovering /\ UNCHANGED <<ondisk, cache, lh, committing, tail, blk>>
  BY DEF begin_op
<1> /\ \A q \in Procs : q # p => pc'[q] = pc[q] /\ left'[q] = left[q]
    /\ \/ pc'[p] = "sleep" /\ tx' = tx /\ left' = left /\ outstanding' = outstanding /\ Busy
       \/ pc'[p] = "op" /\ tx' = tx \cup {p} /\ outstanding' = outstanding + 1 /\ ~committing
  BY DEF Facts, Distinct, PcType, LeftType, begin_op, Busy
<1> pc[p] \in {"idle", "begin"} /\ ~Recovering /\ p \notin tx
  BY <1>b DEF begin_op, Inv, PhaseOK, Users
<1>1. PhaseOK'
  BY SMTT(30), Z3T(60), <1>b DEF Facts, Distinct, TxType, Inv, PhaseOK, Working, Users, Recovering
<1>2. HeadOK'
  BY SMTT(30), Z3T(60), <1>b DEF Facts, Distinct, LhType, HeadType, TailType, Empty, Inv, HeadOK, Working,
      Committers, Recovering
<1>3. RefOK'
  BY SMTT(30), Z3T(60), <1>b DEF Facts, Distinct, LhType, TailType, Inv, RefOK, Users, Committers, Working,
      Recovering
<1>4. LockOK'
  BY SMTT(30), Z3T(60), <1>b DEF Facts, Users, Distinct, RefBlock, Inv, LockOK, Holders, Recovering
<1>5. PendingOK'
  BY SMTT(30), Z3T(60), <1>b DEF Facts, Distinct, Inv, PendingOK, Logged, Recovering
<1>6. CleanOK'
  BY SMTT(30), Z3T(60), <1>b DEF Facts, Distinct, Empty, Inv, CleanOK, Logged, Recovering
<1>7. CopyOK'
  BY SMTT(30), Z3T(60), <1>b DEF Facts, Distinct, LhBlock, LogPinned, TailType, LhType, Inv, CopyOK, Recovering
<1>8. BootOK'
  BY <1>b DEF Facts, Distinct, Inv, BootOK, Recovering
<1>9. PinnedWhileLogged'
  BY SMTT(30), Z3T(60), <1>b DEF Facts, Distinct, LhType, TailType, Empty, Inv, PinnedWhileLogged, Logged, Recovering
<1>10. SleepersHaveReason'
  BY SMTT(30), Z3T(60), <1>b, LogAssumption DEF Facts, Distinct, LhType, OutType, Empty, Inv, SleepersHaveReason,
      Busy, Recovering
<1>11. TypeOK'
  <2>1. pc' \in [Procs -> States]
    BY <1>a DEF Facts, PcType, States
  <2>2. outstanding' \in Nat /\ tx' \subseteq Procs /\ left' \in [Procs -> 0..OpBlocks]
    <3>1. CASE Busy BY <3>1 DEF begin_op, Inv, TypeOK
    <3>2. CASE ~Busy
      <4>1. outstanding' = outstanding + 1 /\ tx' = tx \cup {p} /\ left' = [left EXCEPT ![p] = OpBlocks]
        BY <3>2 DEF begin_op
      <4>2. OpBlocks \in 0..OpBlocks BY SMTT(30), Z3T(60), LogAssumption
      <4> QED BY SMTT(30), Z3T(60), <4>1, <4>2 DEF Inv, TypeOK
    <3> QED BY <3>1, <3>2
  <2> QED BY <2>1, <2>2, <1>b DEF Inv, TypeOK, ondisk, cache
<1>12. RoomOK'
  <2>1. CASE Busy
    BY <2>1 DEF begin_op, Inv, RoomOK, Reserved
  <2>2. CASE ~Busy
    <3>1. p \notin tx /\ tx' = tx \cup {p} /\ outstanding' = outstanding + 1 /\ lh' = lh
      BY <2>2, <1>b DEF begin_op, Inv, PhaseOK, Users
    <3>2. IsFiniteSet(tx') /\ Cardinality(tx') = outstanding' /\ outstanding' \in Nat
      <4>1. IsFiniteSet(tx) /\ outstanding = Cardinality(tx) /\ outstanding \in Nat
        BY DEF Inv, TypeOK, RoomOK
      <4>2. IsFiniteSet(tx \cup {p}) /\ Cardinality(tx \cup {p}) = outstanding + 1
        BY <3>1, <4>1 DEF Counting, Elements
      <4> QED BY SMTT(30), Z3T(60), <3>1, <4>1, <4>2
    <3>3. tx' \in SUBSET Procs /\ left' \in [Procs -> 0..OpBlocks]
      BY <1>11 DEF TypeOK
    <3>4. Cardinality(Reserved') \in Nat /\ Cardinality(Reserved') <= outstanding' * OpBlocks
      BY <3>2, <3>3, ReservedFinite DEF Reserved
    <3>5. outstanding' * (OpBlocks + 2) <= outstanding' * MAXOPBLOCKS
      <4>1. OpBlocks + 2 \in Nat /\ MAXOPBLOCKS \in Nat /\ OpBlocks + 2 <= MAXOPBLOCKS BY SMTT(30), Z3T(60),
          LogAssumption
      <4> QED BY <4>1, <3>2, Times
    <3>6. Len(lh) + outstanding' * MAXOPBLOCKS <= LOGSIZE
      BY SMTT(30), Z3T(60), <2>2, <3>1, LogAssumption DEF Busy, Inv, TypeOK
    <3>7. outstanding' * (OpBlocks + 2) = outstanding' * OpBlocks + 2 * outstanding'
      BY SMTT(30), Z3T(60), <3>2, LogAssumption
    <3>8. outstanding' * OpBlocks \in Nat /\ outstanding' * MAXOPBLOCKS \in Nat /\ Len(lh) \in Nat
      <4>1. Len(lh) \in Nat BY DEF Facts, LhType
      <4> QED BY <4>1, <3>2, TimesNat, LogAssumption
    <3>9. Len(lh') + Cardinality(Reserved') + 2 * outstanding' <= LOGSIZE
      <4>1. lh' = lh /\ LOGSIZE \in Nat BY <3>1, LogAssumption
      <4> QED BY SMTT(30), Z3T(60), <4>1, <3>2, <3>4, <3>5, <3>6, <3>7, <3>8
    <3> QED BY <3>2, <3>9 DEF RoomOK
  <2> QED BY <2>1, <2>2
<1> QED BY <1>1, <1>2, <1>3, <1>4, <1>5, <1>6, <1>7, <1>8, <1>9, <1>10, <1>11, <1>12 DEF Inv

\* log_write records the block in the header, unless it is there, and pins the buffer.
LEMMA LogWriteKeeps == ASSUME Counting, Inv, NEW p \in Procs, log_write(p) PROVE Inv'
<1> Facts BY InvFacts
<1> UNCHANGED <<home, logd, head, data, outstanding, committing, tail, blk, tx>>
  BY DEF log_write, ondisk, cache, log, procs
<1>a. p \in tx /\ ~committing /\ ~Recovering /\ head = <<>> /\ \A q \in Procs : pc[q] \notin Working
  BY DEF log_write, Inv, PhaseOK, HeadOK, Working, Recovering
<1>b. blk[p] \in Blocks /\ pc' = [pc EXCEPT ![p] = "held"] /\ pc[p] = "modified"
  BY DEF log_write, Inv, TypeOK, RefOK, Users
<1>c. /\ UNCHANGED <<ondisk, data, outstanding, committing, tail, blk, tx>>
      /\ dirty' = dirty \cup {blk[p]}
  BY DEF log_write
<1>d. \/ Logged(blk[p]) /\ lh' = lh /\ left' = left
      \/ ~Logged(blk[p]) /\ lh' = Append(lh, blk[p]) /\ left[p] > 0 /\ left' = [left EXCEPT ![p] = left[p] - 1]
  BY DEF log_write, Inv, PendingOK
<1>e. lh' \in Seq(Blocks) /\ Len(lh') < size
  <2>1. Len(lh) < size - 1 BY DEF log_write
  <2>2. size \in Nat BY LogAssumption DEF size
  <2>3. lh \in Seq(Blocks) BY DEF Inv, TypeOK
  <2>4. CASE lh' = lh BY SMTT(30), Z3T(60), <2>1, <2>2, <2>3, <2>4
  <2>5. CASE lh' = Append(lh, blk[p]) BY SMTT(30), Z3T(60), <2>1, <2>2, <2>3, <2>5, <1>b
  <2> QED BY <2>4, <2>5, <1>d
<1>f. \A i \in 1..Len(lh) : i \in 1..Len(lh') /\ lh'[i] = lh[i]
  <2>1. lh \in Seq(Blocks) BY DEF Inv, TypeOK
  <2>2. CASE lh' = lh BY <2>1, <2>2
  <2>3. CASE lh' = Append(lh, blk[p]) BY SMTT(30), Z3T(60), <2>1, <2>3, <1>b
  <2> QED BY <2>2, <2>3, <1>d
<1>g. \A i \in 1..Len(lh') : i \in 1..Len(lh) \/ (i = Len(lh) + 1 /\ lh'[i] = blk[p] /\ ~Logged(blk[p]))
  BY SMTT(30), Z3T(60), <1>b, <1>d DEF Inv, TypeOK
<1>h. \E i \in 1..Len(lh') : lh'[i] = blk[p]
  BY SMTT(30), Z3T(60), <1>b, <1>d DEF Inv, TypeOK, Logged
<1> \A q \in Procs : pc'[q] = IF q = p THEN "held" ELSE pc[q]
  BY DEF Facts, Distinct, PcType, log_write
<1> pc[p] = "modified" /\ blk[p] \in Blocks
  BY <1>a, <1>c, <1>e, <1>f, <1>g, <1>h DEF Facts, Users, RefBlock, log_write, Inv
<1>1. PhaseOK'
  BY <1>a DEF Facts, Distinct, TxType, Inv, PhaseOK, Working, Users, Recovering
<1>2. RefOK'
  BY <1>a DEF Facts, Distinct, LhType, TailType, Inv, RefOK, Users, Committers, Working,
      Recovering
<1>3. LockOK'
  BY SMTT(30), Z3T(60) DEF Facts, Users, Distinct, RefBlock, Inv, LockOK, Holders, Recovering
<1>4. CopyOK'
  BY SMTT(30), Z3T(60), <1>a DEF Facts, Distinct, LhBlock, LogPinned, TailType, LhType, Inv, CopyOK, Recovering,
      Working
<1>5. BootOK'
  BY <1>a DEF Facts, Distinct, Inv, BootOK, Recovering
<1>6. TypeOK'
  <2>1. left' \in [Procs -> 0..OpBlocks]
    <3>1. left \in [Procs -> 0..OpBlocks] /\ OpBlocks \in Nat BY LogAssumption DEF Inv, TypeOK
    <3>2. CASE left' = left BY <3>1, <3>2
    <3>3. CASE left[p] > 0 /\ left' = [left EXCEPT ![p] = left[p] - 1]
      <4>1. left[p] - 1 \in 0..OpBlocks BY SMTT(30), Z3T(60), <3>1, <3>3
      <4> QED BY <3>1, <3>3, <4>1
    <3> QED BY <3>2, <3>3, <1>d
  <2>2. pc' \in [Procs -> States]
    BY <1>b DEF Facts, PcType, States
  <2> QED BY <2>1, <2>2, <1>b, <1>c, <1>e DEF Inv, TypeOK, ondisk
<1>7. HeadOK'
  <2>1. \A i, j \in 1..Len(lh') : lh'[i] = lh'[j] => i = j
    BY SMTT(30), Z3T(60), <1>f, <1>g DEF Inv, HeadOK, Logged
  <2> QED BY SMTT(30), Z3T(60), <2>1, <1>a, <1>b, <1>c DEF Inv, TypeOK, HeadOK, Recovering, Working, Committers,
      ondisk
<1>8. PendingOK'
  <2>1. \A q \in Procs : q # p => left'[q] = left[q]
    BY <1>d DEF Inv, TypeOK
  <2>2. \A b \in Blocks : Logged(b) => Logged(b)'
    BY <1>f DEF Logged
  <2> QED BY <2>1, <2>2, <1>b, <1>c DEF Inv, TypeOK, PendingOK, RefOK, Users, NoBlock
<1>9. CleanOK'
  <2>1. \A b \in Blocks : Logged(b) \/ b = blk[p] => Logged(b)'
    BY <1>f, <1>h DEF Logged
  <2>2. \A b \in Blocks : data'[b] = data[b] /\ home'[b] = home[b]
    BY <1>c DEF ondisk
  <2>3. \A q \in Procs : pc[q] = "modified" /\ blk[q] # blk[p] => pc'[q] = "modified" /\ blk'[q] = blk[q]
    BY <1>b, <1>c DEF Inv, TypeOK
  <2> QED BY SMTT(30), Z3T(60), <2>1, <2>2, <2>3 DEF Inv, CleanOK
<1>10. PinnedWhileLogged'
  <2>1. \A b \in dirty' : Logged(b)' /\ data'[b] # NoData
    BY SMTT(30), Z3T(60), <1>b, <1>c, <1>f, <1>h DEF Inv, PinnedWhileLogged, LockOK, Holders, Logged
  <2>2. \A i \in 1..Len(lh') : lh'[i] \in dirty'
    BY <1>a, <1>c, <1>f, <1>g DEF Inv, PinnedWhileLogged
  <2>3. head' = <<>>
    BY <1>a, <1>c DEF ondisk
  <2> QED BY <2>1, <2>2, <2>3 DEF PinnedWhileLogged
<1>11. RoomOK'
  <2>1. CASE lh' = lh /\ left' = left
    BY <2>1, <1>c DEF Inv, RoomOK, Reserved
  <2>2. CASE lh' = Append(lh, blk[p]) /\ left[p] > 0 /\ left' = [left EXCEPT ![p] = left[p] - 1]
    <3>1. <<p, left[p]>> \in Reserved /\ Reserved' = Reserved \ {<<p, left[p]>>}
      <4>1. left[p] \in 1..left[p]
        BY SMTT(30), Z3T(60), <2>2, LogAssumption DEF Inv, TypeOK
      <4>2. \A q \in Procs : 1..left'[q] = IF q = p THEN (1..left[p]) \ {left[p]} ELSE 1..left[q]
        <5> TAKE q \in Procs
        <5>1. left \in [Procs -> 0..OpBlocks] /\ OpBlocks \in Nat BY LogAssumption DEF Inv, TypeOK
        <5>2. left[p] \in Nat /\ left'[q] = IF q = p THEN left[p] - 1 ELSE left[q] BY SMTT(30), Z3T(60), <5>1, <2>2
        <5>3. 1..left[p] - 1 = (1..left[p]) \ {left[p]} BY SMTT(30), Z3T(60), <5>2, <2>2
        <5> QED BY <5>2, <5>3
      <4>3. tx' = tx /\ tx \subseteq Procs
        BY <1>c DEF Inv, TypeOK, ondisk
      <4>4. <<p, left[p]>> \in Reserved
        BY SMTT(30), Z3T(60), <4>1, <1>a DEF Reserved
      <4>5. ASSUME NEW x \in Reserved' PROVE x \in Reserved \ {<<p, left[p]>>}
        <5>1. PICK q \in tx : \E k \in 1..left'[q] : x = <<q, k>> BY SMTT(30), Z3T(60), <4>3, <4>5 DEF Reserved
        <5>k. PICK k \in 1..left'[q] : x = <<q, k>> BY <5>1
        <5>2. k \in 1..left[q] /\ (q = p => k # left[p]) BY <5>k, <4>2, <4>3
        <5> QED BY SMTT(30), Z3T(60), <5>k, <5>2 DEF Reserved
      <4>6. ASSUME NEW x \in Reserved, x # <<p, left[p]>> PROVE x \in Reserved'
        <5>1. PICK q \in tx : \E k \in 1..left[q] : x = <<q, k>> BY SMTT(30), Z3T(60), <4>6 DEF Reserved
        <5>k. PICK k \in 1..left[q] : x = <<q, k>> BY <5>1
        <5>2. k \in 1..left'[q] BY <5>k, <4>2, <4>3, <4>6
        <5> QED BY SMTT(30), Z3T(60), <5>k, <5>2, <4>3 DEF Reserved
      <4> QED BY <4>4, <4>5, <4>6
    <3>2. IsFiniteSet(Reserved) /\ Cardinality(Reserved) \in Nat
      BY ReservedFinite DEF Inv, TypeOK, RoomOK, Reserved
    <3>3. Cardinality(Reserved') = Cardinality(Reserved) - 1
      BY <3>1, <3>2 DEF Counting, Elements
    <3>4. Len(lh') = Len(lh) + 1 /\ Len(lh) \in Nat
      BY SMTT(30), Z3T(60), <2>2 DEF Facts, LhType
    <3>5. Len(lh) + Cardinality(Reserved) + 2 * outstanding <= LOGSIZE /\ outstanding \in Nat
      BY <1>a DEF Facts, OutType, Inv, RoomOK
    <3>6. Len(lh') + Cardinality(Reserved') + 2 * outstanding <= LOGSIZE
      BY SMTT(30), Z3T(60), <3>2, <3>3, <3>4, <3>5, LogAssumption
    <3> QED BY <3>6 DEF Inv, RoomOK
  <2> QED BY <2>1, <2>2, <1>d
<1>12. SleepersHaveReason'
  <2>1. Len(lh) <= Len(lh') /\ Len(lh') \in Nat
    BY SMTT(30), Z3T(60), <1>b, <1>d DEF Facts, LhType
  <2>2. Busy => Busy'
    BY SMTT(30), Z3T(60), <2>1, LogAssumption, TimesNat DEF Facts, LhType, OutType, Busy
  <2> QED BY <2>2 DEF Inv, SleepersHaveReason
<1> QED BY <1>1, <1>2, <1>3, <1>4, <1>5, <1>6, <1>7, <1>8, <1>9, <1>10, <1>11, <1>12 DEF Inv

\* end_op gives the operation's reservation back; the last one starts the commit.
LEMMA EndOpKeeps == ASSUME Counting, Inv, NEW p \in Procs, end_op(p) PROVE Inv'
<1> Facts BY InvFacts
<1> UNCHANGED <<home, logd, head, data, dirty, lh, blk>>
  BY DEF end_op, ondisk, cache, log, procs
<1>a. p \in tx /\ ~committing /\ ~Recovering /\ head = <<>> /\ \A q \in Procs : pc[q] \notin Working
  BY DEF end_op, Inv, PhaseOK, HeadOK, Working, Recovering
<1>b. /\ outstanding - 1 \in Nat /\ IsFiniteSet(tx \ {p}) /\ Cardinality(tx \ {p}) = outstanding - 1
      /\ outstanding - 1 = 0 <=> tx \ {p} = {}
  BY <1>a, OneLess DEF Inv
<1>c. /\ pc[p] = "op" /\ tx' = tx \ {p} /\ left' = [left EXCEPT ![p] = 0] /\ outstanding' = outstanding - 1
      /\ UNCHANGED <<ondisk, cache, lh, blk>>
  BY DEF end_op
<1>d. /\ (committing' <=> tx' = {}) /\ pc'[p] = (IF tx' = {} THEN "write_log" ELSE "idle")
      /\ \A q \in Procs : q # p => pc'[q] = pc[q] \/ (pc[q] = "sleep" /\ pc'[q] = "begin")
      /\ tx' # {} => \A q \in Procs : pc'[q] # "sleep"
      /\ tail' = IF tx' = {} THEN 0 ELSE tail
  <2>1. CASE tx' = {}
    BY <2>1, <1>b, <1>c DEF Facts, PcType, end_op
  <2>2. CASE tx' # {}
    BY <2>2, <1>a, <1>b, <1>c DEF Facts, PcType, end_op, Wakeup
  <2> QED BY <2>1, <2>2
<1>1. TypeOK'
  <2>1. pc' \in [Procs -> States]
    BY DEF Facts, PcType, end_op, Wakeup, States
  <2>2. committing' \in BOOLEAN
    BY DEF end_op, Inv, TypeOK
  <2>3. /\ outstanding' \in Nat /\ tail' \in Nat /\ tx' \subseteq Procs
        /\ blk' \in [Procs -> Blocks \cup {NoBlock}] /\ left' \in [Procs -> 0..OpBlocks]
    BY SMTT(30), Z3T(60), <1>b, <1>c, <1>d, LogAssumption DEF Inv, TypeOK
  <2>4. UNCHANGED <<home, logd, head, data, dirty, lh>>
    BY <1>c DEF ondisk, cache
  <2> QED BY <2>1, <2>2, <2>3, <2>4 DEF Inv, TypeOK
<1>e. /\ ~Recovering'
      /\ \A q \in Procs : pc'[q] \in Working => q = p /\ pc'[q] = "write_log" /\ tail' = 0 /\ tx' = {}
  <2>1. ~Recovering' BY <1>a, <1>c, <1>d, LogAssumption DEF Recovering
  <2> QED BY <2>1, <1>a, <1>d DEF Working
<1>2. PhaseOK'
  <2>1. /\ \A q \in Procs : pc'[q] \in {"op", "modified"} => q \in tx'
        /\ \A q \in tx' : pc'[q] \in {"op"} \cup Users
    BY <1>c, <1>d DEF Facts, TxType, Inv, PhaseOK, Users
  <2>2. \A q \in Procs : pc'[q] \notin {"read_head", "recover", "install", "end"}
    BY <1>e DEF Working
  <2>3. \A q \in Procs : pc'[q] = "write_log" => committing'
    BY <1>d, <1>e DEF Working
  <2> QED BY <1>d, <1>e, <2>1, <2>2, <2>3 DEF PhaseOK
<1>3. HeadOK'
  <2>1. head' = <<>> /\ lh' = lh /\ ~Recovering'
    BY <1>a, <1>c, <1>e DEF ondisk
  <2>2. (tx' = {} /\ ~committing') => lh' = <<>>
    BY <1>d
  <2>3. \A q \in Procs : pc'[q] \in Working => pc'[q] = "write_log" /\ tail' = 0
    BY <1>e
  <2>4. Len(lh) \in Nat /\ Len(head') = 0
    BY SMTT(30), Z3T(60), <2>1 DEF Inv, TypeOK
  <2> QED BY SMTT(30), Z3T(60), <2>1, <2>2, <2>3, <2>4 DEF Inv, HeadOK, Working, Committers
<1>4. RefOK'
  BY <1>a, <1>c, <1>d DEF Inv, RefOK, Users, Working, Committers
<1>5. LockOK'
  BY <1>c, <1>d DEF Inv, LockOK, Holders, cache
<1>6. PendingOK'
  BY SMTT(30), Z3T(60), <1>c, <1>d DEF Inv, PendingOK, Logged
<1>7. CleanOK'
  BY SMTT(30), Z3T(60), <1>c, <1>d DEF Inv, CleanOK, Logged, ondisk, cache
<1>8. CopyOK'
  BY <1>e DEF Facts, Empty, CopyOK, Working
<1>9. BootOK'
  BY <1>e DEF BootOK, Recovering
<1>10. PinnedWhileLogged'
  BY <1>a, <1>c DEF Inv, PinnedWhileLogged, Logged, ondisk, cache
<1>11. RoomOK'
  <2>1. Reserved' \subseteq Reserved
    BY SMTT(30), Z3T(60), <1>c DEF Inv, TypeOK, Reserved
  <2>2. IsFiniteSet(Reserved) /\ Cardinality(Reserved) \in Nat
    BY ReservedFinite DEF Inv, TypeOK, RoomOK, Reserved
  <2>3. Cardinality(Reserved') <= Cardinality(Reserved) /\ Cardinality(Reserved') \in Nat
    <3>1. IsFiniteSet(Reserved') /\ Cardinality(Reserved') <= Cardinality(Reserved)
      <4>1. Reserved' \in SUBSET Reserved BY <2>1
      <4> QED BY <4>1, <2>2 DEF Counting, Subsets
    <3> QED BY <3>1 DEF Counting, Elements
  <2>4. Len(lh) + Cardinality(Reserved) + 2 * outstanding <= LOGSIZE /\ Len(lh) \in Nat /\ outstanding \in Nat
    BY SMTT(30), Z3T(60), <1>a DEF Inv, TypeOK, RoomOK
  <2>5. Len(lh') + Cardinality(Reserved') + 2 * outstanding' <= LOGSIZE
    BY SMTT(30), Z3T(60), <1>c, <2>2, <2>3, <2>4, LogAssumption
  <2> QED BY <1>b, <1>c, <2>5 DEF RoomOK
<1>12. SleepersHaveReason'
  BY <1>d DEF SleepersHaveReason, Busy
<1> QED BY <1>1, <1>2, <1>3, <1>4, <1>5, <1>6, <1>7, <1>8, <1>9, <1>10, <1>11, <1>12 DEF Inv

\* A crash loses the memory and keeps the disk.
LEMMA CrashKeeps == ASSUME Counting, Inv, crash PROVE Inv'
<1> Facts BY InvFacts
<1> UNCHANGED <<home, logd, head>>
  BY DEF crash, ondisk, cache, log, procs, Boot
<1> /\ \A q \in Procs : pc'[q] = (IF q = initproc THEN "read_head" ELSE "idle") /\ blk'[q] = NoBlock
    /\ lh' = <<>> /\ tx' = {} /\ committing' = FALSE /\ tail' = 0 /\ dirty' = {}
    /\ \A b \in Blocks : data'[b] = NoData
  BY DEF Facts, Distinct, crash, Boot
<1>1. PhaseOK'
  BY DEF Facts, Distinct, TxType, Inv, PhaseOK, Working, Users, Recovering
<1>2. HeadOK'
  BY DEF Facts, Distinct, LhType, HeadType, TailType, Empty, Inv, HeadOK, Working, Committers,
      Recovering
<1>3. RefOK'
  BY DEF Facts, Distinct, LhType, TailType, Inv, RefOK, Users, Committers, Working, Recovering
<1>4. LockOK'
  BY DEF Facts, Users, Distinct, RefBlock, Inv, LockOK, Holders, Recovering
<1>5. PendingOK'
  BY DEF Facts, Distinct, Inv, PendingOK, Logged, Recovering
<1>6. CleanOK'
  BY DEF Facts, Distinct, Empty, Inv, CleanOK, Logged, Recovering
<1>7. CopyOK'
  BY DEF Facts, Distinct, LhBlock, LogPinned, TailType, LhType, Inv, CopyOK, Recovering
<1>8. BootOK'
  BY DEF Facts, Distinct, Inv, BootOK, Recovering
<1>9. PinnedWhileLogged'
  BY DEF Facts, Distinct, LhType, TailType, Empty, Inv, PinnedWhileLogged, Logged, Recovering
<1>10. SleepersHaveReason'
  BY LogAssumption DEF Facts, Distinct, LhType, OutType, Empty, Inv, SleepersHaveReason, Busy,
      Recovering
<1>11. TypeOK'
  <2>1. pc' \in [Procs -> States]
    <3>1. pc' = [r \in Procs |-> IF r = initproc THEN "read_head" ELSE "idle"]
      BY DEF crash, Boot
    <3> QED BY <3>1 DEF States
  <2>2. lh' \in Seq(Blocks) /\ Len(lh') < size /\ left' \in [Procs -> 0..OpBlocks]
    BY SMTT(30), Z3T(60), LogAssumption DEF crash, Boot, size
  <2>3. UNCHANGED <<home, logd, head>> BY DEF crash, ondisk
  <2>4. data' \in [Blocks -> Values \cup {NoData}] /\ dirty' = {} /\ blk' \in [Procs -> Blocks \cup {NoBlock}]
    BY DEF crash, Boot
  <2>5. outstanding' \in Nat /\ committing' = FALSE /\ tail' \in Nat /\ tx' = {}
    BY SMTT(30), Z3T(60) DEF crash, Boot
  <2> QED BY <2>1, <2>2, <2>3, <2>4, <2>5 DEF Inv, TypeOK
<1>12. RoomOK'
  BY DEF crash, Boot, RoomOK, Counting, Elements
<1> QED BY <1>1, <1>2, <1>3, <1>4, <1>5, <1>6, <1>7, <1>8, <1>9, <1>10, <1>11, <1>12 DEF Inv

(***************************************************************************)
(* The buffer cache, the commit and the recovery                           *)
(***************************************************************************)
\* Reusing an unpinned buffer nobody refers to keeps the invariant.
LEMMA RecycleKeeps == ASSUME Inv, NEW b \in Blocks, recycle(b) PROVE Inv'
<1> Facts BY InvFacts
<1> UNCHANGED <<home, logd, head, dirty, lh, outstanding, committing, tail, pc, blk, tx,
    left>>
  BY DEF recycle, ondisk, cache, log, procs
<1> \A c \in Blocks : data'[c] = IF c = b THEN NoData ELSE data[c]
  BY DEF Facts, Distinct, DataType, recycle
<1> b \notin dirty /\ \A q \in Procs : blk[q] # b
  BY DEF recycle, Inv
<1>1. PhaseOK' /\ HeadOK' /\ RefOK' /\ PendingOK' /\ RoomOK' /\ SleepersHaveReason'
  <2>1. PhaseOK' BY DEF Inv, PhaseOK, Recovering
  <2>2. HeadOK' BY SMTT(30), Z3T(60) DEF Inv, HeadOK, Recovering
  <2>3. RefOK' /\ PendingOK' BY DEF Inv, RefOK, PendingOK, Recovering, Logged
  <2>4. RoomOK' BY DEF Inv, RoomOK, Reserved
  <2>5. SleepersHaveReason' BY DEF Inv, SleepersHaveReason, Busy, Recovering
  <2> QED BY <2>1, <2>2, <2>3, <2>4, <2>5
<1>2. LockOK'
  BY DEF Facts, Users, Distinct, RefBlock, Inv, LockOK, Holders, Recovering
<1>3. CleanOK'
  BY DEF Facts, Distinct, Empty, Inv, CleanOK, Logged, Recovering
<1>4. CopyOK'
  BY SMTT(30), Z3T(60) DEF Facts, Distinct, LhBlock, LogPinned, TailType, LhType, Inv, CopyOK, Recovering
<1>5. BootOK'
  BY DEF Facts, Distinct, Inv, BootOK, Recovering
<1>6. PinnedWhileLogged'
  BY SMTT(30), Z3T(60) DEF Facts, Distinct, LhType, TailType, Empty, Inv, PinnedWhileLogged, Logged, Recovering
<1>7. TypeOK'
  BY DEF Facts, PcType, recycle, Inv, TypeOK
<1> QED BY <1>1, <1>2, <1>3, <1>4, <1>5, <1>6, <1>7 DEF Inv

\* bget takes a reference to a buffer.
LEMMA BgetKeeps == ASSUME Inv, NEW p \in Procs, NEW b \in Blocks, bget(p, b) PROVE Inv'
<1> Facts BY InvFacts
<1> UNCHANGED <<home, logd, head, data, dirty, lh, outstanding, committing, tail, tx, left>>
  BY DEF bget, ondisk, cache, log, procs
<1> /\ \A q \in Procs : pc'[q] = IF q = p THEN "bget" ELSE pc[q]
    /\ \A q \in Procs : blk'[q] = IF q = p THEN b ELSE blk[q]
  BY DEF Facts, Distinct, PcType, BlkType, bget
<1> pc[p] \in {"idle", "op"} /\ ~Recovering /\ b # NoBlock
  BY DEF Facts, Distinct, bget, Inv
<1>1. RoomOK'
  BY DEF Inv, RoomOK, Reserved
<1>2. PhaseOK'
  BY DEF Facts, Distinct, TxType, Inv, PhaseOK, Working, Users, Recovering
<1>3. HeadOK'
  BY SMTT(30), Z3T(60) DEF Facts, Distinct, LhType, HeadType, TailType, Empty, Inv, HeadOK, Working, Committers,
      Recovering
<1>4. RefOK'
  BY DEF Facts, Distinct, LhType, TailType, Inv, RefOK, Users, Committers, Working, Recovering
<1>5. LockOK'
  BY SMTT(30), Z3T(60) DEF Facts, Users, Distinct, RefBlock, Inv, LockOK, Holders, Recovering
<1>6. PendingOK'
  BY DEF Facts, Distinct, Inv, PendingOK, Logged, Recovering
<1>7. CleanOK'
  BY SMTT(30), Z3T(60) DEF Facts, Distinct, Empty, Inv, CleanOK, Logged, Recovering
<1>8. CopyOK'
  BY SMTT(30), Z3T(60) DEF Facts, Distinct, LhBlock, LogPinned, TailType, LhType, Inv, CopyOK, Recovering
<1>9. BootOK'
  BY DEF Facts, Distinct, Inv, BootOK, Recovering
<1>10. PinnedWhileLogged'
  BY DEF Facts, Distinct, LhType, TailType, Empty, Inv, PinnedWhileLogged, Logged, Recovering
<1>11. SleepersHaveReason'
  BY LogAssumption DEF Facts, Distinct, LhType, OutType, Empty, Inv, SleepersHaveReason, Busy,
      Recovering
<1>12. TypeOK'
  BY DEF Facts, PcType, LhType, bget, Inv, TypeOK, States, NoBlock
<1> QED BY <1>1, <1>2, <1>3, <1>4, <1>5, <1>6, <1>7, <1>8, <1>9, <1>10, <1>11, <1>12 DEF Inv

\* bread locks the buffer and reads the block unless the buffer is valid.
LEMMA BreadKeeps == ASSUME Inv, NEW p \in Procs, bread(p) PROVE Inv'
<1> Facts BY InvFacts
<1> UNCHANGED <<home, logd, head, dirty, lh, outstanding, committing, tail, blk, tx, left>>
  BY DEF bread, ondisk, cache, log, procs
<1> /\ \A q \in Procs : pc'[q] = IF q = p THEN "held" ELSE pc[q]
    /\ \A c \in Blocks : data'[c] = IF c = blk[p] THEN Contents(blk[p]) ELSE data[c]
  BY DEF Facts, Distinct, PcType, DataType, bread
<1> /\ pc[p] = "bget" /\ ~Locked(blk[p]) /\ blk[p] \in Blocks /\ ~Recovering
    /\ Contents(blk[p]) # NoData
  BY SMTT(30), Z3T(60) DEF Facts, Users, Distinct, RefBlock, DataType, HomeType, bread, Inv, PhaseOK, Recovering,
      Contents
<1>1. RoomOK'
  BY DEF Inv, RoomOK, Reserved
<1>2. PhaseOK'
  BY SMTT(30), Z3T(60) DEF Facts, Distinct, TxType, Inv, PhaseOK, Working, Users, Recovering, Locked
<1>3. HeadOK'
  BY SMTT(30), Z3T(60) DEF Facts, Distinct, LhType, HeadType, TailType, Empty, Inv, HeadOK, Working, Committers,
      Recovering, Locked
<1>4. RefOK'
  BY DEF Facts, Distinct, LhType, TailType, Inv, RefOK, Users, Committers, Working, Recovering,
      Locked
<1>5. LockOK'
  BY SMTT(30), Z3T(60) DEF Facts, Users, Distinct, RefBlock, Inv, LockOK, Holders, Recovering, Locked
<1>6. PendingOK'
  BY DEF Facts, Distinct, Inv, PendingOK, Logged, Recovering, Locked
<1>7. CleanOK'
  BY SMTT(30), Z3T(60) DEF Facts, Distinct, Empty, Inv, CleanOK, Logged, Recovering, Locked, Contents
<1>8. BootOK'
  BY DEF Facts, Distinct, Inv, BootOK, Recovering, Locked
<1>9. PinnedWhileLogged'
  BY SMTT(30), Z3T(60) DEF Facts, Distinct, LhType, TailType, Empty, Inv, PinnedWhileLogged, Logged, Recovering,
      Locked
<1>10. SleepersHaveReason'
  BY LogAssumption DEF Facts, Distinct, LhType, OutType, Empty, Inv, SleepersHaveReason, Busy,
      Recovering, Locked
<1>11. TypeOK'
  BY DEF Facts, PcType, bread, Locked, Contents, Inv, TypeOK, States
<1>12. CopyOK'
  <2>1. \A q \in Procs : pc'[q] = "write_log" => pc[q] = "write_log" /\ \A i \in 1..tail : data'[lh[i]] = data[lh[i]]
    <3>1. \A c \in dirty : c \in Blocks /\ data'[c] = data[c]
      BY DEF Inv, TypeOK, PinnedWhileLogged, Contents
    <3> QED BY SMTT(30), Z3T(60), <3>1 DEF Facts, LogPinned, TailType, LhType
  <2>2. \A q \in Procs : pc'[q] \in {"install", "recover"} => pc[q] = "install"
    BY DEF Inv, PhaseOK, Recovering
  <2>3. ASSUME NEW q \in Procs, pc[q] = "install", NEW i \in 1..Len(lh) PROVE data'[lh[i]] \in {NoData, logd[i]}
    <3>2. data[lh[i]] \in {NoData, logd[i]} /\ \A j \in 1..tail : home[lh[j]] = logd[j]
      BY <2>3 DEF Inv, CopyOK
    <3>3. data[lh[i]] = NoData => i \in 1..tail
      BY SMTT(30), Z3T(60) DEF Facts, TailType, LhType, Inv, PinnedWhileLogged
    <3>4. data'[lh[i]] \in {data[lh[i]], Contents(lh[i])}
      BY DEF Facts, LhBlock
    <3> QED BY <3>2, <3>3, <3>4 DEF Contents
  <2> QED BY SMTT(30), Z3T(60), <2>1, <2>2, <2>3 DEF Inv, CopyOK
<1> QED BY <1>1, <1>2, <1>3, <1>4, <1>5, <1>6, <1>7, <1>8, <1>9, <1>10, <1>11, <1>12 DEF Inv

\* brelse unlocks the buffer and drops the reference.
LEMMA BrelseKeeps == ASSUME Inv, NEW p \in Procs, brelse(p) PROVE Inv'
<1> Facts BY InvFacts
<1> UNCHANGED <<home, logd, head, data, dirty, lh, outstanding, committing, tail, tx, left>>
  BY DEF brelse, ondisk, cache, log, procs
<1> /\ \A q \in Procs : pc'[q] = IF q = p THEN IF p \in tx THEN "op" ELSE "idle" ELSE pc[q]
    /\ \A q \in Procs : blk'[q] = IF q = p THEN NoBlock ELSE blk[q]
  BY DEF Facts, Distinct, PcType, BlkType, brelse
<1> pc[p] = "held"
  BY DEF brelse, Inv
<1>1. RoomOK'
  BY DEF Inv, RoomOK, Reserved
<1>2. PhaseOK'
  BY SMTT(30), Z3T(60) DEF Facts, Distinct, TxType, Inv, PhaseOK, Working, Users, Recovering
<1>3. HeadOK'
  BY SMTT(30), Z3T(60) DEF Facts, Distinct, LhType, HeadType, TailType, Empty, Inv, HeadOK, Working, Committers,
      Recovering
<1>4. RefOK'
  BY DEF Facts, Distinct, LhType, TailType, Inv, RefOK, Users, Committers, Working, Recovering
<1>5. LockOK'
  BY SMTT(30), Z3T(60) DEF Facts, Users, Distinct, RefBlock, Inv, LockOK, Holders, Recovering
<1>6. PendingOK'
  BY DEF Facts, Distinct, Inv, PendingOK, Logged, Recovering
<1>7. CleanOK'
  BY SMTT(30), Z3T(60) DEF Facts, Distinct, Empty, Inv, CleanOK, Logged, Recovering
<1>8. CopyOK'
  BY SMTT(30), Z3T(60) DEF Facts, Distinct, LhBlock, LogPinned, TailType, LhType, Inv, CopyOK, Recovering
<1>9. BootOK'
  BY DEF Facts, Distinct, Inv, BootOK, Recovering
<1>10. PinnedWhileLogged'
  BY DEF Facts, Distinct, LhType, TailType, Empty, Inv, PinnedWhileLogged, Logged, Recovering
<1>11. SleepersHaveReason'
  BY LogAssumption DEF Facts, Distinct, LhType, OutType, Empty, Inv, SleepersHaveReason, Busy,
      Recovering
<1>12. TypeOK'
  BY DEF Facts, PcType, LhType, brelse, Inv, TypeOK, States, NoBlock
<1> QED BY <1>1, <1>2, <1>3, <1>4, <1>5, <1>6, <1>7, <1>8, <1>9, <1>10, <1>11, <1>12 DEF Inv

\* The file system changes the data of a buffer it has locked.
LEMMA ModifyKeeps == ASSUME Inv, NEW p \in Procs, NEW v \in Values, modify(p, v) PROVE Inv'
<1> Facts BY InvFacts
<1> UNCHANGED <<home, logd, head, dirty, lh, outstanding, committing, tail, blk, tx, left>>
  BY DEF modify, ondisk, cache, log, procs
<1>a. ~committing /\ ~Recovering /\ p \in tx BY DEF modify, Inv, PhaseOK
<1>b. \A q \in Procs : pc[q] \notin Working BY <1>a DEF Inv, PhaseOK, Recovering, Working
<1>c. head = <<>> BY <1>a, <1>b DEF Inv, HeadOK, Working
<1> /\ \A q \in Procs : pc'[q] = IF q = p THEN "modified" ELSE pc[q]
    /\ \A c \in Blocks : data'[c] = IF c = blk[p] THEN v ELSE data[c]
  BY DEF Facts, Distinct, PcType, DataType, modify
<1> /\ pc[p] = "held" /\ p \in tx /\ (left[p] > 0 \/ Logged(blk[p])) /\ blk[p] \in Blocks /\ v # NoData
    /\ ~committing /\ ~Recovering /\ head = <<>> /\ \A q \in Procs : pc[q] \notin Working
  BY <1>a, <1>b, <1>c DEF Facts, Users, Distinct, RefBlock, modify, Inv
<1>1. RoomOK'
  BY DEF Inv, RoomOK, Reserved
<1>2. PhaseOK'
  BY <1>a, <1>b, <1>c DEF Facts, Distinct, TxType, Inv, PhaseOK, Working, Users, Recovering
<1>3. HeadOK'
  BY <1>a, <1>b, <1>c DEF Facts, Distinct, LhType, HeadType, TailType, Empty, Inv, HeadOK,
      Working, Committers, Recovering
<1>4. RefOK'
  BY <1>a, <1>b, <1>c DEF Facts, Distinct, LhType, TailType, Inv, RefOK, Users, Committers,
      Working, Recovering
<1>5. LockOK'
  BY SMTT(30), Z3T(60), <1>a, <1>b, <1>c DEF Facts, Users, Distinct, RefBlock, Inv, LockOK, Holders, Recovering
<1>6. PendingOK'
  BY <1>a, <1>b, <1>c DEF Facts, Distinct, Inv, PendingOK, Logged, Recovering
<1>7. CleanOK'
  BY SMTT(30), Z3T(60), <1>a, <1>b, <1>c DEF Facts, Distinct, Empty, Inv, CleanOK, Logged, Recovering
<1>8. CopyOK'
  BY SMTT(30), Z3T(60), <1>a, <1>b, <1>c DEF Facts, Distinct, LhBlock, LogPinned, TailType, LhType, Inv, CopyOK,
      Recovering, Working
<1>9. BootOK'
  BY <1>a, <1>b, <1>c DEF Facts, Distinct, Inv, BootOK, Recovering
<1>10. PinnedWhileLogged'
  BY SMTT(30), Z3T(60), <1>a, <1>b, <1>c DEF Facts, Distinct, LhType, TailType, Empty, Inv, PinnedWhileLogged,
      Logged, Recovering
<1>11. SleepersHaveReason'
  BY <1>a, <1>b, <1>c, LogAssumption DEF Facts, Distinct, LhType, OutType, Empty, Inv,
      SleepersHaveReason, Busy, Recovering
<1>12. TypeOK'
  BY <1>a, <1>b, <1>c DEF Facts, PcType, modify, Inv, TypeOK, States
<1> QED BY <1>1, <1>2, <1>3, <1>4, <1>5, <1>6, <1>7, <1>8, <1>9, <1>10, <1>11, <1>12 DEF Inv

\* A turn of the loop of write_log or install_trans takes the next block's buffer.
LEMMA CopyBgetKeeps == ASSUME Inv, NEW p \in Procs, copy_bget(p) PROVE Inv'
<1> Facts BY InvFacts
<1> UNCHANGED <<home, logd, head, data, dirty, lh, outstanding, committing, tail, pc, tx,
    left>>
  BY DEF copy_bget, ondisk, cache, log, procs
<1> \A q \in Procs : blk'[q] = IF q = p THEN lh[tail + 1] ELSE blk[q]
  BY DEF Facts, Distinct, BlkType, copy_bget
<1> /\ pc[p] \in {"write_log", "install", "recover"} /\ tail < Len(lh) /\ lh[tail + 1] \in Blocks /\ lh[tail + 1] # NoBlock
    /\ \A q \in Procs : pc[q] \in Working => q = p
  <2>1. pc[p] \in {"write_log", "install", "recover"} /\ tail < Len(lh)
    BY DEF copy_bget, Committers
  <2>2. lh[tail + 1] \in Blocks /\ lh[tail + 1] # NoBlock BY <2>1, NextSlot DEF Facts, Distinct
  <2>3. \A q \in Procs : pc[q] \in Working => q = p BY <2>1 DEF Inv, PhaseOK, Working
  <2> QED BY <2>1, <2>2, <2>3
<1>1. PhaseOK' /\ HeadOK' /\ CopyOK' /\ BootOK' /\ PinnedWhileLogged' /\ RoomOK' /\
    SleepersHaveReason'
  <2>1. PhaseOK' /\ HeadOK' BY SMTT(30), Z3T(60) DEF Inv, PhaseOK, HeadOK, Recovering
  <2>2. CopyOK' /\ BootOK' BY SMTT(30), Z3T(60) DEF Inv, CopyOK, BootOK, Recovering
  <2>3. PinnedWhileLogged' BY SMTT(30), Z3T(60) DEF Inv, PinnedWhileLogged, Logged, Recovering
  <2>4. RoomOK' /\ SleepersHaveReason' BY SMTT(30), Z3T(60) DEF Inv, RoomOK, SleepersHaveReason, Reserved, Busy
  <2> QED BY <2>1, <2>2, <2>3, <2>4
<1>2. RefOK'
  BY DEF Facts, Distinct, LhType, TailType, Inv, RefOK, Users, Committers, Working, Recovering
<1>3. LockOK'
  BY SMTT(30), Z3T(60) DEF Facts, Users, Distinct, RefBlock, Inv, LockOK, Holders, Recovering
<1>4. PendingOK'
  BY DEF Facts, Distinct, Inv, PendingOK, Logged, Recovering
<1>5. CleanOK'
  BY SMTT(30), Z3T(60) DEF Facts, Distinct, Empty, Inv, CleanOK, Logged, Recovering
<1>6. TypeOK'
  BY DEF Facts, PcType, LhType, copy_bget, Inv, TypeOK, NoBlock
<1> QED BY <1>1, <1>2, <1>3, <1>4, <1>5, <1>6 DEF Inv

\* write_log copies one block from the cache to the log.
LEMMA WriteLogKeeps == ASSUME Inv, NEW p \in Procs, write_log(p) PROVE Inv'
<1> Facts BY InvFacts
<1> UNCHANGED <<home, head, dirty, lh, outstanding, committing, pc, tx, left>>
  BY DEF write_log, ondisk, cache, log, procs, Copied
<1>a. /\ pc[p] = "write_log" /\ tx = {} /\ committing /\ ~Recovering /\ head = <<>>
      /\ \A q \in Procs : pc[q] \in Working => q = p
  BY DEF write_log, Inv, PhaseOK, HeadOK, Working
<1>b. tail < Len(lh) /\ tail + 1 \in 1..Len(lh) /\ blk[p] = lh[tail + 1] /\ blk[p] \in Blocks /\ tail + 1 \in Slots
  <2>1. blk[p] # NoBlock /\ ~(pc[p] \in Users)
    BY <1>a DEF write_log, Copied, Users
  <2>2. tail < Len(lh) /\ blk[p] = lh[tail + 1] /\ blk[p] \in Blocks
    BY <2>1 DEF Inv, TypeOK, RefOK, NoBlock
  <2> QED BY <2>2, NextSlot
<1>c. data[blk[p]] # NoData /\ data[blk[p]] \in Values
  BY <1>a, <1>b DEF Inv, TypeOK, PinnedWhileLogged
<1>d. data' = data /\ logd' = [logd EXCEPT ![tail + 1] = data[blk[p]]]
  BY <1>c DEF write_log, Contents, Inv, TypeOK
<1>e. /\ tail' = tail + 1 /\ blk' = [blk EXCEPT ![p] = NoBlock]
      /\ UNCHANGED <<home, head, dirty, lh, outstanding, committing, pc, tx, left, crashes>>
  BY DEF write_log, Copied
<1> /\ \A q \in Procs : blk'[q] = IF q = p THEN NoBlock ELSE blk[q]
    /\ \A i \in Slots : logd'[i] = IF i = tail + 1 THEN data[blk[p]] ELSE logd[i]
    /\ tail' = tail + 1 /\ data' = data
  BY <1>d, <1>e DEF Facts, Distinct, BlkType, LogdType, write_log, Copied
<1>1. PhaseOK' /\ RoomOK' /\ SleepersHaveReason'
  <2>1. PhaseOK' BY SMTT(30), Z3T(60) DEF Inv, PhaseOK, Recovering
  <2>2. RoomOK' /\ SleepersHaveReason' BY SMTT(30), Z3T(60) DEF Inv, RoomOK, SleepersHaveReason, Reserved, Busy
  <2> QED BY <2>1, <2>2
<1>2. HeadOK'
  BY SMTT(30), Z3T(60), <1>a, <1>b, <1>c DEF Facts, Distinct, LhType, HeadType, TailType, Empty, Inv, HeadOK,
      Working, Committers, Recovering
<1>3. RefOK'
  <2>1. \A q \in Procs : q # p /\ pc[q] \notin Users => blk[q] = NoBlock
    BY <1>a DEF Inv, RefOK, Committers, Working
  <2>2. pc[p] \notin Users BY <1>a DEF Users
  <2> QED BY <2>1, <2>2 DEF Inv, RefOK
<1>4. LockOK'
  <2>1. \A q \in Procs : pc[q] \in Holders => q # p /\ blk'[q] = blk[q] /\ blk[q] \in Blocks
    BY <1>a DEF Holders, Users, Facts, RefBlock
  <2> QED BY <2>1 DEF Inv, LockOK
<1>5. PendingOK'
  BY SMTT(30), Z3T(60), <1>a, <1>b, <1>c DEF Facts, Distinct, Inv, PendingOK, Logged, Recovering
<1>6. CleanOK'
  BY SMTT(30), Z3T(60), <1>a, <1>b, <1>c DEF Facts, Distinct, Empty, Inv, CleanOK, Logged, Recovering
<1>7. BootOK'
  BY <1>a, <1>b, <1>c DEF Facts, Distinct, Inv, BootOK, Recovering
<1>8. PinnedWhileLogged'
  BY <1>a, <1>b, <1>c DEF Facts, Distinct, LhType, TailType, Empty, Inv, PinnedWhileLogged,
      Logged, Recovering
<1>9. TypeOK'
  <2>1. logd' \in [Slots -> Values]
    BY <1>b, <1>c, <1>d, <1>e DEF Inv, TypeOK
  <2>2. blk' \in [Procs -> Blocks \cup {NoBlock}]
    BY <1>e DEF Inv, TypeOK
  <2>3. tail' \in Nat
    BY SMTT(30), Z3T(60), <1>e DEF Facts, TailType
  <2> QED BY <1>e, <2>1, <2>2, <2>3 DEF Inv, TypeOK
<1>10. CopyOK'
  <2>1. \A q \in Procs : pc'[q] \notin {"install", "recover"}
    BY <1>a DEF Working
  <2>2. 1..tail + 1 \subseteq Slots
    BY SMTT(30), Z3T(60), <1>b, LogAssumption DEF Facts, TailType, Slots, size
  <2>3. \A i \in 1..tail : i \in 1..tail + 1 /\ i # tail + 1 /\ logd[i] = data[lh[i]]
    BY SMTT(30), Z3T(60), <1>a DEF Facts, TailType, Inv, CopyOK
  <2>4. \A i \in 1..tail + 1 : i = tail + 1 \/ i \in 1..tail
    BY SMTT(30), Z3T(60) DEF Facts, TailType
  <2>5. \A i \in 1..tail + 1 : logd'[i] = data[lh[i]]
    BY SMTT(30), Z3T(60), <1>b, <2>2, <2>3, <2>4
  <2> QED BY <2>1, <2>5 DEF CopyOK
<1> QED BY <1>1, <1>2, <1>3, <1>4, <1>5, <1>6, <1>7, <1>8, <1>9, <1>10 DEF Inv

\* write_head commits: it writes the header.
LEMMA WriteHeadKeeps == ASSUME Inv, NEW p \in Procs, write_head(p) PROVE Inv'
<1> Facts BY InvFacts
<1> UNCHANGED <<home, logd, data, dirty, lh, outstanding, committing, blk, tx, left>>
  BY DEF write_head, ondisk, cache, log, procs
<1> /\ \A q \in Procs : pc'[q] = IF q = p THEN IF lh = <<>> THEN "end" ELSE "install" ELSE pc[q]
    /\ head' = lh /\ tail' = 0
  BY DEF Facts, Distinct, PcType, write_head
<1> /\ pc[p] = "write_log" /\ tail = Len(lh) /\ tx = {} /\ committing /\ ~Recovering /\ head = <<>>
    /\ \A q \in Procs : pc[q] \in Working => q = p
  BY DEF Facts, LhType, write_head, Inv, PhaseOK, HeadOK, Working
<1>1. RoomOK'
  BY DEF Inv, RoomOK, Reserved
<1>2. PhaseOK'
  BY DEF Facts, Distinct, TxType, Inv, PhaseOK, Working, Users, Recovering
<1>3. HeadOK'
  BY SMTT(30), Z3T(60) DEF Facts, Distinct, LhType, HeadType, TailType, Empty, Inv, HeadOK, Working, Committers,
      Recovering
<1>4. RefOK'
  BY SMTT(30), Z3T(60) DEF Facts, Distinct, LhType, TailType, Inv, RefOK, Users, Committers, Working, Recovering
<1>5. LockOK'
  BY DEF Facts, Users, Distinct, RefBlock, Inv, LockOK, Holders, Recovering
<1>6. PendingOK'
  BY DEF Facts, Distinct, Inv, PendingOK, Logged, Recovering
<1>7. CleanOK'
  BY SMTT(30), Z3T(60) DEF Facts, Distinct, Empty, Inv, CleanOK, Logged, Recovering
<1>8. CopyOK'
  BY SMTT(30), Z3T(60) DEF Facts, Distinct, LhBlock, LogPinned, TailType, LhType, Inv, CopyOK, Recovering
<1>9. BootOK'
  BY DEF Facts, Distinct, Inv, BootOK, Recovering
<1>10. PinnedWhileLogged'
  BY SMTT(30), Z3T(60) DEF Facts, Distinct, LhType, TailType, Empty, Inv, PinnedWhileLogged, Logged, Recovering
<1>11. SleepersHaveReason'
  BY LogAssumption DEF Facts, Distinct, LhType, OutType, Empty, Inv, SleepersHaveReason, Busy,
      Recovering
<1>12. TypeOK'
  BY SMTT(30), Z3T(60), LogAssumption DEF Facts, PcType, LhType, write_head, Inv, TypeOK, States, size
<1> QED BY <1>1, <1>2, <1>3, <1>4, <1>5, <1>6, <1>7, <1>8, <1>9, <1>10, <1>11, <1>12 DEF Inv

\* install_trans copies one block from the log to its home and unpins it.
LEMMA InstallTransKeeps == ASSUME Inv, NEW p \in Procs, install_trans(p) PROVE Inv'
<1> Facts BY InvFacts
<1> UNCHANGED <<logd, head, lh, outstanding, committing, pc, tx, left>>
  BY DEF install_trans, ondisk, cache, log, procs, Copied
<1>a. /\ pc[p] \in {"install", "recover"} /\ tx = {} /\ head = lh
      /\ \A q \in Procs : pc[q] \in Working => q = p
  BY DEF install_trans, Inv, PhaseOK, HeadOK, Working, Recovering
<1>b. tail < Len(lh) /\ tail + 1 \in 1..Len(lh) /\ blk[p] = lh[tail + 1] /\ blk[p] \in Blocks /\ tail + 1 \in Slots
  <2>1. blk[p] # NoBlock /\ ~(pc[p] \in Users)
    BY <1>a DEF install_trans, Copied, Users
  <2>2. tail < Len(lh) /\ blk[p] = lh[tail + 1] /\ blk[p] \in Blocks
    BY <2>1 DEF Inv, TypeOK, RefOK, NoBlock
  <2> QED BY <2>2, NextSlot
<1>c. /\ home' = [home EXCEPT ![blk[p]] = logd[tail + 1]] /\ data' = [data EXCEPT ![blk[p]] = logd[tail + 1]]
      /\ logd[tail + 1] \in Values /\ dirty' = dirty \ {blk[p]}
  BY <1>b DEF install_trans, Inv, TypeOK
<1>d. /\ tail' = tail + 1 /\ blk' = [blk EXCEPT ![p] = NoBlock]
      /\ UNCHANGED <<logd, head, lh, outstanding, committing, pc, tx, left, crashes>>
  BY DEF install_trans, Copied
<1>e. \A i \in 1..Len(lh) : lh[i] = blk[p] => i = tail + 1
  BY <1>b DEF Inv, HeadOK
<1> /\ \A q \in Procs : blk'[q] = IF q = p THEN NoBlock ELSE blk[q]
    /\ \A c \in Blocks : home'[c] = IF c = blk[p] THEN logd[tail + 1] ELSE home[c]
    /\ \A c \in Blocks : data'[c] = IF c = blk[p] THEN logd[tail + 1] ELSE data[c]
    /\ tail' = tail + 1 /\ dirty' = dirty \ {blk[p]} /\ logd[tail + 1] # NoData
  BY <1>c, <1>d DEF Facts, Distinct, BlkType, HomeType, DataType, install_trans, Copied
<1>1. PhaseOK' /\ RoomOK' /\ SleepersHaveReason'
  <2>1. PhaseOK' BY SMTT(30), Z3T(60) DEF Inv, PhaseOK, Recovering
  <2>2. RoomOK' BY SMTT(30), Z3T(60) DEF Inv, RoomOK, Reserved
  <2>3. SleepersHaveReason' BY SMTT(30), Z3T(60) DEF Inv, SleepersHaveReason, Busy, Recovering
  <2> QED BY <2>1, <2>2, <2>3
<1>2. RefOK'
  <2>1. \A q \in Procs : q # p /\ pc[q] \notin Users => blk[q] = NoBlock
    BY <1>a DEF Inv, RefOK, Committers, Working
  <2>2. pc[p] \notin Users BY <1>a DEF Users
  <2> QED BY <2>1, <2>2 DEF Inv, RefOK
<1>3. LockOK'
  <2>1. \A q \in Procs : pc[q] \in Holders => q # p /\ blk'[q] = blk[q] /\ blk[q] \in Blocks
    BY <1>a DEF Holders, Users, Facts, RefBlock
  <2>2. \A q \in Procs : pc[q] \in Holders => data'[blk[q]] # NoData
    BY <2>1 DEF Inv, LockOK
  <2> QED BY <2>1, <2>2 DEF Inv, LockOK
<1>4. PendingOK'
  BY SMTT(30), Z3T(60), <1>a, <1>b, <1>e DEF Facts, Distinct, Inv, PendingOK, Logged, Recovering
<1>5. CleanOK'
  BY SMTT(30), Z3T(60), <1>a, <1>b, <1>e DEF Facts, Distinct, Empty, Inv, CleanOK, Logged, Recovering
<1>6. BootOK'
  BY <1>a, <1>b, <1>e DEF Facts, Distinct, Inv, BootOK, Recovering, Working
<1>7. TypeOK'
  <2>1. home' \in [Blocks -> Values] /\ data' \in [Blocks -> Values \cup {NoData}] /\ dirty' \subseteq Blocks
    BY <1>b, <1>c DEF Inv, TypeOK
  <2>2. blk' \in [Procs -> Blocks \cup {NoBlock}]
    BY <1>d DEF Inv, TypeOK
  <2>3. tail' \in Nat
    BY SMTT(30), Z3T(60), <1>d DEF Facts, TailType
  <2> QED BY <1>d, <2>1, <2>2, <2>3 DEF Inv, TypeOK
<1>8. HeadOK'
  <2>1. tail + 1 <= Len(lh) BY <1>b, NextSlot
  <2> QED BY SMTT(30), Z3T(60), <2>1 DEF Inv, HeadOK, Recovering
<1>9. CopyOK'
  <2>1. \A i \in 1..Len(lh) : data'[lh[i]] \in {NoData, logd[i]}
    <3>1. \A i \in 1..Len(lh) : data[lh[i]] \in {NoData, logd[i]} BY <1>a DEF Inv, CopyOK
    <3>2. \A i \in 1..Len(lh) : lh[i] \in Blocks BY DEF Facts, LhBlock
    <3> QED BY <3>1, <3>2, <1>b, <1>e
  <2>2. \A i \in 1..tail + 1 : home'[lh[i]] = logd[i]
    <3>1. \A i \in 1..tail : home[lh[i]] = logd[i]
      BY <1>a DEF Inv, CopyOK
    <3>2. \A i \in 1..tail + 1 : i \in 1..Len(lh) /\ (i \in 1..tail \/ i = tail + 1)
      BY SMTT(30), Z3T(60), <1>b DEF Facts, TailType, LhType
    <3> QED BY SMTT(30), Z3T(60), <1>b, <1>e, <3>1, <3>2 DEF Facts, LhBlock
  <2> QED BY <2>1, <2>2, <1>a, <1>d DEF CopyOK, Working
<1>10. PinnedWhileLogged'
  <2>1. \A b \in dirty' : Logged(b)' /\ data'[b] # NoData
    <3>1. \A b \in dirty : b \in Blocks /\ Logged(b) /\ data[b] # NoData
      <4>1. \A b : Logged(b) => b \in Blocks BY DEF Logged, Facts, LhBlock
      <4> QED BY <4>1 DEF Inv, PinnedWhileLogged
    <3> QED BY <3>1, <1>d DEF Logged
  <2>2. ~Recovering => \A i \in 1..Len(lh) : lh[i] \in dirty' <=> i > tail + 1
    <3>1. \A i \in 1..Len(lh) : i > tail + 1 <=> i > tail /\ i # tail + 1
      BY Behind DEF Facts, TailType, LhType
    <3>2. head # <<>> BY <1>a, <1>b, NoPlaces
    <3>3. ~Recovering => \A i \in 1..Len(lh) : lh[i] \in dirty <=> i > tail
      BY <3>2 DEF Inv, PinnedWhileLogged
    <3> QED BY <3>1, <3>3, <1>b, <1>e
  <2>3. head' # <<>> /\ lh' = lh /\ Recovering' = Recovering
    BY <1>a, <1>b, <1>d, NoPlaces DEF Recovering
  <2> QED BY <2>1, <2>2, <2>3, <1>d DEF PinnedWhileLogged
<1> QED BY <1>1, <1>2, <1>3, <1>4, <1>5, <1>6, <1>7, <1>8, <1>9, <1>10 DEF Inv

\* The header is cleared when all blocks are installed.
LEMMA ClearKeeps == ASSUME Inv, NEW p \in Procs, clear(p) PROVE Inv'
<1> Facts BY InvFacts
<1> UNCHANGED <<home, logd, data, dirty, outstanding, committing, blk, tx, left>>
  BY DEF clear, ondisk, cache, log, procs
<1> /\ \A q \in Procs : pc'[q] = IF q = p THEN IF pc[p] = "install" THEN "end" ELSE "idle" ELSE pc[q]
    /\ lh' = <<>> /\ head' = <<>> /\ tail' = 0
  BY DEF Facts, Distinct, PcType, clear
<1> /\ pc[p] \in {"install", "recover"} /\ blk[p] = NoBlock /\ tail = Len(lh) /\ tx = {} /\ head = lh
    /\ (pc[p] = "recover" => p = initproc /\ \A q \in Procs : q # p => pc[q] = "idle")
    /\ (pc[p] = "install" => committing /\ ~Recovering)
    /\ \A q \in Procs : pc[q] \in Working => q = p
    /\ \A q \in Procs : pc[q] # "modified"
  BY DEF Facts, Distinct, clear, Inv, PhaseOK, HeadOK, Working, Recovering
<1>1. PhaseOK'
  BY DEF Facts, Distinct, TxType, Inv, PhaseOK, Working, Users, Recovering
<1>2. HeadOK'
  BY SMTT(30), Z3T(60) DEF Facts, Distinct, LhType, HeadType, TailType, Empty, Inv, HeadOK, Working, Committers,
      Recovering
<1>3. RefOK'
  BY DEF Facts, Distinct, LhType, TailType, Inv, RefOK, Users, Committers, Working, Recovering
<1>4. LockOK'
  BY DEF Facts, Users, Distinct, RefBlock, Inv, LockOK, Holders, Recovering
<1>5. PendingOK'
  BY DEF Facts, Distinct, Inv, PendingOK, Logged, Recovering
<1>6. CopyOK'
  BY SMTT(30), Z3T(60) DEF Facts, Distinct, LhBlock, LogPinned, TailType, LhType, Inv, CopyOK, Recovering
<1>7. BootOK'
  BY DEF Facts, Distinct, Inv, BootOK, Recovering
<1>8. RoomOK'
  BY DEF Facts, Distinct, Inv, RoomOK, Reserved, Recovering
<1>9. SleepersHaveReason'
  BY LogAssumption DEF Facts, Distinct, LhType, OutType, Empty, Inv, SleepersHaveReason, Busy,
      Recovering
<1>10. TypeOK'
  BY SMTT(30), Z3T(60), LogAssumption DEF Facts, PcType, LhType, clear, Inv, TypeOK, States, size
<1>11. CleanOK'
  <2>1. \A b \in Blocks : data[b] \in {NoData, home[b]}
    <3> TAKE b \in Blocks
    <3>1. CASE Logged(b)
      <4>1. PICK i \in 1..Len(lh) : lh[i] = b BY <3>1 DEF Logged
      <4>2. data[lh[i]] \in {NoData, logd[i]} /\ home[lh[i]] = logd[i] BY DEF Inv, CopyOK
      <4> QED BY <4>1, <4>2
    <3>2. CASE ~Logged(b) BY <3>2 DEF Inv, CleanOK
    <3> QED BY <3>1, <3>2
  <2> QED BY <2>1 DEF CleanOK
<1>12. PinnedWhileLogged'
  <2>1. dirty = {}
    <3>1. CASE Recovering BY <3>1 DEF Inv, BootOK
    <3>2. CASE ~Recovering
      <4>1. ASSUME NEW i \in 1..Len(lh) PROVE lh[i] \notin dirty
        <5>1. Len(lh) \in Nat BY DEF Facts, LhType
        <5>2. ~(i > tail) BY <5>1, Within
        <5>3. head # <<>> BY DEF Facts, Empty
        <5> QED BY <3>2, <5>2, <5>3 DEF Inv, PinnedWhileLogged
      <4>2. \A b \in dirty : Logged(b) BY DEF Inv, PinnedWhileLogged
      <4> QED BY <4>1, <4>2 DEF Logged
    <3> QED BY <3>1, <3>2
  <2> QED BY <2>1 DEF Facts, Empty, PinnedWhileLogged
<1> QED BY <1>1, <1>2, <1>3, <1>4, <1>5, <1>6, <1>7, <1>8, <1>9, <1>10, <1>11, <1>12 DEF Inv

\* end_op ends the commit and wakes the operations that wait.
LEMMA EndCommitKeeps == ASSUME Inv, NEW p \in Procs, end_commit(p) PROVE Inv'
<1> Facts BY InvFacts
<1> UNCHANGED <<home, logd, head, data, dirty, lh, outstanding, tail, blk, tx, left>>
  BY DEF end_commit, ondisk, cache, log, procs
<1> /\ committing' = FALSE /\ pc'[p] = "idle"
    /\ \A q \in Procs : q # p => pc'[q] = IF pc[q] = "sleep" THEN "begin" ELSE pc[q]
  BY DEF Facts, Distinct, PcType, end_commit, Wakeup
<1> /\ pc[p] = "end" /\ tx = {} /\ lh = <<>> /\ committing /\ ~Recovering
    /\ \A q \in Procs : pc[q] \in Working => q = p
    /\ head = <<>>
  BY DEF Facts, Distinct, end_commit, Inv, PhaseOK, HeadOK, Working
<1>1. RoomOK'
  BY DEF Inv, RoomOK, Reserved
<1>2. PhaseOK'
  BY SMTT(30), Z3T(60) DEF Facts, Distinct, TxType, Inv, PhaseOK, Working, Users, Recovering
<1>3. HeadOK'
  BY DEF Facts, Distinct, LhType, HeadType, TailType, Empty, Inv, HeadOK, Working, Committers,
      Recovering
<1>4. RefOK'
  BY DEF Facts, Distinct, LhType, TailType, Inv, RefOK, Users, Committers, Working, Recovering
<1>5. LockOK'
  BY DEF Facts, Users, Distinct, RefBlock, Inv, LockOK, Holders, Recovering
<1>6. PendingOK'
  BY DEF Facts, Distinct, Inv, PendingOK, Logged, Recovering
<1>7. CleanOK'
  BY SMTT(30), Z3T(60) DEF Facts, Distinct, Empty, Inv, CleanOK, Logged, Recovering
<1>8. CopyOK'
  BY SMTT(30), Z3T(60) DEF Facts, Distinct, LhBlock, LogPinned, TailType, LhType, Inv, CopyOK, Recovering
<1>9. BootOK'
  BY DEF Facts, Distinct, Inv, BootOK, Recovering
<1>10. PinnedWhileLogged'
  BY DEF Facts, Distinct, LhType, TailType, Empty, Inv, PinnedWhileLogged, Logged, Recovering
<1>11. SleepersHaveReason'
  BY LogAssumption DEF Facts, Distinct, LhType, OutType, Empty, Inv, SleepersHaveReason, Busy,
      Recovering
<1>12. TypeOK'
  BY Zenon DEF Facts, PcType, end_commit, Wakeup, Inv, TypeOK, States
<1> QED BY <1>1, <1>2, <1>3, <1>4, <1>5, <1>6, <1>7, <1>8, <1>9, <1>10, <1>11, <1>12 DEF Inv

\* Recovery reads the header.
LEMMA ReadHeadKeeps == ASSUME Inv, NEW p \in Procs, read_head(p) PROVE Inv'
<1> Facts BY InvFacts
<1> UNCHANGED <<home, logd, head, data, dirty, outstanding, committing, blk, tx, left>>
  BY DEF read_head, ondisk, cache, log, procs
<1> /\ \A q \in Procs : pc'[q] = IF q = p THEN "recover" ELSE pc[q]
    /\ lh' = head /\ tail' = 0
  BY DEF Facts, Distinct, PcType, read_head
<1> /\ p = initproc /\ pc[p] = "read_head" /\ tx = {} /\ ~committing /\ Recovering
    /\ \A q \in Procs : q # p => pc[q] = "idle"
    /\ dirty = {} /\ \A b \in Blocks : data[b] = NoData
  BY DEF Facts, Distinct, read_head, Inv, PhaseOK, BootOK, Recovering
<1>1. PhaseOK'
  BY DEF Facts, Distinct, TxType, HeadBlock, Inv, PhaseOK, Working, Users, Recovering
<1>2. HeadOK'
  BY SMTT(30), Z3T(60) DEF Facts, Distinct, LhType, HeadType, TailType, Empty, HeadBlock, Inv, HeadOK, Working,
      Committers, Recovering
<1>3. RefOK'
  BY DEF Facts, Distinct, LhType, TailType, HeadBlock, Inv, RefOK, Users, Committers, Working,
      Recovering
<1>4. LockOK'
  BY DEF Facts, Users, Distinct, RefBlock, HeadBlock, Inv, LockOK, Holders, Recovering
<1>5. PendingOK'
  BY DEF Facts, Distinct, HeadBlock, Inv, PendingOK, Logged, Recovering
<1>6. CleanOK'
  BY DEF CleanOK
<1>7. CopyOK'
  BY SMTT(30), Z3T(60) DEF Facts, Distinct, LhBlock, LogPinned, TailType, LhType, HeadBlock, Inv, CopyOK, Recovering
<1>8. BootOK'
  BY DEF Facts, Distinct, HeadBlock, Inv, BootOK, Recovering
<1>9. PinnedWhileLogged'
  BY DEF Facts, Distinct, LhType, TailType, Empty, HeadBlock, Inv, PinnedWhileLogged, Logged,
      Recovering
<1>10. RoomOK'
  BY DEF Facts, Distinct, HeadBlock, Inv, RoomOK, Reserved, Recovering
<1>11. SleepersHaveReason'
  BY LogAssumption DEF Facts, Distinct, LhType, OutType, Empty, HeadBlock, Inv,
      SleepersHaveReason, Busy, Recovering
<1>12. TypeOK'
  BY SMTT(30), Z3T(60), LogAssumption DEF Facts, PcType, LhType, read_head, Inv, TypeOK, States, size
<1> QED BY <1>1, <1>2, <1>3, <1>4, <1>5, <1>6, <1>7, <1>8, <1>9, <1>10, <1>11, <1>12 DEF Inv

\* A step that changes nothing keeps the invariant.
LEMMA StutterKeeps == ASSUME Inv, UNCHANGED vars PROVE Inv'
<1>u. UNCHANGED <<home, logd, head, data, dirty, lh, outstanding, committing, tail, pc, blk, tx, left>>
  BY DEF vars, ondisk, cache, log, procs
<1>1. TypeOK'
  BY <1>u DEF Inv, TypeOK
<1>2. PhaseOK'
  BY <1>u DEF Inv, PhaseOK, Recovering
<1>3. HeadOK'
  BY SMTT(30), Z3T(60), <1>u DEF Inv, HeadOK, Recovering
<1>4. RefOK'
  BY <1>u DEF Inv, RefOK
<1>5. LockOK'
  BY <1>u DEF Inv, LockOK
<1>6. PendingOK'
  BY <1>u DEF Inv, PendingOK, Logged
<1>7. CleanOK'
  BY <1>u DEF Inv, CleanOK, Logged
<1>8. CopyOK'
  BY <1>u DEF Inv, CopyOK
<1>9. BootOK'
  BY <1>u DEF Inv, BootOK, Recovering
<1>10. PinnedWhileLogged'
  BY <1>u DEF Inv, PinnedWhileLogged, Recovering, Logged
<1>11. RoomOK'
  BY <1>u DEF Inv, RoomOK, Reserved
<1>12. SleepersHaveReason'
  BY <1>u DEF Inv, SleepersHaveReason, Busy
<1> QED BY <1>1, <1>2, <1>3, <1>4, <1>5, <1>6, <1>7, <1>8, <1>9, <1>10, <1>11, <1>12 DEF Inv

(***************************************************************************)
(* All steps                                                               *)
(***************************************************************************)
\* Every step of the cache, of the operations, of commit and of recovery, and a
\* crash, keeps it.
LEMMA StepInv == Counting => (Inv /\ [Next]_vars => Inv')
<1> SUFFICES ASSUME Counting, Inv, [Next]_vars PROVE Inv' OBVIOUS
<1>1. ASSUME NEW p \in Procs, CacheStep(p) PROVE Inv'
  BY <1>1, BgetKeeps, BreadKeeps, BrelseKeeps DEF CacheStep
<1>2. ASSUME NEW p \in Procs, OpStep(p) PROVE Inv'
  BY <1>2, BeginOpKeeps, ModifyKeeps, LogWriteKeeps, EndOpKeeps DEF OpStep
<1>3. ASSUME NEW p \in Procs, CommitStep(p) PROVE Inv'
  BY <1>3, CopyBgetKeeps, WriteLogKeeps, WriteHeadKeeps, InstallTransKeeps, ClearKeeps,
     EndCommitKeeps, ReadHeadKeeps DEF CommitStep
<1> QED BY <1>1, <1>2, <1>3, RecycleKeeps, CrashKeeps, StutterKeeps DEF Next

\* The invariant implies the properties that the runs check: the operations leave
\* room for two blocks, and when nothing is in progress the log is empty.
LEMMA InvSafe == Counting => (Inv => LogHasRoom /\ DurableWhenIdle)
<1> SUFFICES ASSUME Counting, Inv PROVE LogHasRoom /\ DurableWhenIdle OBVIOUS
<1>1. LogHasRoom
  <2> SUFFICES ASSUME tx # {} PROVE Len(lh) + Cardinality(Reserved) < size - 1 BY DEF LogHasRoom
  <2>0. IsFiniteSet(tx) /\ outstanding = Cardinality(tx) /\ outstanding \in Nat
    BY DEF Inv, TypeOK, RoomOK
  <2>1. outstanding # 0
    BY <2>0 DEF Counting, Elements
  <2>2. Len(lh) \in Nat
    BY SMTT(30), Z3T(60) DEF Inv, TypeOK
  <2>4. tx \in SUBSET Procs /\ left \in [Procs -> 0..OpBlocks]
    BY DEF Inv, TypeOK
  <2>5. Cardinality(Reserved) \in Nat
    BY <2>0, <2>4, ReservedFinite DEF Reserved
  <2>3. Len(lh) + Cardinality(Reserved) + 2 * outstanding <= LOGSIZE
    BY DEF Inv, RoomOK
  <2> QED BY SMTT(30), Z3T(60), <2>0, <2>1, <2>2, <2>3, <2>5, LogAssumption DEF size
<1>2. DurableWhenIdle
  <2> SUFFICES ASSUME tx = {}, ~committing, ~Recovering PROVE Safe = [b \in Blocks |-> Contents(b)]
    BY DEF DurableWhenIdle, Cur
  <2>1. lh = <<>> /\ head = <<>>
    BY DEF Inv, PhaseOK, HeadOK
  <2>2. \A b \in Blocks : data[b] \in {NoData, home[b]}
    BY SMTT(30), Z3T(60), <2>1 DEF Inv, PhaseOK, CleanOK, Logged
  <2>3. \A b \in Blocks : Contents(b) = home[b]
    BY <2>2 DEF Contents
  <2>4. Safe = [b \in Blocks |-> home[b]]
    BY <2>1, NoPlaces DEF Safe
  <2> QED BY <2>3, <2>4
<1> QED BY <1>1, <1>2

(***************************************************************************)
(* The refinement of atomic transactions                                   *)
(***************************************************************************)
\* What recovery would leave in block b: the copy in the log if the header names b.
LEMMA SafeValue ==
  ASSUME NEW h \in Seq(Blocks), \A i, j \in 1..Len(h) : h[i] = h[j] => i = j, NEW l, NEW m, NEW b \in Blocks
  PROVE  LET s == IF \E i \in 1..Len(h) : h[i] = b THEN l[CHOOSE i \in 1..Len(h) : h[i] = b] ELSE m[b]
         IN  /\ \A i \in 1..Len(h) : h[i] = b => s = l[i]
             /\ (\A i \in 1..Len(h) : h[i] # b) => s = m[b]
OBVIOUS

\* The same for the state's own header.
LEMMA SafeAt ==
  ASSUME TypeOK, HeadOK
  PROVE  /\ \A i \in 1..Len(head) : Safe[head[i]] = logd[i]
         /\ \A b \in Blocks : (\A i \in 1..Len(head) : head[i] # b) => Safe[b] = home[b]
<1>1. head \in Seq(Blocks) /\ \A i, j \in 1..Len(head) : head[i] = head[j] => i = j
  BY DEF TypeOK, HeadOK
<1> QED BY SMTT(30), Z3T(60), <1>1, SafeValue DEF Safe

\* The blocks that the header names are all home: recovery would change nothing.
LEMMA Installed ==
  ASSUME Inv, NEW p \in Procs, pc[p] \in {"install", "recover"}, tail = Len(lh)
  PROVE  Safe = [b \in Blocks |-> home[b]] /\ \A b \in Blocks : Contents(b) = home[b]
<1>1. head = lh /\ tx = {} /\ \A q \in Procs : pc[q] # "modified"
  BY DEF Inv, PhaseOK, HeadOK, Working, Recovering
<1>2. \A i \in 1..Len(lh) : home[lh[i]] = logd[i] /\ data[lh[i]] \in {NoData, logd[i]}
  BY DEF Inv, CopyOK
<1>3. ASSUME NEW b \in Blocks PROVE Safe[b] = home[b] /\ Contents(b) = home[b]
  <2>1. CASE Logged(b)
    <3>1. PICK i \in 1..Len(lh) : lh[i] = b BY <2>1 DEF Logged
    <3>2. Safe[b] = logd[i] BY <1>1, <3>1, SafeAt DEF Inv
    <3> QED BY <1>2, <3>1, <3>2 DEF Contents
  <2>2. CASE ~Logged(b)
    <3>1. Safe[b] = home[b] BY <1>1, <2>2, SafeAt DEF Inv, Logged
    <3>2. data[b] \in {NoData, home[b]} BY <1>1, <2>2 DEF Inv, CleanOK
    <3> QED BY <3>1, <3>2 DEF Contents
  <2> QED BY <2>1, <2>2
<1>4. Safe = [b \in Blocks |-> Safe[b]] BY Zenon DEF Safe
<1> QED BY <1>3, <1>4

\* Nothing is seen of a step that changes neither the disk nor what reads return.
LEMMA Quiet ==
  ASSUME UNCHANGED ondisk, Recovering' <=> Recovering, Recovering \/ \A b \in Blocks : Contents(b)' = Contents(b)
  PROVE  Safe' = Safe /\ Cur' = Cur
<1>1. Safe' = Safe BY DEF Safe, ondisk
<1>2. CASE Recovering BY <1>1, <1>2 DEF Cur
<1>3. CASE ~Recovering
  <2>1. [b \in Blocks |-> Contents(b)'] = [b \in Blocks |-> Contents(b)] BY <1>3
  <2> QED BY <1>1, <1>3, <2>1 DEF Cur
<1> QED BY <1>2, <1>3

\* Recycling a buffer drops nothing that is not on disk.
LEMMA RecycleQuiet ==
  ASSUME Inv, NEW b \in Blocks, recycle(b)
  PROVE  UNCHANGED <<Cur, Safe, tx>>
<1>1. ASSUME ~Recovering PROVE data[b] = home[b]
  <2>1. CASE Logged(b)
    <3>1. PICK i \in 1..Len(lh) : lh[i] = b BY <2>1 DEF Logged
    <3>2. head # <<>> /\ i <= tail
      BY SMTT(30), Z3T(60), <1>1, <3>1 DEF recycle, Inv, TypeOK, PinnedWhileLogged
    <3>3. PICK p \in Procs : pc[p] = "install"
      BY <1>1, <3>2 DEF Inv, HeadOK
    <3>4. i \in 1..tail BY SMTT(30), Z3T(60), <3>1, <3>2 DEF Inv, TypeOK
    <3> QED BY <3>1, <3>3, <3>4 DEF recycle, Inv, CopyOK
  <2>2. CASE ~Logged(b)
    BY <2>2 DEF recycle, Inv, CleanOK
  <2> QED BY <2>1, <2>2
<1>2. Recovering \/ \A c \in Blocks : Contents(c)' = Contents(c)
  BY <1>1 DEF recycle, Contents, ondisk, Inv, TypeOK
<1>3. UNCHANGED <<ondisk, Recovering, tx>>
  BY DEF recycle, procs, Recovering
<1> QED BY <1>2, <1>3, Quiet

\* Nor does reading a block, waiting for one, releasing one or logging one.
LEMMA CacheQuiet ==
  ASSUME Inv, NEW p \in Procs,
         CacheStep(p) \/ log_write(p) \/ copy_bget(p) \/ end_commit(p) \/ read_head(p)
  PROVE  UNCHANGED <<Cur, Safe, tx>>
<1>1. UNCHANGED <<ondisk, tx>>
  BY DEF CacheStep, bread, brelse, bget, log_write, copy_bget, end_commit, read_head
<1>2. Recovering' <=> Recovering
  <2>1. pc \in [Procs -> States] /\ initproc \in Procs
    BY InvFacts DEF Facts, PcType, Distinct
  <2>2. CASE CacheStep(p) \/ log_write(p)
    BY <2>1, <2>2 DEF Recovering, CacheStep, bread, brelse, bget, log_write
  <2>3. CASE copy_bget(p) \/ end_commit(p) \/ read_head(p)
    BY <2>1, <2>3 DEF Recovering, copy_bget, end_commit, read_head, Wakeup
  <2> QED BY <2>2, <2>3
<1>3. \A b \in Blocks : Contents(b)' = Contents(b)
  <2>1. CASE bread(p)
    BY <2>1, LogAssumption DEF bread, Contents, ondisk, Inv, TypeOK
  <2>2. CASE ~bread(p)
    BY <2>2 DEF CacheStep, brelse, bget, log_write, copy_bget, end_commit, read_head, cache, ondisk, Contents
  <2> QED BY <2>1, <2>2
<1> QED BY <1>1, <1>2, <1>3, Quiet

\* An operation begins, writes a block and ends.
LEMMA OpRefines ==
  ASSUME Inv, NEW p \in Procs, begin_op(p) \/ end_op(p) \/ \E v \in Values : modify(p, v)
  PROVE  Transactions!Next \/ UNCHANGED <<Cur, Safe, tx>>
<1>1. ~Recovering /\ ~Recovering' /\ UNCHANGED ondisk
  BY SMTT(30), Z3T(60), LogAssumption DEF Inv, TypeOK, PhaseOK, Recovering, begin_op, end_op, modify, Wakeup
<1>2. CASE begin_op(p)
  <2>1. UNCHANGED <<Cur, Safe>>
    BY <1>1, <1>2, Quiet DEF begin_op, cache, ondisk, Contents
  <2>2. p \notin tx
    BY <1>2 DEF begin_op, Inv, PhaseOK, Users
  <2> QED BY <1>2, <2>1, <2>2 DEF begin_op, Transactions!Next, Transactions!Begin
<1>3. CASE end_op(p)
  <2>1. UNCHANGED <<Cur, Safe>>
    BY <1>1, <1>3, Quiet DEF end_op, cache, ondisk, Contents
  <2>2. p \in tx
    BY <1>3 DEF end_op, Inv, PhaseOK
  <2> QED BY <1>3, <2>1, <2>2 DEF end_op, Transactions!Next, Transactions!End
<1>4. ASSUME NEW v \in Values, modify(p, v) PROVE Transactions!Write(p, blk[p], v) /\ blk[p] \in Blocks
  <2>1. blk[p] \in Blocks
    BY <1>4 DEF modify, Inv, TypeOK, RefOK, Users
  <2>2. Safe' = Safe
    BY <1>1 DEF Safe, ondisk
  <2>3. \A b \in Blocks : Contents(b)' = IF b = blk[p] THEN v ELSE Contents(b)
    BY <1>1, <1>4, LogAssumption DEF modify, Contents, ondisk, Inv, TypeOK
  <2>4. [b \in Blocks |-> Contents(b)'] = [[b \in Blocks |-> Contents(b)] EXCEPT ![blk[p]] = v]
    BY <2>1, <2>3
  <2>5. Cur' = [Cur EXCEPT ![blk[p]] = v]
    BY <1>1, <2>4 DEF Cur
  <2> QED BY <1>4, <2>1, <2>2, <2>5 DEF Transactions!Write, modify
<1> QED BY <1>2, <1>3, <1>4 DEF Transactions!Next

\* Until the header is written the log on disk is empty.
LEMMA NothingYet ==
  ASSUME Inv, NEW p \in Procs, pc[p] = "write_log"
  PROVE  head = <<>> /\ tx = {} /\ ~Recovering /\ \A q \in Procs : pc[q] # "modified"
<1>1. committing BY DEF Inv, PhaseOK
<1>2. tx = {} /\ ~Recovering BY <1>1 DEF Inv, PhaseOK
<1> QED BY <1>2 DEF Inv, PhaseOK, HeadOK, Working

\* Copying a block into the log is not seen.
LEMMA CopyQuiet ==
  ASSUME Inv, NEW p \in Procs, write_log(p)
  PROVE  UNCHANGED <<Cur, Safe, tx>>
<1>1. head = <<>> /\ ~Recovering /\ head' = <<>> /\ ~Recovering' /\ home' = home /\ tx' = tx
  BY NothingYet DEF write_log, Recovering
<1>2. Safe = [b \in Blocks |-> home[b]] /\ Safe' = [b \in Blocks |-> home[b]]
  BY SMTT(30), Z3T(60), <1>1 DEF Safe
<1>3. \A b \in Blocks : Contents(b)' = Contents(b)
  BY <1>1, LogAssumption DEF write_log, Contents, Inv, TypeOK
<1>4. [b \in Blocks |-> Contents(b)'] = [b \in Blocks |-> Contents(b)] BY <1>3
<1> QED BY <1>1, <1>2, <1>4 DEF Cur

\* Writing the header makes everything durable at once.
LEMMA HeadCommits ==
  ASSUME Inv, NEW p \in Procs, write_head(p)
  PROVE  Transactions!Commit
<1>1. head = <<>> /\ tx = {} /\ ~Recovering /\ \A q \in Procs : pc[q] # "modified"
  BY NothingYet DEF write_head
<1>2. head' = lh /\ home' = home /\ logd' = logd /\ data' = data /\ tx' = tx /\ ~Recovering'
  BY <1>1, LogAssumption DEF write_head, cache, Inv, TypeOK, Recovering
<1>3. ASSUME NEW i \in 1..Len(lh) PROVE logd[i] = Contents(lh[i])
  <2>1. lh[i] \in dirty
    BY <1>1 DEF Inv, PinnedWhileLogged
  <2>2. data[lh[i]] # NoData
    BY <2>1 DEF Inv, PinnedWhileLogged
  <2>3. logd[i] = data[lh[i]]
    BY DEF write_head, Inv, CopyOK
  <2> QED BY <2>2, <2>3 DEF Contents
<1>4. ASSUME NEW b \in Blocks, ~Logged(b) PROVE home[b] = Contents(b)
  BY <1>1, <1>4 DEF Inv, CleanOK, Contents
<1>5. lh \in Seq(Blocks) /\ \A i, j \in 1..Len(lh) : lh[i] = lh[j] => i = j
  BY DEF Inv, TypeOK, HeadOK
<1> DEFINE s(b) == IF \E i \in 1..Len(lh) : lh[i] = b THEN logd[CHOOSE i \in 1..Len(lh) : lh[i] = b] ELSE home[b]
<1>6. ASSUME NEW b \in Blocks PROVE s(b) = Contents(b)
  <2>1. CASE Logged(b)
    <3>1. PICK i \in 1..Len(lh) : lh[i] = b BY <2>1 DEF Logged
    <3>2. s(b) = logd[i] BY <1>5, <3>1, SafeValue
    <3> QED BY <1>3, <3>1, <3>2
  <2>2. CASE ~Logged(b)
    BY <1>4, <2>2 DEF Logged
  <2> QED BY <2>1, <2>2
<1>7. Safe' = [b \in Blocks |-> s(b)]
  BY <1>2 DEF Safe
<1>8. Safe' = [b \in Blocks |-> Contents(b)]
  BY <1>6, <1>7
<1>9. Cur = [b \in Blocks |-> Contents(b)] /\ Cur' = Cur
  BY <1>1, <1>2 DEF Cur, Contents
<1> QED BY <1>1, <1>2, <1>8, <1>9 DEF Transactions!Commit

\* Copying a block of the log home is not seen: reads and recovery prefer the copy anyway.
LEMMA InstallQuiet ==
  ASSUME Inv, NEW p \in Procs, install_trans(p)
  PROVE  UNCHANGED <<Cur, Safe, tx>>
<1>1. head = lh /\ tail < Len(lh) /\ blk[p] = lh[tail + 1]
  BY DEF install_trans, Copied, Inv, HeadOK, RefOK, Users
<1>2. tail + 1 \in 1..Len(lh) /\ tail + 1 \in Slots BY <1>1, NextSlot
<1>3. lh[tail + 1] \in Blocks /\ logd[tail + 1] \in Values BY <1>1, NextSlot
<1>4. \A b \in Blocks : (\A i \in 1..Len(head) : head[i] # b) => home'[b] = home[b]
  BY <1>1, <1>2, <1>3 DEF install_trans, Inv, TypeOK
<1>5. UNCHANGED <<head, logd, pc, tx>>
  BY DEF install_trans
<1>6. Safe' = Safe
  BY <1>4, <1>5 DEF Safe
<1>7. CASE Recovering
  BY <1>5, <1>6, <1>7 DEF Cur, Recovering
<1>8. CASE ~Recovering
  <2>1. lh[tail + 1] \in dirty
    BY SMTT(30), Z3T(60), <1>2, <1>8 DEF Inv, TypeOK, PinnedWhileLogged
  <2>2. data[lh[tail + 1]] = logd[tail + 1]
    BY <1>2, <2>1 DEF install_trans, Inv, CopyOK, PinnedWhileLogged
  <2>3. \A b \in Blocks : Contents(b)' = Contents(b)
    BY <1>1, <1>3, <2>2, LogAssumption DEF install_trans, Contents, Inv, TypeOK
  <2>4. [b \in Blocks |-> Contents(b)'] = [b \in Blocks |-> Contents(b)] BY <2>3
  <2> QED BY <1>5, <1>6, <1>8, <2>4 DEF Cur, Recovering
<1> QED BY <1>7, <1>8

\* Nor is erasing the header once all its blocks are home.
LEMMA ClearQuiet ==
  ASSUME Inv, NEW p \in Procs, clear(p)
  PROVE  UNCHANGED <<Cur, Safe, tx>>
<1>1. Safe = [b \in Blocks |-> home[b]] /\ \A b \in Blocks : Contents(b) = home[b]
  BY Installed DEF clear
<1>2. head' = <<>> /\ UNCHANGED <<home, data, tx>>
  BY DEF clear, cache
<1>3. Safe' = Safe
  <2>1. Safe' = [b \in Blocks |-> home[b]]
    BY <1>2, NoPlaces DEF Safe
  <2> QED BY <1>1, <2>1
<1>4. [b \in Blocks |-> Contents(b)'] = Safe /\ [b \in Blocks |-> Contents(b)] = Safe
  BY <1>1, <1>2 DEF Contents
<1> QED BY <1>2, <1>3, <1>4 DEF Cur

\* A crash falls back on what is durable.
LEMMA CrashRefines == ASSUME crash PROVE Transactions!Crash
<1>1. Safe' = Safe
  BY DEF crash, Safe, ondisk
<1>2. Recovering' /\ tx' = {}
  BY LogAssumption DEF crash, Boot, Recovering
<1> QED BY <1>1, <1>2 DEF Cur, Transactions!Crash

\* Every step of the log is a step of the transactions or is not seen there.
LEMMA StepRefines == Inv /\ [Next]_vars => [Transactions!Next]_(Transactions!vars)
<1> SUFFICES ASSUME Inv, [Next]_vars PROVE Transactions!Next \/ UNCHANGED <<Cur, Safe, tx>>
  BY DEF Transactions!vars
<1>1. CASE UNCHANGED vars
  BY <1>1 DEF vars, ondisk, cache, procs, Cur, Safe, Recovering, Contents
<1>2. ASSUME NEW b \in Blocks, recycle(b) PROVE UNCHANGED <<Cur, Safe, tx>>
  BY <1>2, RecycleQuiet
<1>3. CASE crash
  BY <1>3, CrashRefines DEF Transactions!Next
<1>4. ASSUME NEW p \in Procs, CacheStep(p) \/ OpStep(p) \/ CommitStep(p)
      PROVE  Transactions!Next \/ UNCHANGED <<Cur, Safe, tx>>
  <2>1. CASE CacheStep(p) \/ log_write(p) \/ copy_bget(p) \/ end_commit(p) \/ read_head(p)
    BY <2>1, CacheQuiet
  <2>2. CASE begin_op(p) \/ end_op(p) \/ \E v \in Values : modify(p, v)
    BY <2>2, OpRefines
  <2>3. CASE write_log(p) BY <2>3, CopyQuiet
  <2>4. CASE write_head(p) BY <2>4, HeadCommits DEF Transactions!Next
  <2>5. CASE install_trans(p) BY <2>5, InstallQuiet
  <2>6. CASE clear(p) BY <2>6, ClearQuiet
  <2> QED BY <1>4, <2>1, <2>2, <2>3, <2>4, <2>5, <2>6 DEF OpStep, CommitStep
<1> QED BY <1>1, <1>2, <1>3, <1>4 DEF Next

(***************************************************************************)
(* The theorems                                                            *)
(***************************************************************************)
INSTANCE FiniteSetTheorems

\* The library has these facts.
LEMMA CountingHolds == Counting
<1>1. Elements
  <2>1. IsFiniteSet({}) /\ Cardinality({}) = 0 BY FS_EmptySet
  <2>2. ASSUME NEW S, IsFiniteSet(S)
        PROVE  /\ Cardinality(S) \in Nat /\ (Cardinality(S) = 0 <=> S = {})
               /\ \A x : x \in S => IsFiniteSet(S \ {x}) /\ Cardinality(S \ {x}) = Cardinality(S) - 1
               /\ \A x : x \notin S => IsFiniteSet(S \cup {x}) /\ Cardinality(S \cup {x}) = Cardinality(S) + 1
    BY <2>2, FS_CardinalityType, FS_EmptySet, FS_RemoveElement, FS_AddElement
  <2> QED BY <2>1, <2>2 DEF Elements
<1>2. Subsets BY FS_Subset DEF Subsets
<1>3. Products BY FS_Product DEF Products
<1>4. Intervals BY SMTT(30), Z3T(60), FS_Interval DEF Intervals
<1> QED BY <1>1, <1>2, <1>3, <1>4 DEF Counting

\* The invariant holds.
LEMMA Invariant == Spec => []Inv
<1>1. Init => Inv BY InitInv, CountingHolds
<1>2. Inv /\ [Next]_vars => Inv' BY StepInv, CountingHolds
<1> QED BY <1>1, <1>2, PTL DEF Spec

\* With any number of processes, blocks and crashes log_write never finds the log full:
\* what begin_op has reserved is there when the operation writes.
THEOREM LogNeverFull == Spec => []LogHasRoom
<1>1. Inv => LogHasRoom BY InvSafe, CountingHolds
<1> QED BY <1>1, Invariant, PTL

\* No process sleeps in begin_op without a reason: every change of what it waits for is
\* followed by the wakeup of end_op.
THEOREM LogSleepersHaveReason == Spec => []SleepersHaveReason
<1>1. Inv => SleepersHaveReason BY DEF Inv
<1> QED BY <1>1, Invariant, PTL

\* A logged buffer is pinned exactly as long as the log needs it: bget does not recycle it
\* before install_trans has written the block home.
THEOREM LoggedBuffersPinned == Spec => []PinnedWhileLogged
<1>1. Inv => PinnedWhileLogged BY DEF Inv
<1> QED BY <1>1, Invariant, PTL

\* When no operation is in progress and nothing is being committed or recovered, all that
\* was written is on the disk.
THEOREM IdleMeansDurable == Spec => []DurableWhenIdle
<1>1. Inv => DurableWhenIdle BY InvSafe, CountingHolds
<1> QED BY <1>1, Invariant, PTL

\* For any number of processes and blocks and any number of crashes, in the middle of a
\* commit or of a recovery, the log of log.c implements atomic transactions.
THEOREM LogAtomic == Spec => ImplementsTransactions
<1>1. Init => Transactions!Init
  <2> SUFFICES ASSUME Init PROVE Transactions!Init OBVIOUS
  <2>1. Recovering
    BY LogAssumption DEF Init, Recovering
  <2>2. Safe = [b \in Blocks |-> home[b]]
    BY NoPlaces DEF Init, Safe
  <2>3. Safe \in [Blocks -> Values] /\ Cur = Safe
    BY <2>1, <2>2 DEF Init, Cur
  <2> QED BY <2>3 DEF Init, Transactions!Init
<1> QED BY <1>1, Invariant, StepRefines, PTL DEF Spec, ImplementsTransactions, Transactions!Spec
=============================================================================
