--------------------------- MODULE CondVarProofs ---------------------------
(***************************************************************************)
(* Proofs about the programs of hw4 that wait on condition variables of    *)
(* their own.  Both readers-writer locks, for every set of readers and     *)
(* writers, with threads that lock once or again and again, with and       *)
(* without spurious wakeups: no lost wakeup; and the writer-preference     *)
(* lock with one writer that locks once: exclusion.  The thread pool       *)
(* master-worker.c, for every number of masters, workers, items and cells, *)
(* with and without spurious wakeups.                                      *)
(***************************************************************************)
EXTENDS RwLocks, MasterWorker, FiniteSetTheorems, TLAPS
(***************************************************************************)
(* The reader-preference lock                                              *)
(***************************************************************************)
\* The counters of struct rw_lock count the threads inside.
RCountsAgree == read_cnt = Cardinality(reading) /\ write_cnt = Cardinality(writing)

\* NoLostWakeup is not inductive alone: that a counter reaches 0 only when the
\* last thread leaves is what RCountsAgree adds.
RInv == R!TypeOK /\ RCountsAgree /\ R!NoLostWakeup

\* Zenon proves the steps that do not name another prover.  Those that need arithmetic or
\* Boolean-valued variables name two, the second for when the first runs out of time.
USE ZenonT(60)

\* The threads inside are finite sets.
LEMMA RFinite ==
  ASSUME R!TypeOK
  PROVE  /\ IsFiniteSet(reading) /\ Cardinality(reading) \in Nat
         /\ IsFiniteSet(writing) /\ Cardinality(writing) \in Nat
BY RwAssumption, FS_Subset, FS_CardinalityType DEF R!TypeOK

\* After a signal some thread is wwoken or nobody waits.
LEMMA RSignalEffect ==
  ASSUME R!TypeOK, R!r_cond!Signal
  PROVE  /\ wwaiters' \subseteq wwaiters /\ wwoken \subseteq wwoken'
         /\ wwaiters' \cup wwoken' = wwaiters \cup wwoken /\ wwaiters' \cap wwoken' = {}
         /\ wwaiters' # {} => wwoken' # {}
BY DEF R!r_cond!Signal, R!r_cond!cvars, R!TypeOK

\* init_rwlock establishes the invariant.
LEMMA InitRInv == R!Init => RInv
BY SMTT(30), Z3T(60), FS_EmptySet DEF R!Init, R!init_rwlock, R!r_cond!Init, RInv, R!TypeOK, RCountsAgree, R!NoLostWakeup

\* r_lock and r_unlock preserve the invariant: the reader that makes read_cnt 0
\* is the last one and signals.
LEMMA RReaderStep ==
  ASSUME RInv, NEW t \in Threads, R!r_lock(t) \/ R!r_unlock(t)
  PROVE  RInv'
<1>. USE RFinite, RwAssumption DEF RInv
<1>1. CASE R!r_lock(t)
  <2>. USE <1>1 DEF R!r_lock, R!Ready, R!Threads
  <2>1. R!TypeOK' BY SMTT(30), Z3T(60) DEF R!TypeOK
  <2>2. Cardinality(reading') = Cardinality(reading) + 1 BY FS_AddElement
  <2>. QED BY <2>1, <2>2 DEF RCountsAgree, R!NoLostWakeup, R!TypeOK
<1>2. CASE R!r_unlock(t)
  <2>. USE <1>2 DEF R!r_unlock
  <2>1. Cardinality(reading') = Cardinality(reading) - 1 BY FS_RemoveElement
  <2>2. Cardinality(reading) # 0 BY FS_EmptySet
  <2>3. read_cnt' \in Nat /\ RCountsAgree' BY SMTT(30), Z3T(60), <2>1, <2>2 DEF RCountsAgree, R!TypeOK
  <2>4. CASE read_cnt' = 0
    BY SMTT(30), Z3T(60), <2>3, <2>4, RSignalEffect DEF R!TypeOK, R!NoLostWakeup, R!Leave, R!Threads
  <2>5. CASE read_cnt' # 0
    <3>1. reading' # {} BY <2>3, <2>5, FS_EmptySet DEF RCountsAgree
    <3>. QED BY SMTT(30), Z3T(60), <2>3, <2>5, <3>1 DEF R!TypeOK, R!NoLostWakeup, R!Leave, R!Threads
  <2>. QED BY <2>4, <2>5
<1>. QED BY <1>1, <1>2

\* So do w_lock, also after a wait, and w_unlock.
LEMMA RWriterStep ==
  ASSUME RInv, NEW t \in Threads, R!w_lock(t) \/ R!w_lock_return(t) \/ R!w_unlock(t)
  PROVE  RInv'
<1>. USE RFinite, RwAssumption DEF RInv
<1>1. CASE R!w_lock(t) /\ (read_cnt > 0 \/ write_cnt > 0)
  <2>. USE <1>1 DEF R!w_lock, R!Ready, R!Threads, R!r_cond!Wait
  <2>1. R!TypeOK' /\ RCountsAgree' BY SMTT(30), Z3T(60) DEF R!TypeOK, RCountsAgree
  <2>2. reading \cup writing # {} BY SMTT(30), Z3T(60), FS_EmptySet DEF RCountsAgree, R!TypeOK
  <2>. QED BY <2>1, <2>2 DEF R!NoLostWakeup
<1>2. CASE R!w_lock(t) /\ ~(read_cnt > 0 \/ write_cnt > 0)
  <2>. USE <1>2 DEF R!w_lock, R!Ready, R!Threads, R!EnterWriter
  <2>1. R!TypeOK' BY SMTT(30), Z3T(60) DEF R!TypeOK
  <2>2. Cardinality(writing') = Cardinality(writing) + 1 BY FS_AddElement
  <2>. QED BY <2>1, <2>2 DEF RCountsAgree, R!NoLostWakeup, R!TypeOK
<1>3. CASE R!w_lock_return(t)
  <2>. USE <1>3 DEF R!w_lock_return, R!EnterWriter, R!r_cond!Return
  <2>0. t \notin writing BY DEF R!TypeOK
  <2>1. R!TypeOK' BY SMTT(30), Z3T(60) DEF R!TypeOK
  <2>2. Cardinality(writing') = Cardinality(writing) + 1 BY <2>0, FS_AddElement
  <2>. QED BY <2>1, <2>2 DEF RCountsAgree, R!NoLostWakeup, R!TypeOK
<1>4. CASE R!w_unlock(t)
  <2>. USE <1>4 DEF R!w_unlock
  <2>1. Cardinality(writing') = Cardinality(writing) - 1 BY FS_RemoveElement
  <2>2. Cardinality(writing) # 0 BY FS_EmptySet
  <2>3. write_cnt' \in Nat /\ RCountsAgree' BY SMTT(30), Z3T(60), <2>1, <2>2 DEF RCountsAgree, R!TypeOK
  <2>4. CASE write_cnt' = 0
    BY SMTT(30), Z3T(60), <2>3, <2>4, RSignalEffect DEF R!TypeOK, R!NoLostWakeup, R!Leave, R!Threads
  <2>5. CASE write_cnt' # 0
    <3>1. writing' # {} BY <2>3, <2>5, FS_EmptySet DEF RCountsAgree
    <3>. QED BY SMTT(30), Z3T(60), <2>3, <2>5, <3>1 DEF R!TypeOK, R!NoLostWakeup, R!Leave, R!Threads
  <2>. QED BY <2>4, <2>5
<1>. QED BY <1>1, <1>2, <1>3, <1>4

\* Every step of every thread preserves the invariant.
LEMMA StepRInv == RInv /\ [R!Next]_(R!vars) => RInv'
<1>. SUFFICES ASSUME RInv, [R!Next]_(R!vars) PROVE RInv'
  OBVIOUS
<1>1. ASSUME NEW t \in Threads, R!Step(t) PROVE RInv'
  BY <1>1, RReaderStep, RWriterStep DEF R!Step
<1>2. ASSUME NEW t \in Threads, R!spurious(t) PROVE RInv'
  BY SMTT(30), Z3T(60), <1>2 DEF R!spurious, R!r_cond!Spurious, RInv, R!TypeOK, RCountsAgree, R!NoLostWakeup
<1>3. CASE UNCHANGED R!vars
  BY <1>3 DEF R!vars, RInv, R!TypeOK, RCountsAgree, R!NoLostWakeup
<1>. QED BY <1>1, <1>2, <1>3 DEF R!Next, R!Threads, Threads

\* Whatever the readers and writers do, no writer sleeps in w_lock when nobody is
\* left to wake it, and the counters of the lock are the numbers of threads inside.
THEOREM RwLockRSafe == R!Spec => [](R!TypeOK /\ R!NoLostWakeup)
BY InitRInv, StepRInv, PTL DEF R!Spec, RInv

(***************************************************************************)
(* The writer-preference lock                                              *)
(***************************************************************************)
\* The counters of struct rw_lock count the threads inside and the writers
\* between the two updates of write_wait in w_lock.
CountsAgree ==
  /\ read_cnt = Cardinality(reading)
  /\ write_cnt = Cardinality(writing)
  /\ write_wait = Cardinality(wwaiters \cup wwoken)

\* NoLostWakeup is not inductive alone: the code decides whom to wake by the
\* counters, so they must be known to count the threads.
IInv == TypeOK /\ CountsAgree /\ NoLostWakeup

\* The threads inside and the waiting writers are finite sets.
LEMMA Finite ==
  ASSUME TypeOK
  PROVE  /\ IsFiniteSet(reading) /\ Cardinality(reading) \in Nat
         /\ IsFiniteSet(writing) /\ Cardinality(writing) \in Nat
         /\ IsFiniteSet(wwaiters \cup wwoken) /\ Cardinality(wwaiters \cup wwoken) \in Nat
<1>1. wwaiters \cup wwoken \subseteq Writers BY DEF TypeOK
<1>. QED BY <1>1, RwAssumption, FS_Subset, FS_CardinalityType DEF TypeOK

\* The tests of the counters in the code say who is inside or waiting.
LEMMA CountTests ==
  ASSUME TypeOK, CountsAgree
  PROVE  /\ read_cnt = 0 <=> reading = {}
         /\ write_cnt = 0 <=> writing = {}
         /\ write_wait = 0 <=> wwaiters \cup wwoken = {}
BY Finite, FS_EmptySet DEF CountsAgree

\* After a signal on w_cond with write_wait > 0 some writer is on its way in.
LEMMA SignalEffect ==
  ASSUME TypeOK, w_cond!Signal
  PROVE  /\ wwaiters' \subseteq wwaiters /\ wwoken \subseteq wwoken'
         /\ wwaiters' \cup wwoken' = wwaiters \cup wwoken /\ wwaiters' \cap wwoken' = {}
         /\ wwaiters \cup wwoken # {} => wwoken' # {}
BY DEF w_cond!Signal, w_cond!cvars, TypeOK

\* Whether a writer waits.
LEMMA SomeWaitOrNone == TypeOK => write_wait > 0 \/ write_wait = 0
BY SMTT(30), Z3T(60) DEF TypeOK

\* A counter that the code finds positive is not 0.
LEMMA PositiveCount == ~(0 > 0)
BY SMTT(30), Z3T(60)

\* The sleepers are the same threads, each of them waiting or woken.
SameSleepers ==
  /\ rwaiters' \cup rwoken' = rwaiters \cup rwoken /\ rwaiters' \cap rwoken' = {}
  /\ wwaiters' \cup wwoken' = wwaiters \cup wwoken /\ wwaiters' \cap wwoken' = {}

\* A thread that leaves keeps the types, whomever it wakes.
LEMMA LeaveTypes ==
  ASSUME TypeOK, NEW t \in reading \cup writing, Leave(t), SameSleepers,
         reading' \subseteq reading, writing' \subseteq writing, t \notin reading' \cup writing',
         read_cnt' \in Nat, write_cnt' \in Nat, write_wait' \in Nat
  PROVE  TypeOK'
<1>1. t \in Threads /\ t \notin rwaiters \cup rwoken \cup wwaiters \cup wwoken
  BY RwAssumption DEF TypeOK, Threads
<1>2. done' \subseteq done \cup {t} BY DEF Leave
<1>3. /\ rwaiters' \subseteq Readers /\ rwoken' \subseteq Readers /\ reading' \subseteq Readers
      /\ reading' \cap (rwaiters' \cup rwoken') = {}
  BY DEF TypeOK, SameSleepers
<1>4. /\ wwaiters' \subseteq Writers /\ wwoken' \subseteq Writers /\ writing' \subseteq Writers
      /\ writing' \cap (wwaiters' \cup wwoken') = {}
  BY DEF TypeOK, SameSleepers
<1>5. done' \subseteq Threads /\ done' \cap (reading' \cup writing') = {}
  BY <1>1, <1>2 DEF TypeOK
<1>6. done' \cap (rwaiters' \cup rwoken' \cup wwaiters' \cup wwoken') = {}
  BY <1>1, <1>2 DEF TypeOK, SameSleepers
<1>. QED BY <1>3, <1>4, <1>5, <1>6 DEF TypeOK, SameSleepers

\* init_rwlock establishes the invariant.
LEMMA InitIInv == Init => IInv
BY SMTT(30), Z3T(60), FS_EmptySet
DEF Init, init_rwlock, r_cond!Init, w_cond!Init, IInv, TypeOK, CountsAgree, NoLostWakeup

\* r_lock, also after a wait, and r_unlock preserve the invariant: the reader that
\* makes read_cnt 0 wakes a writer if one waits and the readers if none does.
LEMMA ReaderIInv ==
  ASSUME IInv, NEW t \in Threads, ReaderStep(t)
  PROVE  IInv'
<1>. USE Finite, CountTests, RwAssumption DEF IInv, cnts, held, rvars, wvars
<1>1. CASE r_lock(t) /\ (write_cnt > 0 \/ write_wait > 0)
  <2>. USE <1>1 DEF r_lock, Ready, Threads, r_cond!Wait
  <2>1. TypeOK' /\ CountsAgree' BY SMTT(30), Z3T(60) DEF TypeOK, CountsAgree
  <2>2. writing # {} \/ wwaiters \cup wwoken # {} BY PositiveCount
  <2>. QED BY <2>1, <2>2 DEF NoLostWakeup
<1>2. CASE r_lock(t) /\ ~(write_cnt > 0 \/ write_wait > 0)
  <2>. USE <1>2 DEF r_lock, Ready, Threads, EnterReader
  <2>1. TypeOK' BY SMTT(30), Z3T(60) DEF TypeOK
  <2>2. Cardinality(reading') = Cardinality(reading) + 1 BY SMTT(30), Z3T(60), FS_AddElement
  <2>3. CountsAgree' BY <2>2 DEF CountsAgree
  <2>4. NoLostWakeup' BY DEF NoLostWakeup
  <2>. QED BY <2>1, <2>3, <2>4
<1>3. CASE r_lock_return(t)
  <2>. USE <1>3 DEF r_lock_return, EnterReader, r_cond!Return
  <2>0. t \notin reading BY DEF TypeOK
  <2>1. TypeOK' BY SMTT(30), Z3T(60) DEF TypeOK
  <2>2. Cardinality(reading') = Cardinality(reading) + 1 BY <2>0, FS_AddElement
  <2>. QED BY <2>1, <2>2 DEF CountsAgree, NoLostWakeup, TypeOK
<1>4. CASE r_unlock(t)
  <2>. USE <1>4 DEF r_unlock
  <2>1. Cardinality(reading') = Cardinality(reading) - 1 BY FS_RemoveElement
  <2>2. read_cnt' \in Nat /\ read_cnt' = Cardinality(reading') BY SMTT(30), Z3T(60), <2>1 DEF CountsAgree, TypeOK
  <2>3. reading' # {} \/ read_cnt' = 0 BY <2>2, FS_EmptySet
  <2>a. ASSUME SameSleepers PROVE TypeOK'
    <3>1. /\ reading' \subseteq reading /\ writing' \subseteq writing /\ t \notin reading' \cup writing'
          /\ write_cnt' \in Nat /\ write_wait' \in Nat
      BY DEF TypeOK
    <3>. QED BY <2>2, <2>a, <3>1, LeaveTypes
  <2>4. CASE write_wait > 0 /\ read_cnt' = 0
    <3>1. TypeOK' BY <2>4, <2>a, SignalEffect, PositiveCount DEF TypeOK, SameSleepers
    <3>2. CountsAgree' BY <2>2, <2>4, SignalEffect DEF CountsAgree
    <3>. QED BY <2>4, <3>1, <3>2, SignalEffect DEF NoLostWakeup
  <2>5. CASE write_wait = 0 /\ read_cnt' = 0
    <3>. USE <2>5 DEF r_cond!Broadcast
    <3>1. TypeOK' BY <2>a, PositiveCount DEF TypeOK, SameSleepers
    <3>2. wwaiters' \cup wwoken' = wwaiters \cup wwoken BY PositiveCount
    <3>3. CountsAgree' BY <2>2, <3>2 DEF CountsAgree
    <3>4. rwaiters' = {} /\ wwaiters' = {} BY <3>2
    <3>5. NoLostWakeup' BY <3>4 DEF NoLostWakeup
    <3>. QED BY <3>1, <3>3, <3>5
  <2>6. CASE read_cnt' # 0
    <3>1. UNCHANGED <<rwaiters, rwoken, wwaiters, wwoken>> BY <2>6
    <3>2. TypeOK' BY <2>a, <3>1 DEF TypeOK, SameSleepers
    <3>3. CountsAgree' BY <2>2, <3>1 DEF CountsAgree
    <3>4. NoLostWakeup' BY <2>3, <2>6 DEF NoLostWakeup
    <3>. QED BY <3>2, <3>3, <3>4
  <2>. QED BY <2>4, <2>5, <2>6, SomeWaitOrNone
<1>. QED BY <1>1, <1>2, <1>3, <1>4 DEF ReaderStep

\* So do w_lock, which keeps write_wait in step with the waiting writers, and
\* w_unlock.
LEMMA WriterIInv ==
  ASSUME IInv, NEW t \in Threads, WriterStep(t)
  PROVE  IInv'
<1>. USE Finite, CountTests, RwAssumption DEF IInv, cnts, held, rvars, wvars
<1>1. CASE w_lock(t) /\ (read_cnt > 0 \/ write_cnt > 0)
  <2>. USE <1>1 DEF w_lock, Ready, Threads, w_cond!Wait
  <2>1. TypeOK' BY SMTT(30), Z3T(60) DEF TypeOK
  <2>2. wwaiters' \cup wwoken' = (wwaiters \cup wwoken) \cup {t} OBVIOUS
  <2>3. Cardinality(wwaiters' \cup wwoken') = Cardinality(wwaiters \cup wwoken) + 1
    <3>. DEFINE S == wwaiters \cup wwoken
    <3>1. IsFiniteSet(S) /\ t \notin S OBVIOUS
    <3>2. Cardinality(S \cup {t}) = Cardinality(S) + 1 BY <3>1, FS_AddElement
    <3>. QED BY <2>2, <3>2
  <2>4. reading \cup writing # {} BY PositiveCount
  <2>. QED BY <2>1, <2>3, <2>4 DEF CountsAgree, NoLostWakeup
<1>2. CASE w_lock(t) /\ ~(read_cnt > 0 \/ write_cnt > 0)
  <2>. USE <1>2 DEF w_lock, Ready, Threads, EnterWriter
  <2>1. TypeOK' BY SMTT(30), Z3T(60) DEF TypeOK
  <2>2. Cardinality(writing') = Cardinality(writing) + 1 BY SMTT(30), Z3T(60), FS_AddElement
  <2>. QED BY <2>1, <2>2 DEF CountsAgree, NoLostWakeup, TypeOK
<1>3. CASE w_lock_return(t)
  <2>. USE <1>3 DEF w_lock_return, EnterWriter, w_cond!Return
  <2>0. t \notin writing /\ t \in wwaiters \cup wwoken /\ t \notin wwaiters BY DEF TypeOK
  <2>2. Cardinality(writing') = Cardinality(writing) + 1 BY <2>0, FS_AddElement
  <2>3. wwaiters' \cup wwoken' = (wwaiters \cup wwoken) \ {t} BY <2>0
  <2>4. Cardinality(wwaiters' \cup wwoken') = Cardinality(wwaiters \cup wwoken) - 1
    <3>. DEFINE S == wwaiters \cup wwoken
    <3>1. IsFiniteSet(S) /\ t \in S BY <2>0
    <3>2. Cardinality(S \ {t}) = Cardinality(S) - 1 BY <3>1, FS_RemoveElement
    <3>. QED BY <2>3, <3>2
  <2>5. CountsAgree' BY <2>2, <2>4 DEF CountsAgree, TypeOK
  <2>6. TypeOK' BY SMTT(30), Z3T(60), <2>0 DEF TypeOK, CountsAgree
  <2>. QED BY <2>5, <2>6 DEF NoLostWakeup
<1>4. CASE w_unlock(t)
  <2>. USE <1>4 DEF w_unlock
  <2>1. Cardinality(writing') = Cardinality(writing) - 1 BY FS_RemoveElement
  <2>2. write_cnt' \in Nat /\ write_cnt' = Cardinality(writing') BY SMTT(30), Z3T(60), <2>1 DEF CountsAgree, TypeOK
  <2>a. ASSUME SameSleepers PROVE TypeOK'
    <3>1. /\ reading' \subseteq reading /\ writing' \subseteq writing /\ t \notin reading' \cup writing'
          /\ read_cnt' \in Nat /\ write_wait' \in Nat
      BY DEF TypeOK
    <3>. QED BY <2>2, <2>a, <3>1, LeaveTypes
  <2>3. CASE write_wait > 0
    <3>1. TypeOK' BY <2>3, <2>a, SignalEffect, PositiveCount DEF TypeOK, SameSleepers
    <3>2. CountsAgree' BY <2>2, <2>3, SignalEffect DEF CountsAgree
    <3>. QED BY <2>3, <3>1, <3>2, SignalEffect DEF NoLostWakeup
  <2>4. CASE write_wait = 0
    <3>. USE <2>4 DEF r_cond!Broadcast
    <3>1. TypeOK' BY <2>a, PositiveCount DEF TypeOK, SameSleepers
    <3>2. wwaiters' \cup wwoken' = wwaiters \cup wwoken BY PositiveCount
    <3>3. CountsAgree' BY <2>2, <3>2 DEF CountsAgree
    <3>. QED BY <3>1, <3>3 DEF NoLostWakeup
  <2>. QED BY <2>3, <2>4, SomeWaitOrNone
<1>. QED BY <1>1, <1>2, <1>3, <1>4 DEF WriterStep

\* Every step of every thread preserves the invariant.
LEMMA StepIInv == IInv /\ [Next]_vars => IInv'
<1>. SUFFICES ASSUME IInv, [Next]_vars PROVE IInv'
  OBVIOUS
<1>. USE DEF cnts, held, rvars, wvars
<1>1. ASSUME NEW t \in Threads, Step(t) PROVE IInv'
  BY <1>1, ReaderIInv, WriterIInv DEF Step
<1>2. ASSUME NEW t \in Threads, spurious(t) PROVE IInv'
  <2>. USE <1>2 DEF spurious, IInv
  <2>1. CASE r_cond!Spurious(t)
    BY SMTT(30), Z3T(60), <2>1 DEF r_cond!Spurious, TypeOK, CountsAgree, NoLostWakeup
  <2>2. CASE w_cond!Spurious(t)
    <3>1. wwaiters' \cup wwoken' = wwaiters \cup wwoken BY <2>2 DEF w_cond!Spurious
    <3>. QED BY <2>2, <3>1 DEF w_cond!Spurious, TypeOK, CountsAgree, NoLostWakeup
  <2>. QED BY <2>1, <2>2
<1>3. CASE UNCHANGED vars
  BY <1>3 DEF vars, IInv, TypeOK, CountsAgree, NoLostWakeup
<1>. QED BY <1>1, <1>2, <1>3 DEF Next

\* Whatever the readers and writers do, no thread sleeps in r_lock or w_lock when
\* nobody is left to wake it.
THEOREM RwLockWSafe == Spec => [](TypeOK /\ NoLostWakeup)
BY InitIInv, StepIInv, PTL DEF Spec, IInv

-----------------------------------------------------------------------------
\* One writer that locks once, no spurious wakeups: the setting in which the
\* missing second test in r_lock and w_lock does no harm.
OneWriter == (\E w : Writers = {w}) /\ ~Repeat /\ ~SpuriousWakeups

\* Exclusion made inductive: readers sleep only for a writer that is inside or
\* waiting, so they are woken only after the writer is done, and a writer that
\* has been signalled finds no reader inside.
OneInv ==
  /\ writing # {} => reading = {}
  /\ rwaiters # {} => writing \cup wwaiters \cup wwoken # {}
  /\ rwoken # {} => done \cap Writers # {}
  /\ wwoken # {} => reading = {}
  /\ \A v, w \in writing \cup wwaiters \cup wwoken \cup (done \cap Writers) : v = w
  /\ writing \cap (wwaiters \cup wwoken \cup done) = {}

\* Nobody is inside or waiting when the threads start.
LEMMA InitOneInv == Init => OneInv
BY DEF Init, init_rwlock, r_cond!Init, w_cond!Init, OneInv

\* Every step preserves the one-writer invariant.
LEMMA StepOneInv ==
  ASSUME OneWriter
  PROVE  IInv /\ OneInv /\ [Next]_vars => OneInv'
<1>. SUFFICES ASSUME IInv, OneInv, [Next]_vars PROVE OneInv'
  OBVIOUS
<1>. USE CountTests, RwAssumption DEF IInv, cnts, held, rvars, wvars
<1>0. TypeOK' BY StepIInv
<1>1. ASSUME NEW t \in Threads, r_lock(t) PROVE OneInv'
  <2>1. CASE write_cnt > 0 \/ write_wait > 0
    BY SMTT(30), Z3T(60), <1>1, <2>1 DEF r_lock, r_cond!Wait, OneInv, TypeOK
  <2>2. CASE ~(write_cnt > 0 \/ write_wait > 0)
    BY SMTT(30), Z3T(60), <1>1, <2>2 DEF r_lock, EnterReader, OneInv, TypeOK
  <2>. QED BY <2>1, <2>2
<1>2. ASSUME NEW t \in Threads, r_lock_return(t) PROVE OneInv'
  BY SMTT(30), Z3T(60), <1>0, <1>2 DEF r_lock_return, r_cond!Return, EnterReader, OneInv, TypeOK
<1>3. ASSUME NEW t \in Threads, r_unlock(t) PROVE OneInv'
  <2>. USE <1>3 DEF r_unlock, Leave, OneInv
  <2>1. read_cnt' = Cardinality(reading') BY StepIInv DEF CountsAgree
  <2>2. read_cnt' = 0 => reading' = {}
    BY <2>1, Finite, FS_RemoveElement, FS_EmptySet
  <2>3. writing = {} /\ t \notin Writers BY DEF TypeOK
  <2>4. CASE write_wait > 0 /\ read_cnt' = 0
    BY SMTT(30), Z3T(60), <2>2, <2>3, <2>4, SignalEffect DEF OneWriter
  <2>5. CASE write_wait = 0 /\ read_cnt' = 0
    BY SMTT(30), Z3T(60), <2>2, <2>3, <2>5 DEF r_cond!Broadcast, OneWriter
  <2>6. CASE read_cnt' # 0
    BY SMTT(30), Z3T(60), <2>3, <2>6 DEF OneWriter
  <2>. QED BY <2>4, <2>5, <2>6, SomeWaitOrNone
<1>4. ASSUME NEW t \in Threads, w_lock(t) PROVE OneInv'
  <2>. USE <1>4 DEF w_lock, Ready
  <2>1. writing = {} /\ wwaiters = {} /\ wwoken = {} /\ done \cap Writers = {}
    BY SMTT(30), Z3T(60) DEF OneWriter, TypeOK
  <2>2. CASE read_cnt > 0 \/ write_cnt > 0
    BY <2>1, <2>2 DEF w_cond!Wait, OneInv
  <2>3. CASE ~(read_cnt > 0 \/ write_cnt > 0)
    BY SMTT(30), Z3T(60), <2>1, <2>3 DEF EnterWriter, OneInv, TypeOK
  <2>. QED BY <2>2, <2>3
<1>5. ASSUME NEW t \in Threads, w_lock_return(t) PROVE OneInv'
  BY SMTT(30), Z3T(60), <1>5 DEF w_lock_return, w_cond!Return, EnterWriter, OneInv, OneWriter, TypeOK
<1>6. ASSUME NEW t \in Threads, w_unlock(t) PROVE OneInv'
  BY SMTT(30), Z3T(60), <1>6, SignalEffect DEF w_unlock, r_cond!Broadcast, Leave, OneInv, OneWriter, TypeOK
<1>7. ASSUME NEW t \in Threads, spurious(t) PROVE OneInv'
  BY <1>7 DEF spurious, OneWriter
<1>8. CASE UNCHANGED vars
  BY <1>8 DEF vars, OneInv
<1>. QED
  BY <1>1, <1>2, <1>3, <1>4, <1>5, <1>6, <1>7, <1>8
  DEF Next, Step, ReaderStep, WriterStep

\* With one writer that locks once, nobody holds the lock beside the writer, for
\* every set of readers.
THEOREM OneWriterExclusion ==
  ASSUME OneWriter
  PROVE  Spec => []Exclusion
<1>1. TypeOK /\ OneInv => Exclusion
  BY SMTT(30), Z3T(60) DEF OneInv, Exclusion, TypeOK
<1>2. IInv /\ OneInv /\ [Next]_vars => OneInv'
  BY StepOneInv
<1>. QED BY <1>1, <1>2, InitIInv, InitOneInv, StepIInv, PTL DEF Spec, IInv

\* A step of the code is a step of the abstract lock or changes no holder.
LEMMA StepRefines ==
  ASSUME OneWriter
  PROVE  IInv /\ OneInv /\ [Next]_vars => [RwLock!Next]_(RwLock!vars)
<1>. SUFFICES ASSUME IInv, OneInv, [Next]_vars PROVE [RwLock!Next]_(RwLock!vars)
  OBVIOUS
<1>. USE CountTests DEF IInv, TypeOK, cnts, held, rvars, wvars, RwLock!vars
<1>1. ASSUME NEW t \in Threads, r_lock(t) PROVE [RwLock!Next]_(RwLock!vars)
  BY SMTT(30), Z3T(60), <1>1 DEF r_lock, EnterReader, RwLock!Next, RwLock!Read
<1>2. ASSUME NEW t \in Threads, r_lock_return(t) PROVE [RwLock!Next]_(RwLock!vars)
  <2>1. writing = {} BY <1>2 DEF r_lock_return, r_cond!Return, OneInv, OneWriter
  <2>. QED BY <1>2, <2>1 DEF r_lock_return, r_cond!Return, EnterReader, RwLock!Next, RwLock!Read
<1>3. ASSUME NEW t \in Threads, r_unlock(t) PROVE [RwLock!Next]_(RwLock!vars)
  BY <1>3 DEF r_unlock, RwLock!Next, RwLock!StopReading
<1>4. ASSUME NEW t \in Threads, w_lock(t) PROVE [RwLock!Next]_(RwLock!vars)
  <2>1. CASE read_cnt > 0 \/ write_cnt > 0
    BY <1>4, <2>1 DEF w_lock
  <2>2. CASE ~(read_cnt > 0 \/ write_cnt > 0)
    BY SMTT(30), Z3T(60), <1>4, <2>2 DEF w_lock, EnterWriter, RwLock!Next, RwLock!Write
  <2>. QED BY <2>1, <2>2
<1>5. ASSUME NEW t \in Threads, w_lock_return(t) PROVE [RwLock!Next]_(RwLock!vars)
  <2>1. t \in Writers /\ reading = {} /\ writing = {}
    BY <1>5 DEF w_lock_return, w_cond!Return, OneInv, OneWriter
  <2>. QED BY <1>5, <2>1 DEF w_lock_return, EnterWriter, RwLock!Next, RwLock!Write
<1>6. ASSUME NEW t \in Threads, w_unlock(t) PROVE [RwLock!Next]_(RwLock!vars)
  <2>1. t \in Writers /\ writing = {t} BY <1>6 DEF w_unlock, OneInv
  <2>. QED BY <1>6, <2>1 DEF w_unlock, RwLock!Next, RwLock!StopWriting
<1>7. ASSUME NEW t \in Threads, spurious(t) PROVE [RwLock!Next]_(RwLock!vars)
  BY <1>7 DEF spurious
<1>8. CASE UNCHANGED vars
  BY <1>8 DEF vars
<1>. QED
  BY <1>1, <1>2, <1>3, <1>4, <1>5, <1>6, <1>7, <1>8
  DEF Next, Step, ReaderStep, WriterStep

\* With one writer that locks once, rw_lock-w-test.c implements a readers-writer
\* lock, for every set of readers.
THEOREM OneWriterRefinement ==
  ASSUME OneWriter
  PROVE  Spec => ImplementsRwLock
<1>1. Init => RwLock!Init
  BY DEF Init, RwLock!Init
<1>2. IInv /\ OneInv /\ [Next]_vars => OneInv'
  BY StepOneInv
<1>3. IInv /\ OneInv /\ [Next]_vars => [RwLock!Next]_(RwLock!vars)
  BY StepRefines
<1>. QED
  BY <1>1, <1>2, <1>3, InitIInv, InitOneInv, StepIInv, PTL
  DEF Spec, ImplementsRwLock, RwLock!Spec

(***************************************************************************)
(* master-worker.c                                                         *)
(***************************************************************************)
ActiveMaster == Masters \cap (PoolReady \cup pwoken) # {}
ActiveWorker == Workers \cap (PoolReady \cup cwoken) # {}

\* What makes NoDeadlock inductive.  A worker sleeps while there are items only
\* if another worker is up; a master sleeps while there is space only if another
\* master is up; the last worker to finish wakes the others.
Awake ==
  /\ curr_buf_size > 0 => ActiveWorker
  /\ consume_cnt = total_items /\ cwaiters # {} => ActiveWorker
  /\ curr_buf_size < max_buf_size /\ pwaiters # {} => ActiveMaster
  /\ returned \cap Masters # {} => item_to_produce = total_items
  /\ returned \cap Workers # {} => consume_cnt = total_items

\* What makes ExactlyOnce inductive: no index past the buffer has been used, and
\* the cells below curr_buf_size hold items.
CellsOK ==
  heap = "ok" => /\ curr_buf_size <= max_buf_size
                 /\ \A c \in Cells : c < curr_buf_size => buffer[c] \in Items

PoolInv == PoolTypeOK /\ Awake /\ CellsOK /\ ExactlyOnce

\* Before the threads start nothing is produced and all of them can run.
LEMMA InitPoolInv == PoolInit => PoolInv
BY SMTT(30), Z3T(60), ArgAssumption
DEF PoolInit, produce!Init, consume!Init, PoolInv, PoolTypeOK, Awake, ActiveMaster, ActiveWorker,
    CellsOK, ExactlyOnce, PoolReady, Pool, Items, Cells

\* A signal moves one waiter, if there is one.
LEMMA ProduceSignal ==
  ASSUME PoolTypeOK, produce!Signal
  PROVE  /\ pwaiters' \subseteq pwaiters /\ pwoken \subseteq pwoken'
         /\ pwaiters' \cup pwoken' = pwaiters \cup pwoken /\ pwaiters' \cap pwoken' = {}
         /\ pwaiters # {} => pwoken' # {}
BY DEF produce!Signal, produce!cvars, PoolTypeOK

\* The same for the condition variable of the workers.
LEMMA ConsumeSignal ==
  ASSUME PoolTypeOK, consume!Signal
  PROVE  /\ cwaiters' \subseteq cwaiters /\ cwoken \subseteq cwoken'
         /\ cwaiters' \cup cwoken' = cwaiters \cup cwoken /\ cwaiters' \cap cwoken' = {}
         /\ cwaiters # {} => cwoken' # {}
BY SMTT(30), Z3T(60) DEF consume!Signal, consume!cvars, PoolTypeOK

\* Storing an item (lines 58-60) keeps every item in one place.
LEMMA PutData ==
  ASSUME PoolInv, Put, item_to_produce < total_items
  PROVE  /\ item_to_produce' \in 0..total_items /\ consume_cnt' = consume_cnt
         /\ curr_buf_size' = item_to_produce' - consume_cnt'
         /\ curr_buf_size' = curr_buf_size + 1
         /\ buffer' \in [Cells -> Items \cup {-1}] /\ heap' \in {"ok", "overflow", "aborted"}
         /\ CellsOK' /\ ExactlyOnce'
<1>. USE ArgAssumption DEF PoolInv, Items, Cells
<1>1. /\ item_to_produce' = item_to_produce + 1 /\ consume_cnt' = consume_cnt
      /\ curr_buf_size' = curr_buf_size + 1 /\ consumed' = consumed
      /\ IF curr_buf_size < max_buf_size
            THEN buffer' = [buffer EXCEPT ![curr_buf_size] = item_to_produce] /\ heap' = heap
            ELSE heap' = "overflow" /\ buffer' = buffer
  BY DEF Put
<1>2. /\ item_to_produce \in 0..total_items /\ consume_cnt \in 0..total_items
      /\ curr_buf_size \in Nat /\ curr_buf_size = item_to_produce - consume_cnt
      /\ buffer \in [Cells -> Items \cup {-1}] /\ heap \in {"ok", "overflow", "aborted"}
  BY DEF PoolTypeOK
<1>. HIDE DEF Items
<1>3. item_to_produce \in Items BY SMTT(30), Z3T(60), <1>2 DEF Items
<1>4. /\ item_to_produce' \in 0..total_items /\ consume_cnt' = consume_cnt
      /\ curr_buf_size' = item_to_produce' - consume_cnt' /\ curr_buf_size' = curr_buf_size + 1
      /\ buffer' \in [Cells -> Items \cup {-1}] /\ heap' \in {"ok", "overflow", "aborted"}
  BY SMTT(30), Z3T(60), <1>1, <1>2, <1>3
<1>5. CASE curr_buf_size < max_buf_size
  <2>0. curr_buf_size \in Cells BY SMTT(30), Z3T(60), <1>2, <1>5
  <2>1. CellsOK' BY SMTT(30), Z3T(60), <1>1, <1>2, <1>3, <1>5 DEF CellsOK
  <2>2. ASSUME heap = "ok", NEW i \in Items
        PROVE  LET cells2 == {c \in Cells : c < curr_buf_size' /\ buffer'[c] = i}
               IN  \/ i >= item_to_produce' /\ consumed'[i] = 0 /\ cells2 = {}
                   \/ i < item_to_produce' /\ consumed'[i] = 1 /\ cells2 = {}
                   \/ i < item_to_produce' /\ consumed'[i] = 0 /\ \E c \in Cells : cells2 = {c}
    <3>. DEFINE cells == {c \in Cells : c < curr_buf_size /\ buffer[c] = i}
                cells2 == {c \in Cells : c < curr_buf_size' /\ buffer'[c] = i}
    <3>1. \/ i >= item_to_produce /\ consumed[i] = 0 /\ cells = {}
          \/ i < item_to_produce /\ consumed[i] = 1 /\ cells = {}
          \/ i < item_to_produce /\ consumed[i] = 0 /\ \E c \in Cells : cells = {c}
      BY <2>2 DEF ExactlyOnce
    <3>2. cells2 = IF i = item_to_produce THEN cells \cup {curr_buf_size} ELSE cells
      BY SMTT(30), Z3T(60), <1>1, <1>2, <1>5
    <3>3. i \in Int BY SMTT(30), Z3T(60) DEF Items
    <3>. HIDE DEF cells, cells2, Cells
    <3>4. \/ i >= item_to_produce' /\ consumed'[i] = 0 /\ cells2 = {}
          \/ i < item_to_produce' /\ consumed'[i] = 1 /\ cells2 = {}
          \/ i < item_to_produce' /\ consumed'[i] = 0 /\ \E c \in Cells : cells2 = {c}
      <4>1. CASE i = item_to_produce
        BY SMTT(30), Z3T(60), <1>1, <1>2, <2>0, <3>1, <3>2, <3>3, <4>1
      <4>2. CASE i # item_to_produce
        BY SMTT(30), Z3T(60), <1>1, <1>2, <3>1, <3>2, <3>3, <4>2
      <4>. QED BY <4>1, <4>2
    <3>. QED BY <3>4 DEF cells2
  <2>3. heap' = heap BY <1>1, <1>5
  <2>4. ExactlyOnce' BY <2>2, <2>3 DEF ExactlyOnce
  <2>. QED BY <1>4, <2>1, <2>4
<1>6. CASE ~(curr_buf_size < max_buf_size)
  BY <1>1, <1>4, <1>6 DEF CellsOK, ExactlyOnce
<1>. QED BY <1>5, <1>6

\* So does taking one (lines 104-107).
LEMMA TakeData ==
  ASSUME PoolInv, Take, curr_buf_size > 0, consume_cnt # total_items
  PROVE  /\ consume_cnt' \in 0..total_items /\ item_to_produce' = item_to_produce
         /\ curr_buf_size' = item_to_produce' - consume_cnt'
         /\ curr_buf_size' = curr_buf_size - 1
         /\ buffer' \in [Cells -> Items \cup {-1}] /\ heap' = heap
         /\ consumed' \in [Items -> Nat]
         /\ CellsOK' /\ ExactlyOnce'
<1>. USE ArgAssumption DEF PoolInv, Cells
<1>. DEFINE top == curr_buf_size - 1
<1>1. /\ item_to_produce' = item_to_produce /\ consume_cnt' = consume_cnt + 1
      /\ curr_buf_size' = top /\ heap' = heap
      /\ buffer' = IF top \in Cells THEN [buffer EXCEPT ![top] = -1] ELSE buffer
  BY DEF Take
<1>2. PICK item \in IF top \in Cells THEN {buffer[top]} ELSE Items \cup {-1} :
        consumed' = IF item \in Items THEN [consumed EXCEPT ![item] = @ + 1] ELSE consumed
  BY DEF Take
<1>3. /\ item_to_produce \in 0..total_items /\ consume_cnt \in 0..total_items
      /\ top \in Nat /\ top + 1 = item_to_produce - consume_cnt /\ curr_buf_size = top + 1
      /\ buffer \in [Cells -> Items \cup {-1}] /\ consumed \in [Items -> Nat]
  BY SMTT(30), Z3T(60) DEF PoolTypeOK
<1>. HIDE DEF top
<1>4. /\ consume_cnt' \in 0..total_items /\ item_to_produce' = item_to_produce
      /\ curr_buf_size' = item_to_produce' - consume_cnt' /\ curr_buf_size' = curr_buf_size - 1
      /\ buffer' \in [Cells -> Items \cup {-1}] /\ consumed' \in [Items -> Nat] /\ heap' = heap
  BY SMTT(30), Z3T(60), <1>1, <1>2, <1>3
<1>5. CellsOK' BY SMTT(30), Z3T(60), <1>1, <1>3 DEF CellsOK
<1>6. ASSUME heap = "ok", NEW i \in Items
      PROVE  LET cells2 == {c \in Cells : c < curr_buf_size' /\ buffer'[c] = i}
             IN  \/ i >= item_to_produce' /\ consumed'[i] = 0 /\ cells2 = {}
                 \/ i < item_to_produce' /\ consumed'[i] = 1 /\ cells2 = {}
                 \/ i < item_to_produce' /\ consumed'[i] = 0 /\ \E c \in Cells : cells2 = {c}
  <2>. DEFINE cells == {c \in Cells : c < curr_buf_size /\ buffer[c] = i}
              cells2 == {c \in Cells : c < curr_buf_size' /\ buffer'[c] = i}
  <2>1. \/ i >= item_to_produce /\ consumed[i] = 0 /\ cells = {}
        \/ i < item_to_produce /\ consumed[i] = 1 /\ cells = {}
        \/ i < item_to_produce /\ consumed[i] = 0 /\ \E c \in Cells : cells = {c}
    BY <1>6 DEF ExactlyOnce
  <2>2. top \in Cells /\ buffer[top] \in Items BY SMTT(30), Z3T(60), <1>3, <1>6 DEF CellsOK
  <2>3. cells2 = cells \ {top} BY SMTT(30), Z3T(60), <1>1, <1>3, <2>2
  <2>4. top \in cells <=> buffer[top] = i BY SMTT(30), Z3T(60), <1>3, <2>2
  <2>5. consumed' = [consumed EXCEPT ![buffer[top]] = @ + 1] BY <1>2, <2>2
  <2>. HIDE DEF cells, cells2, Cells
  <2>6. \/ i >= item_to_produce' /\ consumed'[i] = 0 /\ cells2 = {}
        \/ i < item_to_produce' /\ consumed'[i] = 1 /\ cells2 = {}
        \/ i < item_to_produce' /\ consumed'[i] = 0 /\ \E c \in Cells : cells2 = {c}
    <3>1. CASE buffer[top] = i
      <4>1. consumed'[i] = consumed[i] + 1 /\ consumed[i] \in Nat BY <1>3, <2>2, <2>5, <3>1
      <4>. QED BY SMTT(30), Z3T(60), <1>1, <2>1, <2>3, <2>4, <3>1, <4>1
    <3>2. CASE buffer[top] # i
      <4>1. consumed'[i] = consumed[i] BY <1>3, <2>2, <2>5, <3>2
      <4>2. cells2 = cells BY <2>3, <2>4, <3>2
      <4>. QED BY <1>1, <2>1, <4>1, <4>2
    <3>. QED BY <3>1, <3>2
  <2>. QED BY <2>6 DEF cells2
<1>7. ExactlyOnce' BY <1>1, <1>6 DEF ExactlyOnce
<1>. QED BY <1>4, <1>5, <1>7

\* The steps of a master.
LEMMA MasterStep ==
  ASSUME PoolInv, NEW t \in Pool, generate_requests_loop(t) \/ produce_return(t)
  PROVE  PoolInv'
<1>. USE ArgAssumption DEF PoolInv, pvars, cvars, data
<1>0. /\ item_to_produce \in 0..total_items /\ consume_cnt \in 0..total_items
      /\ curr_buf_size \in Nat /\ curr_buf_size = item_to_produce - consume_cnt
  BY DEF PoolTypeOK
<1>1. CASE t \in Masters \cap PoolReady /\ curr_buf_size >= max_buf_size /\ produce!Wait(t)
           /\ UNCHANGED <<data, heap, cvars, returned>>
  <2>. USE <1>1 DEF produce!Wait
  <2>1. PoolTypeOK' BY DEF PoolTypeOK, PoolReady, Pool
  <2>2. Awake' BY SMTT(30), Z3T(60), <1>0 DEF Awake, ActiveWorker, ActiveMaster, PoolReady, Pool, PoolTypeOK
  <2>. QED BY SMTT(30), Z3T(60), <2>1, <2>2 DEF CellsOK, ExactlyOnce
<1>2. CASE /\ item_to_produce >= total_items /\ Finish(t) /\ UNCHANGED cvars
           /\ \/ t \in Masters \cap PoolReady /\ produce!Broadcast
              \/ produce!ReturnBroadcast(t)
  <2>. USE <1>2 DEF Finish
  <2>1. t \in Masters /\ t \notin pwaiters' \cup pwoken' /\ pwaiters' = {}
        /\ pwoken' \subseteq Masters
    BY DEF PoolTypeOK, PoolReady, produce!Broadcast, produce!ReturnBroadcast
  <2>2. pwoken' \cup {t} = pwoken \cup pwaiters \cup {t}
    BY <2>1 DEF produce!Broadcast, produce!ReturnBroadcast
  <2>3. PoolTypeOK' BY SMTT(30), Z3T(60), <2>1, <2>2 DEF PoolTypeOK, Pool
  <2>4. Awake' BY SMTT(30), Z3T(60), <1>0, <2>1 DEF Awake, ActiveWorker, PoolReady, Pool, PoolTypeOK
  <2>. QED BY <2>3, <2>4 DEF CellsOK, ExactlyOnce
<1>3. CASE /\ item_to_produce < total_items /\ Put
           /\ \/ t \in Masters \cap PoolReady /\ UNCHANGED pvars
              \/ produce!Return(t)
  <2>. USE <1>3
  <2>1. /\ t \in Masters /\ t \notin pwaiters' \cup pwoken' \cup returned /\ pwaiters' = pwaiters
        /\ pwoken' \subseteq pwoken /\ UNCHANGED <<second, returned, consumed>>
    BY DEF PoolTypeOK, PoolReady, produce!Return, Put
  <2>2. consume!Signal BY DEF Put
  <2>3. PoolTypeOK' BY SMTT(30), Z3T(60), <1>0, <2>1, <2>2, PutData, ConsumeSignal DEF PoolTypeOK
  <2>4. ActiveMaster' BY SMTT(30), Z3T(60), <2>1, <2>2, ConsumeSignal DEF ActiveMaster, PoolReady, Pool, PoolTypeOK
  <2>5. ActiveWorker'
    <3>1. returned \cap Workers = {} BY SMTT(30), Z3T(60), <1>0 DEF Awake
    <3>2. CASE cwaiters # {}
      BY <2>2, <2>3, <3>2, ConsumeSignal DEF ActiveWorker, PoolTypeOK
    <3>3. CASE cwaiters = {}
      BY <2>1, <2>2, <3>1, <3>3, ConsumeSignal DEF ActiveWorker, PoolReady, Pool, PoolTypeOK
    <3>. QED BY <3>2, <3>3
  <2>6. Awake' BY SMTT(30), Z3T(60), <1>0, <2>1, <2>4, <2>5, PutData DEF Awake
  <2>. QED BY <2>3, <2>6, PutData
<1>. QED BY <1>0, <1>1, <1>2, <1>3 DEF generate_requests_loop, produce_return

\* The steps of a worker.
LEMMA WorkerStep ==
  ASSUME PoolInv, NEW t \in Pool,
         consume_requests_loop(t) \/ consume_return(t) \/ second_return(t)
  PROVE  PoolInv'
<1>. USE ArgAssumption DEF PoolInv, pvars, cvars, data
<1>0. /\ item_to_produce \in 0..total_items /\ consume_cnt \in 0..total_items
      /\ curr_buf_size \in Nat /\ curr_buf_size = item_to_produce - consume_cnt
  BY DEF PoolTypeOK
<1>1. CASE /\ curr_buf_size <= 0 /\ consume_cnt # total_items
           /\ UNCHANGED <<data, heap, pvars, returned>>
           /\ \/ t \in Workers \cap PoolReady /\ consume!Wait(t) /\ UNCHANGED second
              \/ consume!ReturnWait(t) /\ second' = second \cup {t}
  <2>. USE <1>1
  <2>1. t \in Workers /\ cwaiters' = cwaiters \cup {t} /\ cwoken' = cwoken \ {t}
        /\ second' \subseteq second \cup {t}
    BY SMTT(30), Z3T(60) DEF PoolTypeOK, PoolReady, Pool, consume!Wait, consume!ReturnWait
  <2>2. PoolTypeOK' BY SMTT(30), Z3T(60), <2>1 DEF PoolTypeOK, PoolReady, Pool, consume!ReturnWait
  <2>3. Awake' BY SMTT(30), Z3T(60), <1>0, <2>1 DEF Awake, ActiveMaster, PoolReady, Pool, PoolTypeOK
  <2>. QED BY SMTT(30), Z3T(60), <2>2, <2>3 DEF CellsOK, ExactlyOnce
<1>2. CASE /\ consume_cnt = total_items /\ Finish(t) /\ UNCHANGED <<pvars, second>>
           /\ \/ t \in Workers \cap PoolReady /\ consume!Broadcast
              \/ t \notin second /\ consume!ReturnBroadcast(t)
  <2>. USE <1>2 DEF Finish
  <2>1. t \in Workers /\ t \notin cwaiters' \cup cwoken' /\ cwaiters' = {}
        /\ cwoken' \subseteq Workers /\ t \notin second
    BY DEF PoolTypeOK, PoolReady, Pool, consume!Broadcast, consume!ReturnBroadcast
  <2>2. cwoken' \cup {t} = cwoken \cup cwaiters \cup {t}
    BY <2>1 DEF consume!Broadcast, consume!ReturnBroadcast
  <2>3. PoolTypeOK' BY SMTT(30), Z3T(60), <2>1, <2>2 DEF PoolTypeOK, Pool
  <2>4. Awake' BY SMTT(30), Z3T(60), <1>0, <2>1 DEF Awake, ActiveMaster, PoolReady, Pool, PoolTypeOK
  <2>. QED BY <2>3, <2>4 DEF CellsOK, ExactlyOnce
<1>3. CASE /\ curr_buf_size > 0 /\ consume_cnt # total_items /\ Take
           /\ \/ t \in Workers \cap PoolReady /\ UNCHANGED <<cwaiters, cwoken>>
              \/ t \notin second /\ consume!Return(t)
  <2>. USE <1>3
  <2>1. /\ t \in Workers /\ t \notin cwaiters' \cup cwoken' \cup returned \cup second /\ cwaiters' = cwaiters
        /\ cwoken' = cwoken \ {t} /\ UNCHANGED <<second, returned>>
    BY SMTT(30), Z3T(60) DEF PoolTypeOK, PoolReady, Pool, consume!Return, Take
  <2>2. produce!Signal BY DEF Take
  <2>3. PoolTypeOK'
    <3>1. /\ item_to_produce' \in 0..total_items /\ consume_cnt' \in 0..total_items
          /\ curr_buf_size' \in Nat /\ curr_buf_size' = item_to_produce' - consume_cnt'
          /\ buffer' \in [Cells -> Items \cup {-1}] /\ heap' \in {"ok", "overflow", "aborted"}
          /\ consumed' \in [Items -> Nat]
      BY SMTT(30), Z3T(60), <1>0, TakeData DEF PoolTypeOK
    <3>2. /\ pwaiters' \subseteq Masters /\ pwoken' \subseteq Masters \ pwaiters'
          /\ returned' \subseteq Pool \ (pwaiters' \cup pwoken' \cup cwaiters' \cup cwoken')
      BY <2>1, <2>2, ProduceSignal DEF PoolTypeOK
    <3>. QED BY <2>1, <3>1, <3>2 DEF PoolTypeOK
  <2>4. ActiveWorker' BY <2>1, <2>2, ProduceSignal DEF ActiveWorker, PoolReady, Pool, PoolTypeOK
  <2>5. ASSUME pwaiters' # {} PROVE ActiveMaster'
    BY <2>2, <2>3, <2>5, ProduceSignal DEF ActiveMaster, PoolTypeOK
  <2>6. Awake'
    <3>1. returned' \cap Workers = {} BY <1>0, <2>1 DEF Awake
    <3>2. returned' \cap Masters # {} => item_to_produce' = total_items BY <2>1, TakeData DEF Awake
    <3>. QED BY <2>4, <2>5, <3>1, <3>2 DEF Awake
  <2>. QED BY <2>3, <2>6, TakeData
<1>4. CASE second_return(t)
  <2>. USE <1>4 DEF second_return
  <2>1. /\ t \in Workers /\ t \notin cwaiters' \cup cwoken' \cup returned /\ cwaiters' = cwaiters
        /\ cwoken' = cwoken \ {t} /\ second' = second \ {t} /\ UNCHANGED <<data, heap, returned>>
    BY DEF PoolTypeOK, consume!Return
  <2>2. PoolTypeOK'
    <3>1. /\ pwaiters' \subseteq Masters /\ pwoken' \subseteq Masters \ pwaiters'
          /\ returned' \subseteq Pool \ (pwaiters' \cup pwoken' \cup cwaiters' \cup cwoken')
      BY <2>1, ProduceSignal DEF PoolTypeOK
    <3>. QED BY <2>1, <3>1 DEF PoolTypeOK
  <2>3. ActiveWorker' BY <2>1, ProduceSignal DEF ActiveWorker, PoolReady, Pool, PoolTypeOK
  <2>4. ASSUME pwaiters' # {} PROVE ActiveMaster'
    BY <2>2, <2>4, ProduceSignal DEF ActiveMaster, PoolTypeOK
  <2>5. Awake' BY <2>1, <2>3, <2>4 DEF Awake
  <2>. QED BY SMTT(30), Z3T(60), <2>1, <2>2, <2>5 DEF CellsOK, ExactlyOnce
<1>. QED BY SMTT(30), Z3T(60), <1>0, <1>1, <1>2, <1>3, <1>4 DEF consume_requests_loop, consume_return

\* Every step of every thread preserves the invariant.
LEMMA StepPoolInv == PoolInv /\ [PoolNext]_poolvars => PoolInv'
<1>. SUFFICES ASSUME PoolInv, [PoolNext]_poolvars PROVE PoolInv'
  OBVIOUS
<1>. USE DEF pvars, cvars, data
<1>1. ASSUME NEW t \in Pool, PoolStep(t) PROVE PoolInv'
  BY <1>1, MasterStep, WorkerStep DEF PoolStep
<1>2. ASSUME NEW t \in Pool, pool_spurious(t) PROVE PoolInv'
  <2>. USE <1>2 DEF pool_spurious, PoolInv
  <2>1. CASE produce!Spurious(t)
    <3>1. PoolTypeOK' BY SMTT(30), Z3T(60), <2>1 DEF produce!Spurious, PoolTypeOK
    <3>2. Awake'
      BY SMTT(30), Z3T(60), <2>1 DEF produce!Spurious, PoolTypeOK, Awake, ActiveMaster, ActiveWorker, PoolReady, Pool
    <3>3. CellsOK' /\ ExactlyOnce' BY SMTT(30), Z3T(60), <2>1 DEF produce!Spurious, CellsOK, ExactlyOnce
    <3>. QED BY <3>1, <3>2, <3>3
  <2>2. CASE consume!Spurious(t)
    <3>1. PoolTypeOK' BY SMTT(30), Z3T(60), <2>2 DEF consume!Spurious, PoolTypeOK
    <3>2. Awake'
      BY SMTT(30), Z3T(60), <2>2 DEF consume!Spurious, PoolTypeOK, Awake, ActiveMaster, ActiveWorker, PoolReady, Pool
    <3>3. CellsOK' /\ ExactlyOnce' BY SMTT(30), Z3T(60), <2>2 DEF consume!Spurious, CellsOK, ExactlyOnce
    <3>. QED BY <3>1, <3>2, <3>3
  <2>. QED BY <2>1, <2>2
<1>3. CASE abort
  BY <1>3 DEF abort, PoolInv, PoolTypeOK, Awake, ActiveMaster, ActiveWorker, PoolReady, CellsOK, ExactlyOnce
<1>4. CASE UNCHANGED poolvars
  <2>1. PoolTypeOK' BY SMTT(30), Z3T(60), <1>4 DEF poolvars, PoolInv, PoolTypeOK
  <2>2. Awake' BY SMTT(30), Z3T(60), <1>4 DEF poolvars, PoolInv, Awake, ActiveMaster, ActiveWorker, PoolReady
  <2>3. CellsOK' /\ ExactlyOnce' BY SMTT(30), Z3T(60), <1>4 DEF poolvars, PoolInv, CellsOK, ExactlyOnce
  <2>. QED BY <2>1, <2>2, <2>3 DEF PoolInv
<1>. QED BY <1>1, <1>2, <1>3, <1>4 DEF PoolNext

\* If every thread sleeps or has returned, the sleepers' reasons contradict each
\* other: items in the buffer keep a worker up, space in it a master.
LEMMA AwakeNoDeadlock == PoolInv => NoDeadlock
<1>. SUFFICES ASSUME PoolInv, PoolReady \cup pwoken \cup cwoken = {} PROVE returned = Pool
  BY DEF NoDeadlock
<1>. USE ArgAssumption DEF PoolInv
<1>1. ~ActiveMaster /\ ~ActiveWorker BY DEF ActiveMaster, ActiveWorker
<1>2. curr_buf_size = 0 /\ item_to_produce = consume_cnt BY SMTT(30), Z3T(60), <1>1 DEF Awake, PoolTypeOK
<1>3. pwaiters = {} BY SMTT(30), Z3T(60), <1>1, <1>2 DEF Awake
<1>4. Masters \subseteq returned BY <1>3 DEF PoolReady, Pool, PoolTypeOK
<1>5. consume_cnt = total_items BY <1>2, <1>4 DEF Awake
<1>6. cwaiters = {} BY <1>1, <1>5 DEF Awake
<1>. QED BY <1>3, <1>6 DEF PoolReady, Pool, PoolTypeOK

\* For every number of masters, workers, items and cells, spurious wakeups or
\* not: each item is consumed exactly once unless the buffer has overflowed.
THEOREM ItemsConsumedOnce == PoolSpec => [](PoolTypeOK /\ ExactlyOnce)
BY InitPoolInv, StepPoolInv, PTL DEF PoolSpec, PoolInv

\* In the same generality the threads never sleep all at once: one of the two
\* loops can always go on until all have returned.
THEOREM PoolNeverStuck == PoolSpec => []NoDeadlock
BY InitPoolInv, StepPoolInv, AwakeNoDeadlock, PTL DEF PoolSpec

-----------------------------------------------------------------------------
\* One master, one worker, no spurious wakeups: nobody can take the space that
\* a woken master has been promised, or the item of a woken worker.
OnePair == (\E m : Masters = {m}) /\ (\E w : Workers = {w}) /\ ~PoolSpurious

PairInv ==
  /\ BufferBound
  /\ pwoken # {} => curr_buf_size < max_buf_size
  /\ cwoken # {} => curr_buf_size > 0
  /\ second = {}

\* With one master and one worker, every step keeps the buffer within its bounds.
LEMMA StepPairInv ==
  ASSUME OnePair
  PROVE  PoolInv /\ PairInv /\ [PoolNext]_poolvars => PairInv'
<1>. SUFFICES ASSUME PoolInv, PairInv, [PoolNext]_poolvars PROVE PairInv'
  OBVIOUS
<1>. USE ArgAssumption DEF PoolInv, PairInv, BufferBound, pvars, cvars, data
<1>0. curr_buf_size \in Nat /\ consume_cnt \in 0..total_items /\ curr_buf_size = item_to_produce - consume_cnt
      /\ item_to_produce \in 0..total_items
  BY DEF PoolTypeOK
<1>1. ASSUME Put PROVE curr_buf_size' = curr_buf_size + 1 /\ second' = second
  BY <1>1 DEF Put
<1>2. ASSUME Take PROVE curr_buf_size' = curr_buf_size - 1 /\ second' = second
  BY <1>2 DEF Take
<1>3. ASSUME NEW t \in Pool, generate_requests_loop(t) PROVE PairInv'
  <2>1. pwaiters = {} /\ pwoken = {} BY SMTT(30), Z3T(60), <1>3 DEF generate_requests_loop, PoolReady, OnePair, PoolTypeOK
  <2>. QED BY SMTT(30), Z3T(60), <1>0, <1>1, <1>3, <2>1
           DEF generate_requests_loop, produce!Wait, produce!Broadcast, Finish
<1>4. ASSUME NEW t \in Pool, produce_return(t) PROVE PairInv'
  <2>1. pwaiters = {} /\ pwoken = {t}
    BY SMTT(30), Z3T(60), <1>4 DEF produce_return, produce!Return, produce!ReturnBroadcast, OnePair, PoolTypeOK
  <2>. QED BY SMTT(30), Z3T(60), <1>0, <1>1, <1>4, <2>1 DEF produce_return, produce!Return, produce!ReturnBroadcast, Finish
<1>5. ASSUME NEW t \in Pool, consume_requests_loop(t) PROVE PairInv'
  <2>1. cwaiters = {} /\ cwoken = {} BY SMTT(30), Z3T(60), <1>5 DEF consume_requests_loop, PoolReady, OnePair, PoolTypeOK
  <2>. QED BY SMTT(30), Z3T(60), <1>0, <1>2, <1>5, <2>1 DEF consume_requests_loop, consume!Wait, consume!Broadcast, Finish
<1>6. ASSUME NEW t \in Pool, consume_return(t) PROVE PairInv'
  <2>1. cwaiters = {} /\ cwoken = {t}
    BY SMTT(30), Z3T(60), <1>6 DEF consume_return, consume!Return, consume!ReturnWait, consume!ReturnBroadcast, OnePair, PoolTypeOK
  <2>. QED BY SMTT(30), Z3T(60), <1>0, <1>2, <1>6, <2>1 DEF consume_return, consume!Return, consume!ReturnBroadcast, Finish
<1>7. ASSUME NEW t \in Pool, second_return(t) PROVE PairInv'
  BY <1>7 DEF second_return
<1>8. ASSUME NEW t \in Pool, pool_spurious(t) PROVE PairInv'
  BY <1>8 DEF pool_spurious, OnePair
<1>9. CASE abort \/ UNCHANGED poolvars
  BY <1>9 DEF abort, poolvars
<1>. QED BY <1>3, <1>4, <1>5, <1>6, <1>7, <1>8, <1>9 DEF PoolNext, PoolStep

\* With one master and one worker the buffer never overflows, for every number of
\* items and cells.
THEOREM PairBufferBound ==
  ASSUME OnePair
  PROVE  PoolSpec => []BufferBound
<1>1. PoolInit => PairInv
  BY SMTT(30), Z3T(60), ArgAssumption DEF PoolInit, produce!Init, consume!Init, PairInv, BufferBound
<1>2. PoolInv /\ PairInv /\ [PoolNext]_poolvars => PairInv'
  BY StepPairInv
<1>3. PairInv => BufferBound
  BY DEF PairInv
<1>. QED BY <1>1, <1>2, <1>3, InitPoolInv, StepPoolInv, PTL DEF PoolSpec
=============================================================================
