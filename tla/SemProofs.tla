----------------------------- MODULE SemProofs -----------------------------
(***************************************************************************)
(* Proofs about the semaphore SSU_Sem.c for every set of threads, every    *)
(* initial value and every history of calls, with spurious wakeups, and    *)
(* about its two test programs for every number of threads and rounds:     *)
(* they never get stuck and print their lines in the order asked for.      *)
(***************************************************************************)
EXTENDS MCSem, TLAPS

\* Zenon proves the steps that do not name another prover.  Those that need arithmetic or
\* Boolean-valued variables name two, the second for when the first runs out of time.
USE ZenonT(60)

(***************************************************************************)
(* Finite sets                                                             *)
(***************************************************************************)
\* Facts of the prover's library about finite sets.  They are proved where the library is
\* instantiated, behind the lemmas that assume them.
Elements ==
  /\ IsFiniteSet({}) /\ Cardinality({}) = 0
  /\ \A S : IsFiniteSet(S) =>
       /\ Cardinality(S) \in Nat /\ (Cardinality(S) = 0 <=> S = {})
       /\ \A x : /\ IsFiniteSet(S \cup {x})
                /\ Cardinality(S \cup {x}) = IF x \in S THEN Cardinality(S) ELSE Cardinality(S) + 1
       /\ \A x : /\ IsFiniteSet(S \ {x})
                /\ Cardinality(S \ {x}) = IF x \in S THEN Cardinality(S) - 1 ELSE Cardinality(S)
Smaller(T, S) ==
  IsFiniteSet(T) /\ Cardinality(T) <= Cardinality(S) /\ (Cardinality(S) = Cardinality(T) => S = T)
Subsets == \A S : IsFiniteSet(S) => \A T \in SUBSET S : Smaller(T, S)
Products ==
  \A S, T : IsFiniteSet(S) /\ IsFiniteSet(T) =>
    IsFiniteSet(S \X T) /\ Cardinality(S \X T) = Cardinality(S) * Cardinality(T)
Intervals == \A a, b \in Int : IsFiniteSet(a..b) /\ Cardinality(a..b) = IF a > b THEN 0 ELSE b - a + 1
Counting == Elements /\ Subsets /\ Products /\ Intervals

\* These facts one by one.
LEMMA CountEmpty ==
  ASSUME Counting
  PROVE  IsFiniteSet({}) /\ Cardinality({}) = 0 /\ \A S : IsFiniteSet(S) => (Cardinality(S) = 0 <=> S = {})
BY DEF Counting, Elements

\* A finite set has a natural number of elements.
LEMMA CountType == ASSUME Counting, NEW S, IsFiniteSet(S) PROVE Cardinality(S) \in Nat
BY DEF Counting, Elements

\* Adding an element adds at most one.
LEMMA CountAdd ==
  ASSUME Counting, NEW S, NEW x, IsFiniteSet(S)
  PROVE  /\ IsFiniteSet(S \cup {x})
         /\ Cardinality(S \cup {x}) = IF x \in S THEN Cardinality(S) ELSE Cardinality(S) + 1
BY DEF Counting, Elements

\* Removing an element takes away at most one.
LEMMA CountRemove ==
  ASSUME Counting, NEW S, NEW x, IsFiniteSet(S)
  PROVE  /\ IsFiniteSet(S \ {x})
         /\ Cardinality(S \ {x}) = IF x \in S THEN Cardinality(S) - 1 ELSE Cardinality(S)
BY DEF Counting, Elements

\* A subset is finite and has fewer elements, or is the whole set.
LEMMA CountSubset ==
  ASSUME Counting, NEW S, IsFiniteSet(S), NEW T \in SUBSET S
  PROVE  /\ IsFiniteSet(T) /\ Cardinality(T) <= Cardinality(S)
         /\ Cardinality(S) = Cardinality(T) => S = T
<1>1. Smaller(T, S) BY DEF Counting, Subsets
<1>. QED BY <1>1 DEF Smaller

\* The pairs of two finite sets.
LEMMA CountProduct ==
  ASSUME Counting, NEW S, IsFiniteSet(S), NEW T, IsFiniteSet(T)
  PROVE  IsFiniteSet(S \X T) /\ Cardinality(S \X T) = Cardinality(S) * Cardinality(T)
BY DEF Counting, Products

\* The numbers from a to b.
LEMMA CountInterval ==
  ASSUME Counting, NEW a \in Int, NEW b \in Int
  PROVE  IsFiniteSet(a..b) /\ Cardinality(a..b) = IF a > b THEN 0 ELSE b - a + 1
BY DEF Counting, Intervals

(***************************************************************************)
(* SSU_Sem.c                                                               *)
(***************************************************************************)

\* The waiters and the woken threads are finite sets of threads.
LEMMA SemFinite ==
  ASSUME Counting, SemTypeOK
  PROVE  /\ IsFiniteSet(waiters) /\ Cardinality(waiters) \in Nat
         /\ IsFiniteSet(woken) /\ Cardinality(woken) \in Nat
BY SemAssumption, CountSubset, CountType DEF SemTypeOK

\* What each operation does to the two sets and to the value, with the sizes
\* of the sets: the only facts about cardinality the proofs below need.
LEMMA DownEffect ==
  ASSUME Counting, SemTypeOK, NEW t \in Idle, SSU_Sem_down(t), UNCHANGED spuriousCnt
  PROVE  /\ SemTypeOK' /\ value' = value - 1
         /\ Cardinality(woken') = Cardinality(woken)
         /\ Cardinality(waiters') = Cardinality(waiters) + (IF value' < 0 THEN 1 ELSE 0)
<1>1. t \notin waiters BY DEF Idle
<1>2. SemTypeOK' BY SMTT(30), Z3T(60) DEF SemTypeOK, SSU_Sem_down, Idle, cond!Wait
<1>3. CASE value' < 0
  BY <1>1, <1>2, <1>3, SemFinite, CountAdd DEF SSU_Sem_down, cond!Wait
<1>4. CASE ~(value' < 0)
  BY SMTT(30), Z3T(60), <1>2, <1>4, SemFinite DEF SSU_Sem_down
<1>. QED BY <1>3, <1>4

\* A signal moves one waiter, if there is one.
LEMMA SignalEffect ==
  ASSUME Counting, SemTypeOK, cond!Signal
  PROVE  /\ waiters' \subseteq Threads /\ woken' \subseteq Threads \ waiters'
         /\ \/ waiters = {} /\ UNCHANGED <<waiters, woken>>
            \/ /\ Cardinality(waiters) > 0
               /\ Cardinality(waiters') = Cardinality(waiters) - 1
               /\ Cardinality(woken') = Cardinality(woken) + 1
<1>1. CASE waiters = {} /\ UNCHANGED <<waiters, woken>>
  BY <1>1 DEF SemTypeOK
<1>2. ASSUME NEW t \in waiters, waiters' = waiters \ {t}, woken' = woken \cup {t}
      PROVE  /\ Cardinality(waiters) > 0
             /\ Cardinality(waiters') = Cardinality(waiters) - 1
             /\ Cardinality(woken') = Cardinality(woken) + 1
  <2>1. t \notin woken BY DEF SemTypeOK
  <2>2. Cardinality(waiters') = Cardinality(waiters) - 1
    BY <1>2, SemFinite, CountRemove
  <2>3. Cardinality(woken') = Cardinality(woken) + 1
    BY <1>2, <2>1, SemFinite, CountAdd
  <2>4. Cardinality(waiters) # 0
    BY SemFinite, CountEmpty
  <2>. QED BY SMTT(30), Z3T(60), <2>2, <2>3, <2>4, SemFinite
<1>3. ASSUME NEW t \in waiters, waiters' = waiters \ {t}, woken' = woken \cup {t}
      PROVE  waiters' \subseteq Threads /\ woken' \subseteq Threads \ waiters'
  BY <1>3 DEF SemTypeOK
<1>. QED BY <1>1, <1>2, <1>3 DEF cond!Signal, cond!cvars

\* An up wakes a waiter whenever there is one.
LEMMA UpEffect ==
  ASSUME Counting, SemTypeOK, ValueCountsWaiters, SSU_Sem_up, UNCHANGED spuriousCnt
  PROVE  /\ SemTypeOK' /\ ValueCountsWaiters' /\ value' = value + 1
         /\ Cardinality(waiters') + Cardinality(woken') = Cardinality(waiters) + Cardinality(woken)
<1>. USE SemFinite
<1>1. value' = value + 1 /\ value \in Int /\ spuriousCnt \in Nat BY DEF SSU_Sem_up, SemTypeOK
<1>2. CASE value < 0
  <2>1. cond!Signal BY SMTT(30), Z3T(60), <1>1, <1>2 DEF SSU_Sem_up
  <2>2. SemTypeOK' BY SMTT(30), Z3T(60), <1>1, <2>1, SignalEffect DEF SemTypeOK
  <2>3. waiters = {} => Cardinality(waiters) = 0 BY CountEmpty
  <2>. QED BY SMTT(30), Z3T(60), <1>1, <1>2, <2>1, <2>2, <2>3, SignalEffect DEF ValueCountsWaiters
<1>3. CASE value >= 0
  BY SMTT(30), Z3T(60), <1>1, <1>3 DEF SSU_Sem_up, SemTypeOK, ValueCountsWaiters
<1>. QED BY SMTT(30), Z3T(60), <1>1, <1>2, <1>3

\* A thread that returns from pthread_cond_wait changes nothing but woken.
LEMMA ReturnEffect ==
  ASSUME Counting, SemTypeOK, NEW t \in Threads, down_return(t), UNCHANGED spuriousCnt
  PROVE  /\ SemTypeOK' /\ UNCHANGED <<value, waiters>>
         /\ Cardinality(woken) > 0 /\ Cardinality(woken') = Cardinality(woken) - 1
<1>. USE DEF down_return, cond!Return
<1>1. Cardinality(woken') = Cardinality(woken) - 1 BY SemFinite, CountRemove
<1>2. Cardinality(woken) # 0 BY SemFinite, CountEmpty
<1>. QED BY SMTT(30), Z3T(60), <1>1, <1>2, SemFinite DEF SemTypeOK

\* A spurious wakeup moves one waiter to the woken threads.
LEMMA WakeupEffect ==
  ASSUME Counting, SemTypeOK, Wakeup
  PROVE  /\ SemTypeOK' /\ UNCHANGED value /\ spuriousCnt' = spuriousCnt + 1
         /\ Cardinality(waiters') = Cardinality(waiters) - 1
         /\ Cardinality(woken') = Cardinality(woken) + 1
<1>1. PICK t \in Threads : down_spurious(t) BY DEF Wakeup
<1>2. Cardinality(waiters') = Cardinality(waiters) - 1
  BY <1>1, SemFinite, CountRemove DEF down_spurious, cond!Spurious
<1>3. Cardinality(woken') = Cardinality(woken) + 1
  BY <1>1, SemFinite, CountAdd DEF down_spurious, cond!Spurious, SemTypeOK
<1>4. SemTypeOK'
  BY SMTT(30), Z3T(60), <1>1 DEF down_spurious, cond!Spurious, SemTypeOK, Wakeup
<1>. QED BY <1>1, <1>2, <1>3, <1>4 DEF down_spurious, Wakeup

\* The inductive invariant.  ValueCountsWaiters is inductive once the sets are
\* known to be finite.
SemInv == SemTypeOK /\ ValueCountsWaiters

\* SSU_Sem_init establishes the invariant: nobody sleeps at a value >= 0.
LEMMA SemInitInv ==
  ASSUME Counting
  PROVE  SemInit => SemInv
<1>1. Cardinality({}) = 0 BY CountEmpty
<1>. QED
  BY SMTT(30), Z3T(60), <1>1, SemAssumption
  DEF SemInit, SSU_Sem_init, cond!Init, SemInv, SemTypeOK, ValueCountsWaiters

\* Every call, return and spurious wakeup preserves the invariant.
LEMMA SemStepInv ==
  ASSUME Counting
  PROVE  SemInv /\ [SemNext]_semvars => SemInv'
<1>. SUFFICES ASSUME SemInv, [SemNext]_semvars PROVE SemInv'
  OBVIOUS
<1>. USE SemFinite DEF SemInv
<1>0. value \in Int /\ spuriousCnt \in Nat BY DEF SemTypeOK
<1>1. CASE Down
  <2>1. PICK t \in Idle : SSU_Sem_down(t) BY <1>1 DEF Down
  <2>2. UNCHANGED spuriousCnt BY <1>1 DEF Down
  <2>. QED BY SMTT(30), Z3T(60), <1>0, <2>1, <2>2, DownEffect DEF ValueCountsWaiters
<1>2. CASE Up
  BY <1>2, UpEffect DEF Up
<1>3. CASE Return
  BY <1>3, ReturnEffect DEF Return, ValueCountsWaiters
<1>4. CASE Wakeup
  BY SMTT(30), Z3T(60), <1>0, <1>4, WakeupEffect DEF ValueCountsWaiters
<1>5. CASE UNCHANGED semvars
  BY <1>5 DEF semvars, svars, SemTypeOK, ValueCountsWaiters
<1>. QED BY <1>1, <1>2, <1>3, <1>4, <1>5 DEF SemNext

\* One step of the code is a step of the counting semaphore or a stutter.
LEMMA SemStepRefines ==
  ASSUME Counting
  PROVE  SemInv /\ [SemNext]_semvars => [Semaphore!Next]_Permits
<1>. SUFFICES ASSUME SemInv, [SemNext]_semvars PROVE [Semaphore!Next]_Permits
  OBVIOUS
<1>. USE SemFinite DEF SemInv
<1>0. /\ value \in Int /\ spuriousCnt \in Nat
      /\ Cardinality(waiters) >= -value - spuriousCnt
  BY DEF SemTypeOK, ValueCountsWaiters
<1>1. CASE Down
  <2>1. PICK t \in Idle : SSU_Sem_down(t) BY <1>1 DEF Down
  <2>0. UNCHANGED spuriousCnt BY <1>1 DEF Down
  <2>2. CASE value' < 0
    BY SMTT(30), Z3T(60), <1>0, <2>0, <2>1, <2>2, DownEffect DEF Permits
  <2>3. CASE ~(value' < 0)
    BY SMTT(30), Z3T(60), <1>0, <2>0, <2>1, <2>3, DownEffect DEF Permits, Semaphore!Next, Semaphore!Acquire
  <2>. QED BY <2>2, <2>3
<1>2. CASE Up
  <2>1. SSU_Sem_up /\ UNCHANGED spuriousCnt BY <1>2 DEF Up
  <2>2. Cardinality(waiters') \in Nat /\ Cardinality(woken') \in Nat
    BY <2>1, UpEffect, CountSubset, CountType, SemAssumption DEF SemTypeOK
  <2>3. Permits' = Permits + 1 BY SMTT(30), Z3T(60), <1>0, <2>1, <2>2, UpEffect DEF Permits
  <2>. QED BY <2>3 DEF Semaphore!Next, Semaphore!Release
<1>3. CASE Return
  <2>1. PICK t \in Threads : down_return(t) BY <1>3 DEF Return
  <2>2. UNCHANGED spuriousCnt BY <1>3 DEF Return
  <2>3. Permits > 0 /\ Permits' = Permits - 1
    BY SMTT(30), Z3T(60), <1>0, <2>1, <2>2, ReturnEffect DEF Permits
  <2>. QED BY <2>3 DEF Semaphore!Next, Semaphore!Acquire
<1>4. CASE Wakeup
  <2>1. Permits' = Permits + 1 BY SMTT(30), Z3T(60), <1>0, <1>4, WakeupEffect DEF Permits
  <2>. QED BY <2>1 DEF Semaphore!Next, Semaphore!Release
<1>5. CASE UNCHANGED semvars
  BY <1>5 DEF semvars, svars, Permits
<1>. QED BY <1>1, <1>2, <1>3, <1>4, <1>5 DEF SemNext

(***************************************************************************)
(* SSU_Sem_test.c and SSU_Sem_toggle_test.c                                *)
(***************************************************************************)
\* The length of main's first loop in the toggle program and the number of rounds of its
\* second one.
Loop == 2 * NUM_THREADS
Rounds == NUM_ITER * NUM_THREADS

\* How many operations a thread has in program g, and what its n-th one is.
ChildLen(g, w) == IF g = "toggle" THEN 3 * NUM_ITER + 1 ELSE IF w \in {0, 1} THEN 3 ELSE 0
ChildAt(g, w, n) ==
  IF n = ChildLen(g, w) + 1 THEN "end"
  ELSE IF g = "toggle" THEN IF n % 3 = 0 THEN "print" ELSE IF n % 3 = 1 THEN "up" ELSE "down"
  ELSE IF n = 1 THEN "down" ELSE IF n = 2 THEN "print" ELSE "up"
MainLen(g) == IF g = "toggle" THEN Loop + 2 * Rounds + NUM_THREADS ELSE 11
MainAt(g, n) ==
  IF n = MainLen(g) + 1 THEN "end"
  ELSE IF g = "toggle" THEN IF n > Loop + 2 * Rounds THEN "join"
                            ELSE IF n % 2 = 0 THEN "down" ELSE IF n <= Loop THEN "create" ELSE "up"
  ELSE IF n \in {1, 2} THEN "create" ELSE IF n \in {3, 6, 9} THEN "print"
  ELSE IF n \in {4, 7} THEN "up" ELSE IF n \in {5, 8} THEN "down" ELSE "join"

\* What the threads do next.
Does(w) == ChildAt(program, w, pc[w])
MainDoes == MainAt(program, pc[main])

\* Whoever waits is in the operation that its program has just begun.
ThreadsOK ==
  /\ program \in {"test", "toggle"} /\ pc \in [Threads -> Nat] /\ out \in Seq(Threads)
  /\ pc[main] \in 1..MainLen(program) + 1
  /\ \A w \in Children : pc[w] \in 1..ChildLen(program, w) + 1
  /\ created \subseteq Threads /\ main \in created /\ \A w \in Children \ created : pc[w] = 1
SleepersOK ==
  /\ waiters \cup woken \subseteq Children \cap created
  /\ \A w \in waiters \cup woken : Does(w) = "print"
  /\ parentWaiters \subseteq {main} /\ parentWoken \subseteq {main} \ parentWaiters
  /\ parentValue \in Int /\ (parentWaiters # {} => parentValue < 0)
  /\ parentWaiters \cup parentWoken # {} => pc[main] > 1 /\ MainAt(program, pc[main] - 1) = "down"

\* The threads that exist when main is at position n.
Exist(g, n) ==
  {main} \cup {w \in Children : IF g = "toggle" THEN 2 * w + 1 < n ELSE w \in {0, 1} /\ w + 1 < n}

\* The child semaphore counts what main has put up and the children have taken down.
Ups(g, n) ==
  IF g = "toggle"
    THEN IF n <= Loop + 1 THEN 0 ELSE IF n <= Loop + 2 * Rounds THEN (n - Loop) \div 2 ELSE Rounds
    ELSE IF n <= 4 THEN 0 ELSE IF n <= 7 THEN 1 ELSE 2
Turns(g, n) == IF g = "toggle" THEN n \div 3 ELSE IF n > 1 THEN 1 ELSE 0
Taken == {x \in Children \X (1..NUM_ITER + 1) : x[2] <= Turns(program, pc[x[1]])}

\* The two semaphores together count the children between their down and their up.
Engaged == {w \in Children \cap created : Does(w) \in {"print", "up"}}
CountsOK ==
  /\ value = Ups(program, pc[main]) - Cardinality(Taken)
  /\ Cardinality(Engaged) = (IF MainDoes = "down" THEN 1 ELSE 0) - parentValue - value

\* Main and the children take turns: either main goes on or it has asked for one round,
\* and one permit, one woken child or one busy child is on the way to answer it.
Busy(w) == w \in Engaged \ (waiters \cup woken)
NoneBusy == \A w \in Children : ~Busy(w)
MainSleeps == parentWaiters \cup parentWoken # {}
Free == ~MainSleeps /\ MainDoes # "down" /\ parentValue = 0
Asked == \/ ~MainSleeps /\ MainDoes = "down" /\ parentValue = 0
         \/ parentWaiters = {main} /\ parentValue = -1
Answered == \/ ~MainSleeps /\ MainDoes = "down" /\ parentValue = 1
            \/ parentWoken = {main} /\ parentValue = 0
OneTurn ==
  \/ (Free \/ Answered) /\ value <= 0 /\ woken = {} /\ NoneBusy
  \/ Asked /\ value = 1 /\ woken = {} /\ NoneBusy
  \/ Asked /\ value <= 0 /\ NoneBusy /\ \E w \in Children : woken = {w}
  \/ Asked /\ value <= 0 /\ woken = {} /\ \E w \in Children : Busy(w) /\ \A v \in Children : Busy(v) => v = w

\* The lines on stdout when main is at position n and its last request is answered.
Lines(g, n) ==
  IF g = "toggle" THEN (n - Loop) \div 2
  ELSE IF n <= 3 THEN 0 ELSE IF n = 4 THEN 1 ELSE IF n <= 6 THEN 2 ELSE IF n = 7 THEN 3
  ELSE IF n <= 9 THEN 4 ELSE 5
HasPrinted == \E w \in Children : Busy(w) /\ Does(w) = "up"
Creating == program = "toggle" /\ pc[main] <= Loop + 1
OutOK ==
  /\ program = "test" => \A k \in 1..Len(out) : out[k] = main <=> k % 2 = 1
  /\ Creating => out = <<>> /\ value <= 0 /\ woken = {} /\ \A w \in Children : Busy(w) => Does(w) = "up"
  /\ ~Creating /\ (program = "toggle" => pc[main] <= Loop + 2 * Rounds + 1) =>
       Len(out) = Lines(program, pc[main]) - (IF Asked /\ ~HasPrinted THEN 1 ELSE 0)

TestInv ==
  program # "any" =>
    /\ ThreadsOK /\ SleepersOK /\ created = Exist(program, pc[main]) /\ CountsOK
    /\ spuriousCnt = 0 => OneTurn /\ OutOK

\* Thread t can go on: it has been signalled, or its next operation does not block.
CanRun(t) ==
  \/ t \in woken \cup parentWoken
  \/ /\ t \in created /\ ~Blocked(t) /\ pc[t] <= Len(Ops(t))
     /\ \A u \in Children : Ops(t)[pc[t]] = <<"join", u>> => Finished(u)
NeverStuck == program # "any" => AllFinished \/ \E t \in Threads : CanRun(t)

\* What the sequences of SemTests hold, position by position.
LEMMA ChildToggle ==
  /\ Len(justprint) = 3 * NUM_ITER + 1
  /\ \A n \in 1..3 * NUM_ITER + 1 :
       justprint[n] = IF n % 3 = 0 THEN <<"print">> ELSE IF n % 3 = 1 THEN <<"up", "parent">>
                            ELSE <<"down", "child">>
<1>. DEFINE s == [i \in 1..3 * NUM_ITER |-> down_print_up[1 + ((i - 1) % 3)]]
            one == << <<"up", "parent">> >>
            Op == {<<"print">>, <<"up", "parent">>, <<"down", "child">>}
<1>1. \A i \in 1..3 * NUM_ITER : s[i] \in Op
  BY SMTT(30), Z3T(60), TestAssumption DEF down_print_up
<1>2. s \in Seq(Op) /\ Len(s) = 3 * NUM_ITER
  BY SMTT(30), Z3T(60), <1>1, TestAssumption
<1>3. one \in Seq(Op) /\ Len(one) = 1 /\ one[1] = <<"up", "parent">>
  BY SMTT(30), Z3T(60)
<1>. QED
  BY SMTT(30), Z3T(60), <1>2, <1>3, TestAssumption DEF justprint, down_print_up

\* The places of a concatenation.
Joined(a, b) ==
  /\ Len(a \o b) = Len(a) + Len(b)
  /\ \A n \in 1..Len(a) + Len(b) : (a \o b)[n] = IF n <= Len(a) THEN a[n] ELSE b[n - Len(a)]

\* It is made of the two parts, at their places.
LEMMA Concat ==
  ASSUME NEW Op, NEW a \in Seq(Op), NEW b \in Seq(Op)
  PROVE  a \o b \in Seq(Op) /\ Joined(a, b)
BY SMTT(30), Z3T(60) DEF Joined

\* The same for main of SSU_Sem_toggle_test.c: three loops, one behind the other.
LEMMA MainToggle ==
  LET s == CreateLoop \o PrintLoop \o JoinLoop IN
  /\ Len(s) = MainLen("toggle")
  /\ \A n \in 1..MainLen("toggle") :
       s[n] = IF n > Loop + 2 * Rounds THEN <<"join", n - Loop - 2 * Rounds - 1>>
              ELSE IF n % 2 = 0 THEN <<"down", "parent">>
              ELSE IF n <= Loop THEN <<"create", (n - 1) \div 2>> ELSE <<"up", "child">>
<1>. DEFINE Op == {<<"up", "child">>, <<"down", "parent">>}
                    \cup {<<"create", k>> : k \in Int} \cup {<<"join", k>> : k \in Int}
            a == CreateLoop
            b == PrintLoop
            c == JoinLoop
<1>0. PICK K \in Nat : K = Rounds
  BY SMTT(30), Z3T(60), TestAssumption DEF Rounds
<1>1. 2 * NUM_ITER * NUM_THREADS = 2 * K
  BY SMTT(30), Z3T(60), <1>0, TestAssumption DEF Rounds
<1>2. a \in Seq(Op) /\ Len(a) = Loop
  BY SMTT(30), Z3T(60), TestAssumption DEF CreateLoop, Loop
<1>3. b \in Seq(Op) /\ Len(b) = 2 * K
  BY SMTT(30), Z3T(60), <1>1, TestAssumption DEF PrintLoop
<1>4. c \in Seq(Op) /\ Len(c) = NUM_THREADS
  BY SMTT(30), Z3T(60), TestAssumption DEF JoinLoop
<1>5. \A i \in 1..Loop : a[i] = IF i % 2 = 0 THEN <<"down", "parent">> ELSE <<"create", (i - 1) \div 2>>
  BY SMTT(30), Z3T(60), TestAssumption DEF CreateLoop, Loop
<1>6. \A i \in 1..2 * K : b[i] = IF i % 2 = 0 THEN <<"down", "parent">> ELSE <<"up", "child">>
  BY SMTT(30), Z3T(60), <1>1, TestAssumption DEF PrintLoop
<1>7. \A i \in 1..NUM_THREADS : c[i] = <<"join", i - 1>>
  BY SMTT(30), Z3T(60), TestAssumption DEF JoinLoop
<1>8. MainLen("toggle") = Loop + 2 * K + NUM_THREADS
  BY SMTT(30), Z3T(60), <1>0 DEF MainLen
<1>. HIDE DEF a, b, c, Op
<1>9. /\ a \o b \in Seq(Op) /\ Len(a \o b) = Loop + 2 * K
      /\ \A n \in 1..Loop + 2 * K : (a \o b)[n] = IF n <= Loop THEN a[n] ELSE b[n - Loop]
  <2>1. a \o b \in Seq(Op) /\ Joined(a, b) BY <1>2, <1>3, Concat
  <2>. QED BY <1>2, <1>3, <2>1 DEF Joined
<1>10. /\ Len((a \o b) \o c) = Loop + 2 * K + NUM_THREADS
       /\ \A n \in 1..Loop + 2 * K + NUM_THREADS :
            ((a \o b) \o c)[n] = IF n <= Loop + 2 * K THEN (a \o b)[n] ELSE c[n - (Loop + 2 * K)]
  <2>. DEFINE d == a \o b
  <2>1. d \in Seq(Op) /\ Len(d) = Loop + 2 * K BY <1>9
  <2>. HIDE DEF d
  <2>2. Joined(d, c) BY <1>4, <2>1, Concat
  <2>3. /\ Len(d \o c) = Loop + 2 * K + NUM_THREADS
        /\ \A n \in 1..Loop + 2 * K + NUM_THREADS :
            (d \o c)[n] = IF n <= Loop + 2 * K THEN d[n] ELSE c[n - (Loop + 2 * K)]
    BY <1>4, <2>1, <2>2 DEF Joined
  <2>. QED BY <2>3 DEF d
<1>11. ASSUME NEW n \in 1..Loop + 2 * K + NUM_THREADS
       PROVE  ((a \o b) \o c)[n] =
              IF n > Loop + 2 * K THEN <<"join", n - Loop - 2 * K - 1>>
              ELSE IF n % 2 = 0 THEN <<"down", "parent">>
              ELSE IF n <= Loop THEN <<"create", (n - 1) \div 2>> ELSE <<"up", "child">>
  <2>0. Loop \in Nat /\ Loop = 2 * NUM_THREADS /\ n \in Nat BY SMTT(30), Z3T(60), TestAssumption DEF Loop
  <2>1. CASE n > Loop + 2 * K
    <3>1. n - (Loop + 2 * K) \in 1..NUM_THREADS /\ n - (Loop + 2 * K) - 1 = n - Loop - 2 * K - 1
      BY SMTT(30), Z3T(60), <2>0, <2>1, TestAssumption
    <3>2. ~(n <= Loop + 2 * K) BY SMTT(30), Z3T(60), <2>0, <2>1
    <3>3. ((a \o b) \o c)[n] = c[n - (Loop + 2 * K)] BY <1>10, <3>2
    <3>. QED BY <1>7, <2>1, <3>1, <3>3
  <2>2. CASE n <= Loop
    <3>1. n \in 1..Loop /\ n \in 1..Loop + 2 * K /\ ~(n > Loop + 2 * K) /\ n <= Loop + 2 * K
      BY SMTT(30), Z3T(60), <2>0, <2>2
    <3>2. ((a \o b) \o c)[n] = a[n] BY <1>9, <1>10, <2>2, <3>1
    <3>. QED BY <1>5, <2>2, <3>1, <3>2
  <2>3. CASE ~(n <= Loop) /\ ~(n > Loop + 2 * K)
    <3>1. /\ n - Loop \in 1..2 * K /\ ((n - Loop) % 2 = 0 <=> n % 2 = 0)
          /\ n \in 1..Loop + 2 * K /\ n <= Loop + 2 * K
      BY SMTT(30), Z3T(60), <2>0, <2>3, TestAssumption
    <3>2. ((a \o b) \o c)[n] = b[n - Loop] BY <1>9, <1>10, <2>3, <3>1
    <3>. QED BY <1>6, <2>3, <3>1, <3>2
  <2>. QED BY <2>1, <2>2, <2>3
<1>. QED
  BY <1>0, <1>8, <1>10, <1>11 DEF a, b, c

\* The thread of SSU_Sem_test.c goes down, prints and goes up once.
LEMMA ChildTest ==
  /\ Len(down_print_up) = 3
  /\ \A n \in 1..3 :
       down_print_up[n] = IF n = 1 THEN <<"down", "child">> ELSE IF n = 2 THEN <<"print">>
                                ELSE <<"up", "parent">>
BY SMTT(30), Z3T(60) DEF down_print_up

\* Main of SSU_Sem_test.c: the eleven calls in a row.
LEMMA MainTest ==
  /\ Len(test_main) = 11
  /\ \A n \in 1..11 :
       test_main[n] = IF n \in {1, 2} THEN <<"create", n - 1>> ELSE IF n \in {3, 6, 9} THEN <<"print">>
                            ELSE IF n \in {4, 7} THEN <<"up", "child">>
                            ELSE IF n \in {5, 8} THEN <<"down", "parent">> ELSE <<"join", n - 10>>
BY SMTT(30), Z3T(60) DEF test_main

\* A child goes round from its down to its line, to its up and to the next down.
ChildMoves(g, w, n, op) ==
  /\ n + 1 \in 1..ChildLen(g, w) + 1
  /\ \/ /\ op = <<"down", "child">> /\ ChildAt(g, w, n) = "down" /\ ChildAt(g, w, n + 1) = "print"
        /\ Turns(g, n + 1) = Turns(g, n) + 1
     \/ /\ op = <<"print">> /\ ChildAt(g, w, n) = "print" /\ ChildAt(g, w, n + 1) = "up"
        /\ Turns(g, n + 1) = Turns(g, n)
     \/ /\ op = <<"up", "parent">> /\ ChildAt(g, w, n) = "up" /\ ChildAt(g, w, n + 1) \in {"down", "end"}
        /\ Turns(g, n + 1) = Turns(g, n)

\* Where a child's next operation leads, in both programs.
LEMMA ChildStep ==
  ASSUME NEW g \in {"test", "toggle"}, NEW w \in Children, NEW n \in 1..ChildLen(g, w) + 1
  PROVE  /\ Len(Programs[g][w]) = ChildLen(g, w)
         /\ n <= ChildLen(g, w) => ChildMoves(g, w, n, Programs[g][w][n])
         /\ n > ChildLen(g, w) <=> ChildAt(g, w, n) = "end"
<1>0. w \in Threads /\ w # main BY DEF Children
<1>1. CASE g = "toggle"
  <2>1. Programs[g][w] = justprint BY SMTT(30), Z3T(60), <1>0, <1>1 DEF Programs
  <2>2. ChildLen(g, w) = 3 * NUM_ITER + 1 BY <1>1 DEF ChildLen
  <2>3. n \in Nat /\ NUM_ITER \in Nat /\ n >= 1 /\ n <= 3 * NUM_ITER + 2
    BY SMTT(30), Z3T(60), <2>2, TestAssumption
  <2>4. n > ChildLen(g, w) <=> ChildAt(g, w, n) = "end"
    BY SMTT(30), Z3T(60), <1>1, <2>2, <2>3 DEF ChildAt
  <2>5. ASSUME n <= ChildLen(g, w) PROVE ChildMoves(g, w, n, justprint[n])
    <3>1. n \in 1..3 * NUM_ITER + 1 BY SMTT(30), Z3T(60), <2>2, <2>3, <2>5
    <3>2. justprint[n] = IF n % 3 = 0 THEN <<"print">> ELSE IF n % 3 = 1 THEN <<"up", "parent">>
                               ELSE <<"down", "child">>
      BY <3>1, ChildToggle
    <3>3. Turns(g, n) = n \div 3 /\ Turns(g, n + 1) = (n + 1) \div 3 BY <1>1 DEF Turns
    <3>4. n + 1 \in 1..ChildLen(g, w) + 1 BY SMTT(30), Z3T(60), <2>2, <3>1, TestAssumption
    <3>5. CASE n % 3 = 0
      BY SMTT(30), Z3T(60), <1>1, <2>2, <2>3, <3>1, <3>2, <3>3, <3>4, <3>5 DEF ChildAt, ChildMoves
    <3>6. CASE n % 3 = 1
      BY SMTT(30), Z3T(60), <1>1, <2>2, <2>3, <3>1, <3>2, <3>3, <3>4, <3>6 DEF ChildAt, ChildMoves
    <3>7. CASE n % 3 = 2
      BY SMTT(30), Z3T(60), <1>1, <2>2, <2>3, <3>1, <3>2, <3>3, <3>4, <3>7 DEF ChildAt, ChildMoves
    <3>. QED BY SMTT(30), Z3T(60), <2>3, <3>5, <3>6, <3>7
  <2>. QED BY <2>1, <2>2, <2>4, <2>5, ChildToggle
<1>2. CASE g = "test" /\ w \in {0, 1}
  <2>1. Programs[g][w] = down_print_up BY SMTT(30), Z3T(60), <1>0, <1>2 DEF Programs
  <2>2. ChildLen(g, w) = 3 BY SMTT(30), Z3T(60), <1>2 DEF ChildLen
  <2>3. n \in 1..4 BY SMTT(30), Z3T(60), <2>2
  <2>4. n > ChildLen(g, w) <=> ChildAt(g, w, n) = "end"
    BY SMTT(30), Z3T(60), <1>2, <2>2, <2>3 DEF ChildAt
  <2>5. ASSUME n <= ChildLen(g, w) PROVE ChildMoves(g, w, n, down_print_up[n])
    BY SMTT(30), Z3T(60), <1>2, <2>2, <2>3, <2>5, ChildTest DEF ChildAt, ChildMoves, Turns
  <2>. QED BY <2>1, <2>2, <2>4, <2>5, ChildTest
<1>3. CASE g = "test" /\ ~(w \in {0, 1})
  <2>1. Programs[g][w] = <<>> BY SMTT(30), Z3T(60), <1>0, <1>3 DEF Programs
  <2>2. ChildLen(g, w) = 0 BY SMTT(30), Z3T(60), <1>3 DEF ChildLen
  <2>. QED BY SMTT(30), Z3T(60), <2>1, <2>2 DEF ChildAt
<1>. QED BY <1>1, <1>2, <1>3

\* Halves of even and of odd numbers.
LEMMA Halves ==
  ASSUME NEW k \in Nat
  PROVE  /\ k % 2 = 0 => (k + 1) \div 2 = k \div 2 /\ k = 2 * (k \div 2)
         /\ k % 2 # 0 => (k + 1) \div 2 = k \div 2 + 1 /\ k = 2 * (k \div 2) + 1
         /\ k \div 2 \in Nat
BY SMTT(30), Z3T(60)

\* Adding an even number keeps the parity.
LEMMA Parity == ASSUME NEW n \in Nat, NEW k \in Nat PROVE (n + 2 * k) % 2 = n % 2
BY SMTT(30), Z3T(60)

\* What the number of threads says of the length of the loops.
LEMMA Sizes == Loop \in Nat /\ Loop = 2 * NUM_THREADS /\ Loop >= 4 /\ Rounds \in Nat
BY SMTT(30), Z3T(60), TestAssumption DEF Loop, Rounds

\* Main asks for an answer with every up of child, and in the first loop of the
\* toggle program with every create.
MainMoves(g, n, op) ==
  /\ n + 1 \in 1..MainLen(g) + 1
  /\ \/ /\ \E u \in Children : /\ op = <<"create", u>> /\ u \notin Exist(g, n)
                               /\ Exist(g, n + 1) = Exist(g, n) \cup {u} /\ ChildLen(g, u) > 0
        /\ MainAt(g, n) = "create" /\ Ups(g, n + 1) = Ups(g, n)
        /\ MainAt(g, n + 1) \in IF g = "toggle" THEN {"down"} ELSE {"create", "print"}
     \/ /\ op = <<"print">> /\ MainAt(g, n) = "print" /\ MainAt(g, n + 1) \in {"up", "join"}
        /\ Exist(g, n + 1) = Exist(g, n) /\ Ups(g, n + 1) = Ups(g, n)
     \/ /\ op = <<"up", "child">> /\ MainAt(g, n) = "up" /\ MainAt(g, n + 1) = "down"
        /\ Exist(g, n + 1) = Exist(g, n) /\ Ups(g, n + 1) = Ups(g, n) + 1
     \/ /\ op = <<"down", "parent">> /\ MainAt(g, n) = "down"
        /\ MainAt(g, n + 1) \in {"create", "up", "print", "join"}
        /\ Exist(g, n + 1) = Exist(g, n) /\ Ups(g, n + 1) = Ups(g, n)
     \/ /\ \E u \in Children \cap Exist(g, n) : op = <<"join", u>>
        /\ MainAt(g, n) = "join" /\ MainAt(g, n + 1) \in {"join", "end"}
        /\ Exist(g, n + 1) = Exist(g, n) /\ Ups(g, n + 1) = Ups(g, n)

\* Where main's next operation leads, in both programs.
LEMMA MainStep ==
  ASSUME NEW g \in {"test", "toggle"}, NEW n \in 1..MainLen(g) + 1
  PROVE  /\ Len(Programs[g][main]) = MainLen(g)
         /\ n <= MainLen(g) => MainMoves(g, n, Programs[g][main][n])
         /\ n > MainLen(g) <=> MainAt(g, n) = "end"
<1>0. main \in Threads /\ Children = 0..NUM_THREADS - 1 /\ NUM_THREADS \in Nat /\ NUM_THREADS >= 2
  BY TestAssumption DEF Children
<1>1. CASE g = "toggle"
  <2>1. Programs[g][main] = CreateLoop \o PrintLoop \o JoinLoop
    BY SMTT(30), Z3T(60), <1>0, <1>1 DEF Programs
  <2>2. MainLen(g) = Loop + 2 * Rounds + NUM_THREADS BY <1>1 DEF MainLen
  <2>3. n \in Nat /\ n >= 1 /\ n <= Loop + 2 * Rounds + NUM_THREADS + 1
    BY SMTT(30), Z3T(60), <1>0, <2>2, Sizes
  <2>4. n > MainLen(g) <=> MainAt(g, n) = "end"
    BY SMTT(30), Z3T(60), <1>0, <1>1, <2>2, <2>3, Sizes DEF MainAt
  <2>5. ASSUME n <= MainLen(g)
        PROVE  MainMoves(g, n, (CreateLoop \o PrintLoop \o JoinLoop)[n])
    <3>. DEFINE op == (CreateLoop \o PrintLoop \o JoinLoop)[n]
    <3>1. n \in 1..MainLen(g) BY SMTT(30), Z3T(60), <2>2, <2>3, <2>5
    <3>2. op = IF n > Loop + 2 * Rounds THEN <<"join", n - Loop - 2 * Rounds - 1>>
               ELSE IF n % 2 = 0 THEN <<"down", "parent">>
               ELSE IF n <= Loop THEN <<"create", (n - 1) \div 2>> ELSE <<"up", "child">>
      BY <1>1, <3>1, MainToggle
    <3>. SUFFICES MainMoves(g, n, op) OBVIOUS
    <3>. HIDE DEF op
    <3>3. n + 1 \in 1..MainLen(g) + 1 BY SMTT(30), Z3T(60), <1>0, <2>2, <2>3, <2>5, Sizes
    <3>4. /\ Exist(g, n) = {main} \cup {w \in Children : 2 * w + 1 < n}
          /\ Exist(g, n + 1) = {main} \cup {w \in Children : 2 * w + 1 < n + 1}
      BY <1>1 DEF Exist
    <3>5. CASE n > Loop + 2 * Rounds
      <4>1. n - Loop - 2 * Rounds - 1 \in Children /\ \A w \in Children : 2 * w + 1 < n
        BY SMTT(30), Z3T(60), <1>0, <2>2, <2>3, <2>5, <3>5, Sizes
      <4>2. \A w \in Children : 2 * w + 1 < n + 1 BY SMTT(30), Z3T(60), <1>0, <2>3, <4>1
      <4>3. Exist(g, n + 1) = Exist(g, n) /\ n - Loop - 2 * Rounds - 1 \in Exist(g, n)
        BY <3>4, <4>1, <4>2
      <4>4. Ups(g, n) = Rounds /\ Ups(g, n + 1) = Rounds
        BY SMTT(30), Z3T(60), <1>1, <2>3, <3>5, Sizes DEF Ups
      <4>5. MainAt(g, n) = "join" /\ MainAt(g, n + 1) \in {"join", "end"}
        BY SMTT(30), Z3T(60), <1>0, <1>1, <2>2, <2>3, <2>5, <3>5, Sizes DEF MainAt
      <4>. QED BY <3>2, <3>3, <3>5, <4>1, <4>3, <4>4, <4>5 DEF MainMoves
    <3>6. CASE ~(n > Loop + 2 * Rounds) /\ n % 2 = 0
      <4>1. \A w \in Children : 2 * w + 1 < n + 1 <=> 2 * w + 1 < n
        BY SMTT(30), Z3T(60), <1>0, <2>3, <3>6
      <4>2. Exist(g, n + 1) = Exist(g, n) BY <3>4, <4>1
      <4>3. Ups(g, n + 1) = Ups(g, n)
        <5>1. CASE n <= Loop BY SMTT(30), Z3T(60), <1>1, <2>3, <3>6, <5>1, Sizes DEF Ups
        <5>2. CASE ~(n <= Loop) /\ n # Loop + 2 * Rounds
          <6>1. n + 1 <= Loop + 2 * Rounds BY SMTT(30), Z3T(60), <2>3, <3>6, <5>2, Sizes
          <6>2. Ups(g, n) = (n - Loop) \div 2 /\ Ups(g, n + 1) = (n + 1 - Loop) \div 2
            BY SMTT(30), Z3T(60), <1>1, <2>3, <3>6, <5>2, <6>1, Sizes DEF Ups
          <6>3. PICK k \in Nat : n = k + 2 * NUM_THREADS /\ n - Loop = k /\ n + 1 - Loop = k + 1
            BY SMTT(30), Z3T(60), <1>0, <2>3, <5>2, Sizes
          <6>. QED BY <1>0, <3>6, <6>2, <6>3, Halves, Parity
        <5>3. CASE ~(n <= Loop) /\ n = Loop + 2 * Rounds
          <6>1. Ups(g, n) = (n - Loop) \div 2 /\ Ups(g, n + 1) = Rounds
            BY SMTT(30), Z3T(60), <1>1, <2>3, <3>6, <5>3, Sizes DEF Ups
          <6>. QED BY SMTT(30), Z3T(60), <2>3, <3>6, <5>3, <6>1, Sizes
        <5>. QED BY <5>1, <5>2, <5>3
      <4>4. MainAt(g, n) = "down" /\ MainAt(g, n + 1) \in {"create", "up", "print", "join"}
        BY SMTT(30), Z3T(60), <1>0, <1>1, <2>2, <2>3, <2>5, <3>6, Sizes DEF MainAt
      <4>. QED BY <3>2, <3>3, <3>6, <4>2, <4>3, <4>4 DEF MainMoves
    <3>7. CASE ~(n > Loop + 2 * Rounds) /\ n % 2 # 0 /\ n <= Loop
      <4>1. PICK u \in Children : n = 2 * u + 1 /\ u = (n - 1) \div 2
        BY SMTT(30), Z3T(60), <1>0, <2>3, <3>7, Sizes
      <4>2. \A w \in Children : 2 * w + 1 < n + 1 <=> (2 * w + 1 < n \/ w = u)
        BY SMTT(30), Z3T(60), <1>0, <2>3, <4>1
      <4>3. ~(2 * u + 1 < n) /\ u # main BY SMTT(30), Z3T(60), <1>0, <2>3, <4>1 DEF Children
      <4>4. Exist(g, n + 1) = Exist(g, n) \cup {u} /\ u \notin Exist(g, n)
        BY <3>4, <4>1, <4>2, <4>3 DEF Children
      <4>5. Ups(g, n + 1) = Ups(g, n) /\ ChildLen(g, u) > 0
        BY SMTT(30), Z3T(60), <1>1, <2>3, <3>7, Sizes, TestAssumption DEF Ups, ChildLen
      <4>6. MainAt(g, n) = "create" /\ MainAt(g, n + 1) = "down"
        BY SMTT(30), Z3T(60), <1>0, <1>1, <2>2, <2>3, <2>5, <3>7, Sizes DEF MainAt
      <4>7. op = <<"create", u>> BY <3>2, <3>7, <4>1
      <4>. QED BY <1>1, <3>3, <4>4, <4>5, <4>6, <4>7 DEF MainMoves
    <3>8. CASE ~(n > Loop + 2 * Rounds) /\ n % 2 # 0 /\ ~(n <= Loop)
      <4>1. \A w \in Children : 2 * w + 1 < n /\ 2 * w + 1 < n + 1
        BY SMTT(30), Z3T(60), <1>0, <2>3, <3>8, Sizes
      <4>2. Exist(g, n + 1) = Exist(g, n) BY <3>4, <4>1
      <4>3. Ups(g, n + 1) = Ups(g, n) + 1
        <5>0. PICK k \in Nat : n = k + 2 * NUM_THREADS /\ n - Loop = k /\ n + 1 - Loop = k + 1
          BY SMTT(30), Z3T(60), <1>0, <2>3, <3>8, Sizes
        <5>3. PICK j \in Nat : k \div 2 = j /\ (k + 1) \div 2 = j + 1 /\ k = 2 * j + 1
          BY <1>0, <3>8, <5>0, Halves, Parity
        <5>1. /\ n + 1 <= Loop + 2 * Rounds /\ ~(n + 1 <= Loop + 1)
              /\ n <= Loop + 2 * Rounds /\ (n <= Loop + 1 => j = 0)
          <6>1. k = 2 * j + 1 /\ n = k + Loop /\ k <= 2 * Rounds
            BY SMTT(30), Z3T(60), <2>3, <3>8, <5>0, <5>3, Sizes
          <6>. QED BY SMTT(30), Z3T(60), <6>1, Sizes
        <5>2. (n - Loop) \div 2 = j /\ (n + 1 - Loop) \div 2 = j + 1 BY <5>0, <5>3
        <5>4. Ups(g, n) = j
          <6>1. CASE n <= Loop + 1 BY <1>1, <5>1, <6>1 DEF Ups
          <6>2. CASE ~(n <= Loop + 1) BY <1>1, <5>1, <5>2, <6>2 DEF Ups
          <6>. QED BY <6>1, <6>2
        <5>5. Ups(g, n + 1) = j + 1 BY SMTT(30), Z3T(60), <1>1, <2>3, <5>1, <5>2, Sizes DEF Ups
        <5>. QED BY <5>4, <5>5
      <4>4. MainAt(g, n) = "up" /\ MainAt(g, n + 1) = "down"
        BY SMTT(30), Z3T(60), <1>0, <1>1, <2>2, <2>3, <2>5, <3>8, Sizes DEF MainAt
      <4>. QED BY <3>2, <3>3, <3>8, <4>2, <4>3, <4>4 DEF MainMoves
    <3>. QED BY <3>5, <3>6, <3>7, <3>8
  <2>. QED BY <1>1, <2>1, <2>4, <2>5, MainToggle
<1>2. CASE g = "test"
  <2>0. 0 \in Children /\ 1 \in Children /\ 0 # main /\ 1 # main
    BY SMTT(30), Z3T(60), <1>0 DEF Children
  <2>1. Programs[g][main] = test_main BY SMTT(30), Z3T(60), <1>0, <1>2, <2>0 DEF Programs
  <2>2. MainLen(g) = 11 BY <1>2 DEF MainLen
  <2>3. n \in 1..12 BY SMTT(30), Z3T(60), <2>2
  <2>4. n > MainLen(g) <=> MainAt(g, n) = "end" BY SMTT(30), Z3T(60), <1>2, <2>2, <2>3 DEF MainAt
  <2>6. /\ Exist(g, n) = {main} \cup {w \in {0, 1} : w + 1 < n}
        /\ Exist(g, n + 1) = {main} \cup {w \in {0, 1} : w + 1 < n + 1}
    BY <1>2, <2>0 DEF Exist
  <2>7. ASSUME n <= MainLen(g) PROVE MainMoves(g, n, test_main[n])
    <3>1. n \in 1..11 BY SMTT(30), Z3T(60), <2>2, <2>3, <2>7
    <3>2. n + 1 \in 1..MainLen(g) + 1 BY SMTT(30), Z3T(60), <2>2, <3>1
    <3>3. CASE n \in {1, 2}
      <4>1. PICK u \in {0, 1} : n = u + 1 /\ n - 1 = u BY SMTT(30), Z3T(60), <3>3
      <4>2. u \notin Exist(g, n) /\ Exist(g, n + 1) = Exist(g, n) \cup {u}
        BY SMTT(30), Z3T(60), <2>0, <2>6, <4>1
      <4>3. test_main[n] = <<"create", u>> BY <3>1, <3>3, <4>1, MainTest
      <4>4. MainAt(g, n) = "create" /\ MainAt(g, n + 1) \in {"create", "print"} /\ Ups(g, n + 1) = Ups(g, n)
        BY SMTT(30), Z3T(60), <1>2, <2>2, <3>1, <3>3 DEF MainAt, Ups
      <4>5. ChildLen(g, u) > 0 BY SMTT(30), Z3T(60), <1>2 DEF ChildLen
      <4>. QED BY <1>2, <2>0, <3>2, <4>1, <4>2, <4>3, <4>4, <4>5 DEF MainMoves
    <3>4. ASSUME n \notin {1, 2} PROVE Exist(g, n + 1) = Exist(g, n)
      BY SMTT(30), Z3T(60), <2>6, <3>1, <3>4
    <3>5. CASE n \in {3, 6, 9}
      <4>1. test_main[n] = <<"print">> BY SMTT(30), Z3T(60), <3>1, <3>5, MainTest
      <4>. QED BY SMTT(30), Z3T(60), <1>2, <2>2, <3>1, <3>2, <3>4, <3>5, <4>1 DEF MainMoves, MainAt, Ups
    <3>6. CASE n \in {4, 7}
      <4>1. test_main[n] = <<"up", "child">> BY SMTT(30), Z3T(60), <3>1, <3>6, MainTest
      <4>. QED BY SMTT(30), Z3T(60), <1>2, <2>2, <3>1, <3>2, <3>4, <3>6, <4>1 DEF MainMoves, MainAt, Ups
    <3>7. CASE n \in {5, 8}
      <4>1. test_main[n] = <<"down", "parent">> BY SMTT(30), Z3T(60), <3>1, <3>7, MainTest
      <4>. QED BY SMTT(30), Z3T(60), <1>2, <2>2, <3>1, <3>2, <3>4, <3>7, <4>1 DEF MainMoves, MainAt, Ups
    <3>8. CASE n \in {10, 11}
      <4>1. PICK u \in {0, 1} : n - 10 = u BY SMTT(30), Z3T(60), <3>8
      <4>2. test_main[n] = <<"join", u>> BY SMTT(30), Z3T(60), <3>1, <3>8, <4>1, MainTest
      <4>3. u \in Exist(g, n) BY SMTT(30), Z3T(60), <2>6, <3>8
      <4>4. MainAt(g, n) = "join" /\ MainAt(g, n + 1) \in {"join", "end"} /\ Ups(g, n + 1) = Ups(g, n)
        BY SMTT(30), Z3T(60), <1>2, <2>2, <3>8 DEF MainAt, Ups
      <4>5. Exist(g, n + 1) = Exist(g, n) BY SMTT(30), Z3T(60), <3>4, <3>8
      <4>. QED BY <2>0, <3>2, <4>2, <4>3, <4>4, <4>5 DEF MainMoves
    <3>. QED BY SMTT(30), Z3T(60), <3>1, <3>3, <3>5, <3>6, <3>7, <3>8
  <2>. QED BY <2>1, <2>2, <2>4, <2>7, MainTest
<1>. QED BY <1>1, <1>2

\* The positions of a child: how many turns it has had, and where it begins.
LEMMA TurnsBound ==
  ASSUME NEW g \in {"test", "toggle"}, NEW w \in Children, NEW n \in 1..ChildLen(g, w) + 1
  PROVE  Turns(g, n) \in 0..NUM_ITER + 1
BY SMTT(30), Z3T(60), TestAssumption DEF Turns, ChildLen

\* The first operation of a child.
LEMMA Begins ==
  ASSUME NEW g \in {"test", "toggle"}, NEW w \in Children, ChildLen(g, w) > 0
  PROVE  ChildAt(g, w, 1) = IF g = "toggle" THEN "up" ELSE "down"
BY SMTT(30), Z3T(60), TestAssumption DEF ChildAt, ChildLen

\* The children that have something to do in program g, how often each takes the
\* semaphore down, and how often all of them do.
Hands(g) == {w \in Children : ChildLen(g, w) > 0}
Share(g) == IF g = "toggle" THEN NUM_ITER ELSE 1
Total(g) == IF g = "toggle" THEN Rounds ELSE 2

\* Main puts child up at most once per round, and never before all who may take it exist.
LEMMA MainTotals ==
  ASSUME NEW g \in {"test", "toggle"}, NEW n \in 1..MainLen(g) + 1
  PROVE  /\ Ups(g, n) \in 0..Total(g)
         /\ Ups(g, n) = 0 \/ Hands(g) \subseteq Exist(g, n)
         /\ MainAt(g, n) \in {"join", "end"} => Ups(g, n) = Total(g) /\ Hands(g) \subseteq Exist(g, n)
<1>0. Children = 0..NUM_THREADS - 1 /\ NUM_THREADS \in Nat /\ NUM_ITER \in Nat
  BY TestAssumption DEF Children
<1>1. CASE g = "toggle"
  <2>0. n \in Nat /\ n >= 1 /\ n <= Loop + 2 * Rounds + NUM_THREADS + 1
    BY SMTT(30), Z3T(60), <1>0, <1>1, Sizes DEF MainLen
  <2>1. n > Loop + 1 => Hands(g) \subseteq Exist(g, n)
    <3>1. n > Loop + 1 => \A w \in Children : 2 * w + 1 < n BY SMTT(30), Z3T(60), <1>0, <2>0, Sizes
    <3>. QED BY <1>1, <3>1 DEF Hands, Exist
  <2>2. n > Loop => Hands(g) \subseteq Exist(g, n)
    <3>1. n > Loop => \A w \in Children : 2 * w + 1 < n BY SMTT(30), Z3T(60), <1>0, <2>0, Sizes
    <3>. QED BY <1>1, <3>1 DEF Hands, Exist
  <2>3. Ups(g, n) \in 0..Total(g) /\ (n <= Loop + 1 => Ups(g, n) = 0)
    <3>1. CASE n <= Loop + 1 BY SMTT(30), Z3T(60), <1>1, <2>0, <3>1, Sizes DEF Ups, Total
    <3>2. CASE n > Loop + 1 /\ n <= Loop + 2 * Rounds
      <4>1. Ups(g, n) = (n - Loop) \div 2 BY SMTT(30), Z3T(60), <1>1, <2>0, <3>2, Sizes DEF Ups
      <4>2. PICK k \in Nat : k = n - Loop /\ k <= 2 * Rounds BY SMTT(30), Z3T(60), <2>0, <3>2, Sizes
      <4>3. k \div 2 \in 0..Rounds BY SMTT(30), Z3T(60), <4>2, Sizes
      <4>. QED BY SMTT(30), Z3T(60), <1>1, <2>0, <3>2, <4>1, <4>2, <4>3, Sizes DEF Total
    <3>3. CASE n > Loop + 1 /\ n > Loop + 2 * Rounds
      BY SMTT(30), Z3T(60), <1>1, <2>0, <3>3, Sizes DEF Ups, Total
    <3>. QED BY SMTT(30), Z3T(60), <2>0, <3>1, <3>2, <3>3, Sizes
  <2>4. ASSUME MainAt(g, n) \in {"join", "end"} PROVE n > Loop + 2 * Rounds
    BY SMTT(30), Z3T(60), <1>0, <1>1, <2>0, <2>4, Sizes DEF MainAt, MainLen
  <2>5. n > Loop + 2 * Rounds => n > Loop /\ Ups(g, n) = Total(g)
    <3>1. CASE n <= Loop + 1 BY SMTT(30), Z3T(60), <1>1, <2>0, <3>1, Sizes DEF Ups, Total
    <3>2. CASE ~(n <= Loop + 1) BY SMTT(30), Z3T(60), <1>1, <2>0, <3>2, Sizes DEF Ups, Total
    <3>. QED BY <3>1, <3>2
  <2>6. n <= Loop + 1 \/ n > Loop + 1 BY SMTT(30), Z3T(60), <2>0, Sizes
  <2>. QED BY <2>1, <2>2, <2>3, <2>4, <2>5, <2>6
<1>2. CASE g = "test"
  <2>0. n \in 1..12 BY SMTT(30), Z3T(60), <1>2 DEF MainLen
  <2>1. Hands(g) \subseteq {0, 1} BY SMTT(30), Z3T(60), <1>2 DEF Hands, ChildLen
  <2>2. n >= 4 => Hands(g) \subseteq Exist(g, n)
    <3>1. n >= 4 => \A w \in {0, 1} : w + 1 < n BY SMTT(30), Z3T(60), <2>0
    <3>. QED BY <1>2, <2>1, <3>1 DEF Hands, Exist
  <2>3. Ups(g, n) \in 0..Total(g) /\ (Ups(g, n) = 0 \/ n >= 4)
    BY SMTT(30), Z3T(60), <1>2, <2>0 DEF Ups, Total
  <2>4. MainAt(g, n) \in {"join", "end"} => n >= 10 BY SMTT(30), Z3T(60), <1>2, <2>0 DEF MainAt, MainLen
  <2>5. n >= 10 => n >= 4 /\ Ups(g, n) = Total(g) BY SMTT(30), Z3T(60), <1>2, <2>0 DEF Ups, Total
  <2>. QED BY <2>2, <2>3, <2>4, <2>5
<1>. QED BY <1>1, <1>2

\* A child takes at most its share of the rounds, and all of it when it ends.
LEMMA ChildTotals ==
  ASSUME NEW g \in {"test", "toggle"}, NEW w \in Children, NEW n \in 1..ChildLen(g, w) + 1
  PROVE  /\ Turns(g, n) \in 0..Share(g) /\ (Turns(g, n) > 0 => w \in Hands(g))
         /\ ChildAt(g, w, n) = "end" /\ w \in Hands(g) => Turns(g, n) = Share(g)
<1>1. CASE g = "toggle"
  <2>1. n \in Nat /\ n <= 3 * NUM_ITER + 2 /\ w \in Hands(g) /\ ChildLen(g, w) = 3 * NUM_ITER + 1
    BY SMTT(30), Z3T(60), <1>1, TestAssumption DEF ChildLen, Hands
  <2>2. Turns(g, n) = n \div 3 /\ Share(g) = NUM_ITER BY <1>1 DEF Turns, Share
  <2>3. n \div 3 \in 0..NUM_ITER BY SMTT(30), Z3T(60), <2>1, TestAssumption
  <2>4. ChildAt(g, w, n) = "end" => n = 3 * NUM_ITER + 2
    BY SMTT(30), Z3T(60), <1>1, <2>1, TestAssumption DEF ChildAt
  <2>5. (3 * NUM_ITER + 2) \div 3 = NUM_ITER BY SMTT(30), Z3T(60), TestAssumption
  <2>. QED BY <2>1, <2>2, <2>3, <2>4, <2>5
<1>2. CASE g = "test"
  BY SMTT(30), Z3T(60), <1>2 DEF ChildLen, Hands, Turns, Share, ChildAt
<1>. QED BY <1>1, <1>2

\* All shares together are all rounds.
LEMMA Whole ==
  ASSUME Counting, NEW g \in {"test", "toggle"}
  PROVE  /\ IsFiniteSet(Hands(g) \X (1..Share(g)))
         /\ Cardinality(Hands(g) \X (1..Share(g))) = Total(g)
<1>0. /\ Children = 0..NUM_THREADS - 1 /\ NUM_THREADS \in Nat /\ NUM_THREADS >= 2 /\ NUM_ITER \in Nat
      /\ IsFiniteSet(Children)
  <2>1. IsFiniteSet(Children) BY SemAssumption, CountSubset DEF Children
  <2>. QED BY <2>1, TestAssumption DEF Children
<1>1. CASE g = "toggle"
  <2>1. Hands(g) = 0..NUM_THREADS - 1 /\ Share(g) = NUM_ITER
    BY SMTT(30), Z3T(60), <1>0, <1>1 DEF Hands, ChildLen, Share
  <2>2. /\ Cardinality(0..NUM_THREADS - 1) = NUM_THREADS /\ IsFiniteSet(0..NUM_THREADS - 1)
        /\ Cardinality(1..NUM_ITER) = NUM_ITER /\ IsFiniteSet(1..NUM_ITER)
    <3>1. /\ 0 \in Int /\ 1 \in Int /\ NUM_THREADS - 1 \in Int /\ NUM_ITER \in Int
          /\ ~(0 > NUM_THREADS - 1) /\ (NUM_THREADS - 1) - 0 + 1 = NUM_THREADS
      BY SMTT(30), Z3T(60), <1>0
    <3>2. /\ IsFiniteSet(0..NUM_THREADS - 1)
          /\ Cardinality(0..NUM_THREADS - 1) = IF 0 > NUM_THREADS - 1 THEN 0 ELSE (NUM_THREADS - 1) - 0 + 1
      BY <3>1, CountInterval
    <3>3. /\ IsFiniteSet(1..NUM_ITER)
          /\ Cardinality(1..NUM_ITER) = IF 1 > NUM_ITER THEN 0 ELSE NUM_ITER - 1 + 1
      BY <3>1, CountInterval
    <3>4. Cardinality(0..NUM_THREADS - 1) = NUM_THREADS BY <3>1, <3>2
    <3>5. (1 > NUM_ITER => NUM_ITER = 0) /\ NUM_ITER - 1 + 1 = NUM_ITER BY SMTT(30), Z3T(60), <1>0
    <3>6. Cardinality(1..NUM_ITER) = NUM_ITER BY <3>3, <3>5
    <3>. QED BY <3>2, <3>3, <3>4, <3>6
  <2>3. Total(g) = NUM_THREADS * NUM_ITER BY SMTT(30), Z3T(60), <1>0, <1>1 DEF Total, Rounds
  <2>4. /\ IsFiniteSet((0..NUM_THREADS - 1) \X (1..NUM_ITER))
        /\ Cardinality((0..NUM_THREADS - 1) \X (1..NUM_ITER))
             = Cardinality(0..NUM_THREADS - 1) * Cardinality(1..NUM_ITER)
    BY <2>2, CountProduct
  <2>. QED BY <2>1, <2>2, <2>3, <2>4
<1>2. CASE g = "test"
  <2>1. Hands(g) = 0..1 /\ Share(g) = 1
    BY SMTT(30), Z3T(60), <1>0, <1>2 DEF Hands, ChildLen, Share
  <2>2. /\ Cardinality(0..1) = 2 /\ IsFiniteSet(0..1) /\ Cardinality(1..1) = 1 /\ IsFiniteSet(1..1)
    <3>1. 0 \in Int /\ 1 \in Int BY SMTT(30), Z3T(60)
    <3>2. /\ Cardinality(0..1) = (IF 0 > 1 THEN 0 ELSE 1 - 0 + 1) /\ IsFiniteSet(0..1)
          /\ Cardinality(1..1) = (IF 1 > 1 THEN 0 ELSE 1 - 1 + 1) /\ IsFiniteSet(1..1)
      BY <3>1, CountInterval
    <3>. QED BY SMTT(30), Z3T(60), <3>2
  <2>3. Total(g) = 2 * 1 BY SMTT(30), Z3T(60), <1>2 DEF Total
  <2>4. /\ IsFiniteSet((0..1) \X (1..1))
        /\ Cardinality((0..1) \X (1..1)) = Cardinality(0..1) * Cardinality(1..1)
    BY <2>2, CountProduct
  <2>. QED BY <2>1, <2>2, <2>3, <2>4
<1>. QED BY <1>1, <1>2

\* The lines that are due at each position of main.
LEMMA LineStep ==
  ASSUME NEW g \in {"test", "toggle"}, NEW n \in 1..MainLen(g)
  PROVE  /\ n \in Nat /\ Lines(g, n) \in Int
         /\ MainAt(g, n) = "up" => /\ Lines(g, n + 1) = Lines(g, n) + 1
                                   /\ g = "toggle" => n >= Loop + 1 /\ n <= Loop + 2 * Rounds
         /\ MainAt(g, n) = "down" => /\ (g = "toggle" => n > Loop) => Lines(g, n + 1) = Lines(g, n)
                                     /\ g = "toggle" => n # Loop + 1 /\ n <= Loop + 2 * Rounds
                                     /\ g = "test" => Lines(g, n) % 2 = 0
         /\ MainAt(g, n) = "print" => g = "test" /\ Lines(g, n + 1) = Lines(g, n) + 1 /\ Lines(g, n) % 2 = 0
         /\ MainAt(g, n) = "create" => /\ g = "test" => Lines(g, n + 1) = Lines(g, n)
                                       /\ g = "toggle" => n + 1 <= Loop + 1
         /\ MainAt(g, n) = "join" => /\ g = "test" => Lines(g, n + 1) = Lines(g, n)
                                     /\ g = "toggle" => n > Loop + 2 * Rounds
<1>1. CASE g = "toggle"
  <2>0. n \in Nat /\ n >= 1 /\ n # MainLen(g) + 1
    <3>1. MainLen(g) \in Nat BY SMTT(30), Z3T(60), Sizes, TestAssumption DEF MainLen
    <3>. QED BY SMTT(30), Z3T(60), <3>1
  <2>1. Lines(g, n) = (n - Loop) \div 2 /\ Lines(g, n + 1) = ((n + 1) - Loop) \div 2
    BY <1>1 DEF Lines
  <2>2. MainAt(g, n) = IF n > Loop + 2 * Rounds THEN "join"
                       ELSE IF n % 2 = 0 THEN "down" ELSE IF n <= Loop THEN "create" ELSE "up"
    BY <1>1, <2>0 DEF MainAt
  <2>3. Lines(g, n) \in Int BY SMTT(30), Z3T(60), <2>0, <2>1, Sizes
  <2>4. ASSUME n > Loop
        PROVE  IF n % 2 = 0 THEN Lines(g, n + 1) = Lines(g, n) ELSE Lines(g, n + 1) = Lines(g, n) + 1
    <3>1. PICK k \in Nat : n = k + 2 * NUM_THREADS /\ n - Loop = k /\ (n + 1) - Loop = k + 1
      BY SMTT(30), Z3T(60), <2>0, <2>4, Sizes, TestAssumption
    <3>2. k % 2 = n % 2 BY <3>1, Parity, TestAssumption
    <3>3. Lines(g, n) = k \div 2 /\ Lines(g, n + 1) = (k + 1) \div 2 BY <2>1, <3>1
    <3>4. /\ k % 2 = 0 => (k + 1) \div 2 = k \div 2
          /\ k % 2 # 0 => (k + 1) \div 2 = k \div 2 + 1
      BY Halves
    <3>. QED BY ONLY ZenonT(60), <3>2, <3>3, <3>4
  <2>5. MainAt(g, n) = "up" => n > Loop /\ n % 2 # 0 /\ n >= Loop + 1 /\ n <= Loop + 2 * Rounds
    <3>1. MainAt(g, n) = "up" => ~(n <= Loop) /\ n % 2 # 0 /\ ~(n > Loop + 2 * Rounds) BY <2>2
    <3>. QED BY SMTT(30), Z3T(60), <2>0, <3>1, Sizes
  <2>6. MainAt(g, n) = "down" => n % 2 = 0 /\ n <= Loop + 2 * Rounds
    <3>1. MainAt(g, n) = "down" => n % 2 = 0 /\ ~(n > Loop + 2 * Rounds) BY <2>2
    <3>. QED BY SMTT(30), Z3T(60), <2>0, <3>1, Sizes
  <2>7. n % 2 = 0 => n # Loop + 1 BY SMTT(30), Z3T(60), <2>0, Sizes, TestAssumption
  <2>8. MainAt(g, n) = "create" => n + 1 <= Loop + 1
    <3>1. MainAt(g, n) = "create" => n <= Loop BY <2>2
    <3>. QED BY SMTT(30), Z3T(60), <2>0, <3>1, Sizes
  <2>9. MainAt(g, n) = "join" => n > Loop + 2 * Rounds BY <2>2
  <2>10. MainAt(g, n) # "print" BY <2>2
  <2>. QED BY <1>1, <2>0, <2>3, <2>4, <2>5, <2>6, <2>7, <2>8, <2>9, <2>10
<1>2. CASE g = "test"
  <2>1. n \in 1..11 BY <1>2 DEF MainLen
  <2>2. CASE n \in {1, 2} BY SMTT(30), Z3T(60), <1>2, <2>2 DEF Lines, MainAt, MainLen
  <2>3. CASE n \in {3, 4} BY SMTT(30), Z3T(60), <1>2, <2>3 DEF Lines, MainAt, MainLen
  <2>4. CASE n \in {5, 6} BY SMTT(30), Z3T(60), <1>2, <2>4 DEF Lines, MainAt, MainLen
  <2>5. CASE n = 7 BY SMTT(30), Z3T(60), <1>2, <2>5 DEF Lines, MainAt, MainLen
  <2>6. CASE n \in {8, 9} BY SMTT(30), Z3T(60), <1>2, <2>6 DEF Lines, MainAt, MainLen
  <2>7. CASE n \in {10, 11} BY SMTT(30), Z3T(60), <1>2, <2>7 DEF Lines, MainAt, MainLen
  <2>8. n \in {1, 2} \/ n \in {3, 4} \/ n \in {5, 6} \/ n = 7 \/ n \in {8, 9} \/ n \in {10, 11}
    BY SMTT(30), Z3T(60), <2>1
  <2>. QED BY <2>2, <2>3, <2>4, <2>5, <2>6, <2>7, <2>8
<1>. QED BY <1>1, <1>2

\* A line appended to alternating lines, in its turn, leaves them alternating.
LEMMA AppendLine ==
  ASSUME NEW s \in Seq(Threads), NEW t \in Threads
  PROVE  /\ Len(Append(s, t)) = Len(s) + 1 /\ Len(s) \in Nat
         /\ (\A k \in 1..Len(s) : s[k] = main <=> k % 2 = 1) /\ (t = main <=> (Len(s) + 1) % 2 = 1)
              => \A k \in 1..Len(Append(s, t)) : Append(s, t)[k] = main <=> k % 2 = 1
<1>1. /\ Len(Append(s, t)) = Len(s) + 1 /\ Len(s) \in Nat
      /\ \A k \in 1..Len(s) : Append(s, t)[k] = s[k]
      /\ Append(s, t)[Len(s) + 1] = t
  BY SMTT(30), Z3T(60)
<1>2. \A k \in 1..Len(s) + 1 : k \in 1..Len(s) \/ k = Len(s) + 1 BY SMTT(30), Z3T(60), <1>1
<1>. QED BY <1>1, <1>2

\* Where the two programs start.
LEMMA Begin == ASSUME NEW g \in {"test", "toggle"}
  PROVE  /\ MainAt(g, 1) = "create" /\ 1 \in 1..MainLen(g) + 1 /\ Ups(g, 1) = 0 /\ Turns(g, 1) = 0
         /\ Exist(g, 1) = {main} /\ (g = "toggle" => 1 <= Loop + 1) /\ Lines("test", 1) = 0
         /\ \A w \in Children : 1 \in 1..ChildLen(g, w) + 1
<1>1. MainLen(g) \in Nat /\ MainLen(g) >= 2 BY SMTT(30), Z3T(60), Sizes, TestAssumption DEF MainLen
<1>2. MainAt(g, 1) = "create"
  <2>1. 1 # MainLen(g) + 1 /\ ~(1 > Loop + 2 * Rounds) /\ 1 % 2 # 0 /\ 1 <= Loop
    BY SMTT(30), Z3T(60), <1>1, Sizes
  <2>. QED BY <2>1 DEF MainAt
<1>3. Ups(g, 1) = 0 /\ (g = "toggle" => 1 <= Loop + 1) BY SMTT(30), Z3T(60), Sizes DEF Ups
<1>4. Turns(g, 1) = 0 BY SMTT(30), Z3T(60) DEF Turns
<1>5. \A w \in Children : w \in Nat BY SMTT(30), Z3T(60), TestAssumption DEF Children
<1>6. \A w \in Children : ~(2 * w + 1 < 1) /\ ~(w + 1 < 1) BY SMTT(30), Z3T(60), <1>5
<1>7. Exist(g, 1) = {main} BY <1>6 DEF Exist
<1>8. ASSUME NEW w \in Children PROVE 1 \in 1..ChildLen(g, w) + 1
  BY SMTT(30), Z3T(60), TestAssumption DEF ChildLen
<1>9. 1 \in 1..MainLen(g) + 1 BY SMTT(30), Z3T(60), <1>1
<1>10. Lines("test", 1) = 0 BY SMTT(30), Z3T(60) DEF Lines
<1>. QED BY <1>2, <1>3, <1>4, <1>7, <1>8, <1>9, <1>10

\* The steps of the two programs.  Child w moves on from a to one of b and takes the
\* semaphore down k times; main moves on from a to one of b, puts it up k times and
\* creates the threads in new.
ChildGoes(w, a, b, k) ==
  /\ w \in Children \cap created /\ w \notin waiters \cup woken
  /\ pc' = [pc EXCEPT ![w] = pc[w] + 1] /\ pc[w] + 1 \in 1..ChildLen(program, w) + 1
  /\ Does(w) = a /\ ChildAt(program, w, pc[w] + 1) \in b
  /\ Turns(program, pc[w] + 1) = Turns(program, pc[w]) + k
  /\ UNCHANGED <<program, created, spuriousCnt>>
MainGoes(a, b, k, new) ==
  /\ ~MainSleeps
  /\ pc' = [pc EXCEPT ![main] = pc[main] + 1] /\ pc[main] + 1 \in 1..MainLen(program) + 1
  /\ MainDoes = a /\ MainAt(program, pc[main] + 1) \in b
  /\ Ups(program, pc[main] + 1) = Ups(program, pc[main]) + k
  /\ created' = created \cup new /\ created' = Exist(program, pc[main] + 1)
  /\ UNCHANGED <<program, spuriousCnt>>
Still == UNCHANGED <<program, pc, created, out>>

ChildDown(w) == ChildGoes(w, "down", {"print"}, 1) /\ SSU_Sem_down(w) /\ UNCHANGED <<out, parentvars>>
ChildPrint(w) == ChildGoes(w, "print", {"up"}, 0) /\ out' = Append(out, w) /\ UNCHANGED <<svars, parentvars>>
ChildUp(w) ==
  /\ ChildGoes(w, "up", {"down", "end"}, 0) /\ parentValue' = parentValue + 1
  /\ IF parentValue < 0 /\ parentWaiters # {}
       THEN parentWaiters' = {} /\ parentWoken' = {main} ELSE UNCHANGED <<parentWaiters, parentWoken>>
  /\ UNCHANGED <<out, svars>>
ChildReturn(w) == down_return(w) /\ Still /\ UNCHANGED <<spuriousCnt, parentvars>>
ChildSpurious(w) == down_spurious(w) /\ Still /\ spuriousCnt' = spuriousCnt + 1 /\ UNCHANGED parentvars
MainCreate(u) ==
  /\ u \in Children \ created /\ ChildLen(program, u) > 0
  /\ MainGoes("create", IF program = "toggle" THEN {"down"} ELSE {"create", "print"}, 0, {u})
  /\ UNCHANGED <<out, svars, parentvars>>
MainPrint == MainGoes("print", {"up", "join"}, 0, {}) /\ out' = Append(out, main) /\ UNCHANGED <<svars, parentvars>>
MainUp == MainGoes("up", {"down"}, 1, {}) /\ SSU_Sem_up /\ UNCHANGED <<out, parentvars>>
MainDown ==
  /\ MainGoes("down", {"create", "up", "print", "join"}, 0, {}) /\ parentValue' = parentValue - 1
  /\ IF parentValue - 1 < 0 THEN parentWaiters' = {main} /\ UNCHANGED parentWoken
     ELSE UNCHANGED <<parentWaiters, parentWoken>>
  /\ UNCHANGED <<out, svars>>
MainJoin == MainGoes("join", {"join", "end"}, 0, {}) /\ UNCHANGED <<out, svars, parentvars>>
MainReturn ==
  /\ parentWoken = {main} /\ parentWoken' = {} /\ Still
  /\ UNCHANGED <<spuriousCnt, parentValue, parentWaiters, svars>>
MainSpurious ==
  /\ parentWaiters = {main} /\ parentWaiters' = {} /\ parentWoken' = {main} /\ Still
  /\ spuriousCnt' = spuriousCnt + 1 /\ UNCHANGED <<parentValue, svars>>

Setting == ThreadsOK /\ SleepersOK /\ created = Exist(program, pc[main])

\* A child at an operation exists, does not sleep and goes on by one position.
LEMMA ChildAtOp ==
  ASSUME Setting, NEW w \in Children, NEW op, At(w, op), program' = program
  PROVE  /\ w \in created /\ w \notin waiters \cup woken /\ UNCHANGED spuriousCnt
         /\ pc' = [pc EXCEPT ![w] = pc[w] + 1] /\ ChildMoves(program, w, pc[w], op)
<1>1. /\ program \in {"test", "toggle"} /\ pc[w] \in 1..ChildLen(program, w) + 1
  BY DEF Setting, ThreadsOK
<1>. QED BY <1>1, ChildStep DEF At, Blocked, Ops

\* So does main.
LEMMA MainAtOp ==
  ASSUME Setting, NEW op, At(main, op), program' = program
  PROVE  /\ ~MainSleeps /\ UNCHANGED spuriousCnt
         /\ pc' = [pc EXCEPT ![main] = pc[main] + 1] /\ MainMoves(program, pc[main], op)
<1>1. program \in {"test", "toggle"} /\ pc[main] \in 1..MainLen(program) + 1
  BY DEF Setting, ThreadsOK
<1>2. ~MainSleeps BY DEF At, Blocked, MainSleeps, Setting, SleepersOK
<1>. QED BY <1>1, <1>2, MainStep DEF At, Ops

\* The operations are different ones.
LEMMA Distinct ==
  ASSUME NEW u, NEW v
  PROVE  /\ <<"create", u>> \notin {<<"down", "child">>, <<"down", "parent">>, <<"up", "child">>,
                                    <<"up", "parent">>, <<"print">>, <<"join", v>>}
         /\ <<"join", u>> \notin {<<"down", "child">>, <<"down", "parent">>, <<"up", "child">>,
                                  <<"up", "parent">>, <<"print">>, <<"create", v>>}
         /\ <<"print">> \notin {<<"down", "child">>, <<"down", "parent">>, <<"up", "child">>, <<"up", "parent">>}
         /\ <<"down", "child">> \notin {<<"down", "parent">>, <<"up", "child">>, <<"up", "parent">>}
         /\ <<"down", "parent">> \notin {<<"up", "child">>, <<"up", "parent">>}
         /\ <<"up", "child">> # <<"up", "parent">>
BY SMTT(30), Z3T(60)

\* A pthread_create names its thread.
LEMMA SameCreate == ASSUME NEW u, NEW v, <<"create", u>> = <<"create", v>> PROVE u = v
BY SMTT(30), Z3T(60)

\* Every step of a child is a down, a print, an up or a return from pthread_cond_wait.
LEMMA ChildKinds ==
  ASSUME Setting, NEW w \in Children, TestStep(w), program' = program
  PROVE  ChildDown(w) \/ ChildPrint(w) \/ ChildUp(w) \/ ChildReturn(w)
<1>. USE Distinct
<1>0. ASSUME NEW op, At(w, op), UNCHANGED created
      PROVE  \/ op = <<"down", "child">> /\ ChildGoes(w, "down", {"print"}, 1)
             \/ op = <<"print">> /\ ChildGoes(w, "print", {"up"}, 0)
             \/ op = <<"up", "parent">> /\ ChildGoes(w, "up", {"down", "end"}, 0)
  <2>1. /\ w \in created /\ w \notin waiters \cup woken /\ UNCHANGED spuriousCnt
        /\ pc' = [pc EXCEPT ![w] = pc[w] + 1] /\ ChildMoves(program, w, pc[w], op)
    BY <1>0, ChildAtOp
  <2>2. Turns(program, pc[w]) \in Nat
    <3>1. pc[w] \in Nat BY SMTT(30), Z3T(60) DEF Setting, ThreadsOK, Children
    <3>. QED BY SMTT(30), Z3T(60), <3>1 DEF Turns
  <2>3. Turns(program, pc[w] + 1) = Turns(program, pc[w]) => Turns(program, pc[w] + 1) = Turns(program, pc[w]) + 0
    BY SMTT(30), Z3T(60), <2>2
  <2>. QED BY <1>0, <2>1, <2>3 DEF ChildMoves, ChildGoes, Does
<1>1. CASE create(w)
  <2>1. PICK u : At(w, <<"create", u>>) BY <1>1 DEF create
  <2>2. ChildMoves(program, w, pc[w], <<"create", u>>) BY <2>1, ChildAtOp
  <2>3. /\ <<"create", u>> # <<"down", "child">> /\ <<"create", u>> # <<"print">>
        /\ <<"create", u>> # <<"up", "parent">>
    BY SMTT(30), Z3T(60)
  <2>. QED BY ONLY ZenonT(60), <2>2, <2>3 DEF ChildMoves
<1>2. CASE join(w)
  <2>1. PICK u : At(w, <<"join", u>>) BY <1>2 DEF join
  <2>2. ChildMoves(program, w, pc[w], <<"join", u>>) BY <2>1, ChildAtOp
  <2>3. /\ <<"join", u>> # <<"down", "child">> /\ <<"join", u>> # <<"print">>
        /\ <<"join", u>> # <<"up", "parent">>
    BY SMTT(30), Z3T(60)
  <2>. QED BY ONLY ZenonT(60), <2>2, <2>3 DEF ChildMoves
<1>3. CASE print(w)
  BY <1>0, <1>3 DEF print, svars, parentvars, ChildPrint
<1>4. CASE down(w)
  <2>1. /\ At(w, <<"down", "child">>) /\ SSU_Sem_down(w) /\ UNCHANGED <<created, out, parentvars>>
    BY <1>4, ChildAtOp DEF down, ChildMoves, parentvars, parentvars
  <2>2. SSU_Sem_down(w) BY <2>1 DEF SSU_Sem_down, cond!Wait, SSU_Sem_down, cond!Wait
  <2>. QED BY <1>0, <2>1, <2>2 DEF ChildDown
<1>5. CASE wake(w)
  <2>1. ~(w \in parentWoken) BY DEF Setting, SleepersOK, Children
  <2>2. /\ down_return(w) /\ UNCHANGED parentvars
        /\ UNCHANGED <<pc, created, spuriousCnt, out>>
    BY <1>5, <2>1 DEF wake, parent!down_return, parent!cond!Return, parentvars, parentvars
  <2>3. down_return(w) BY <2>2 DEF down_return, cond!Return, down_return, cond!Return
  <2>. QED BY <2>2, <2>3 DEF ChildReturn, Still
<1>6. CASE up(w)
  <2>1. /\ At(w, <<"up", "parent">>) /\ parent!SSU_Sem_up /\ UNCHANGED <<created, out, svars>>
    BY <1>6, ChildAtOp DEF up, ChildMoves, svars, svars
  <2>2. ChildGoes(w, "up", {"down", "end"}, 0) BY <1>0, <2>1
  <2>3. parentValue' = parentValue + 1 /\ (parentValue < 0 <=> parentValue' <= 0)
    BY SMTT(30), Z3T(60), <2>1 DEF parent!SSU_Sem_up, Setting, SleepersOK
  <2>4. CASE parentValue < 0
    BY <2>1, <2>2, <2>3, <2>4
    DEF ChildUp, parent!SSU_Sem_up, parent!cond!Signal, parent!cond!cvars,
        Setting, SleepersOK
  <2>5. CASE ~(parentValue < 0)
    BY <2>1, <2>2, <2>3, <2>5 DEF ChildUp, parent!SSU_Sem_up
  <2>. QED BY <2>4, <2>5
<1>. QED BY <1>1, <1>2, <1>3, <1>4, <1>5, <1>6 DEF TestStep

\* Every step of main is one of the six kinds.
LEMMA MainKinds ==
  ASSUME Setting, TestStep(main), program' = program
  PROVE  \/ \E u \in Children : MainCreate(u)
         \/ MainPrint \/ MainUp \/ MainDown \/ MainJoin \/ MainReturn
<1>. USE Distinct
<1>. DEFINE after == IF program = "toggle" THEN {"down"} ELSE {"create", "print"}
<1>0. ASSUME NEW op, At(main, op)
      PROVE  \/ \E u \in Children \ created :
                  /\ op = <<"create", u>> /\ ChildLen(program, u) > 0
                  /\ created' = created \cup {u} => MainGoes("create", after, 0, {u})
             \/ op = <<"print">> /\ (created' = created => MainGoes("print", {"up", "join"}, 0, {}))
             \/ op = <<"up", "child">> /\ (created' = created => MainGoes("up", {"down"}, 1, {}))
             \/ /\ op = <<"down", "parent">>
                /\ created' = created => MainGoes("down", {"create", "up", "print", "join"}, 0, {})
             \/ /\ \E u : op = <<"join", u>>
                /\ created' = created => MainGoes("join", {"join", "end"}, 0, {})
  <2>1. /\ ~MainSleeps /\ UNCHANGED spuriousCnt
        /\ pc' = [pc EXCEPT ![main] = pc[main] + 1] /\ MainMoves(program, pc[main], op)
    BY <1>0, MainAtOp
  <2>2. created = Exist(program, pc[main]) BY DEF Setting
  <2>3. Ups(program, pc[main] + 1) = Ups(program, pc[main])
          => Ups(program, pc[main] + 1) = Ups(program, pc[main]) + 0
    <3>1. pc[main] \in Nat BY SMTT(30), Z3T(60), TestAssumption DEF Setting, ThreadsOK
    <3>2. Ups(program, pc[main]) \in Int BY SMTT(30), Z3T(60), <3>1, Sizes DEF Ups
    <3>. QED BY SMTT(30), Z3T(60), <3>2
  <2>4. pc[main] + 1 \in 1..MainLen(program) + 1 BY <2>1 DEF MainMoves
  <2>. HIDE DEF after
  <2>5. ASSUME NEW a, NEW b, NEW k, NEW new, created' = created \cup new,
               Exist(program, pc[main] + 1) = Exist(program, pc[main]) \cup new,
               MainDoes = a, MainAt(program, pc[main] + 1) \in b,
               Ups(program, pc[main] + 1) = Ups(program, pc[main]) + k
        PROVE  MainGoes(a, b, k, new)
    BY <2>1, <2>2, <2>4, <2>5 DEF MainGoes
  <2>6. created' = created => created' = created \cup {} OBVIOUS
  <2>7. Exist(program, pc[main] + 1) = Exist(program, pc[main])
        => Exist(program, pc[main] + 1) = Exist(program, pc[main]) \cup {}
    OBVIOUS
  <2>8. MainMoves(program, pc[main], op) BY <2>1
  <2>. QED BY <2>2, <2>3, <2>5, <2>6, <2>7, <2>8 DEF MainMoves, MainDoes, after
<1>1. CASE create(main)
  <2>1. PICK u : /\ At(main, <<"create", u>>) /\ created' = created \cup {u}
                 /\ UNCHANGED <<out, svars, parentvars>>
    BY <1>1 DEF create, svars, parentvars
  <2>2. PICK v \in Children \ created :
          /\ <<"create", u>> = <<"create", v>> /\ ChildLen(program, v) > 0
          /\ created' = created \cup {v} => MainGoes("create", after, 0, {v})
    <3>1. /\ <<"create", u>> # <<"down", "parent">> /\ <<"create", u>> # <<"print">>
          /\ <<"create", u>> # <<"up", "child">> /\ \A v : <<"create", u>> # <<"join", v>>
      BY SMTT(30), Z3T(60)
    <3>. QED BY ONLY ZenonT(60), <1>0, <2>1, <3>1
  <2>3. u = v BY <2>2, SameCreate
  <2>. QED BY <2>1, <2>2, <2>3 DEF MainCreate
<1>2. CASE join(main)
  <2>1. PICK u : At(main, <<"join", u>>) /\ UNCHANGED <<created, out, svars, parentvars>>
    BY <1>2 DEF join, svars, parentvars
  <2>. QED BY <1>0, <2>1 DEF MainJoin
<1>3. CASE print(main)
  BY <1>0, <1>3 DEF print, svars, parentvars, MainPrint
<1>4. CASE down(main)
  <2>1. /\ At(main, <<"down", "parent">>) /\ parent!SSU_Sem_down(main)
        /\ UNCHANGED <<created, out, svars>>
    BY <1>0, <1>4 DEF down, svars, svars
  <2>2. MainGoes("down", {"create", "up", "print", "join"}, 0, {}) BY <1>0, <2>1
  <2>3. parentWaiters \cup {main} = {main} BY DEF Setting, SleepersOK
  <2>. QED
    BY <2>1, <2>2, <2>3 DEF MainDown, parent!SSU_Sem_down, parent!cond!Wait
<1>5. CASE wake(main)
  <2>1. ~(main \in woken) BY DEF Setting, SleepersOK, Children
  <2>2. /\ parent!down_return(main) /\ UNCHANGED svars
        /\ UNCHANGED <<pc, created, spuriousCnt, out>>
    BY <1>5, <2>1 DEF wake, down_return, cond!Return, svars, svars
  <2>. QED
    BY <2>2 DEF parent!down_return, parent!cond!Return, MainReturn, Still, Setting, SleepersOK
<1>6. CASE up(main)
  <2>1. /\ At(main, <<"up", "child">>) /\ SSU_Sem_up /\ UNCHANGED <<created, out, parentvars>>
    BY <1>0, <1>6 DEF up, parentvars, parentvars
  <2>2. MainGoes("up", {"down"}, 1, {}) BY <1>0, <2>1
  <2>3. SSU_Sem_up
    BY <2>1 DEF SSU_Sem_up, cond!Signal, cond!cvars,
                SSU_Sem_up, cond!Signal, cond!cvars
  <2>. QED BY <2>1, <2>2, <2>3 DEF MainUp
<1>. QED BY <1>1, <1>2, <1>3, <1>4, <1>5, <1>6 DEF TestStep

\* Every step of either program is one of these.
LEMMA StepKinds ==
  ASSUME Setting, TestNext
  PROVE  \/ \E w \in Children : ChildDown(w) \/ ChildPrint(w) \/ ChildUp(w) \/ ChildReturn(w)
         \/ \E u \in Children : MainCreate(u)
         \/ MainPrint \/ MainUp \/ MainDown \/ MainJoin \/ MainReturn
         \/ MainSpurious \/ \E w \in Children : ChildSpurious(w)
<1>1. PICK t \in Threads : (TestStep(t) \/ wake_spurious(t)) /\ program' = program
  BY DEF TestNext
<1>2. t = main \/ t \in Children BY DEF Children
<1>3. CASE TestStep(t) BY <1>1, <1>2, <1>3, ChildKinds, MainKinds
<1>4. CASE wake_spurious(t)
  <2>1. /\ spuriousCnt' = spuriousCnt + 1 /\ UNCHANGED <<pc, created, out>>
        /\ \/ down_spurious(t) /\ UNCHANGED parentvars
           \/ parent!down_spurious(t) /\ UNCHANGED svars
    BY <1>4 DEF wake_spurious, svars, parentvars
  <2>2. CASE down_spurious(t) /\ UNCHANGED parentvars
    <3>1. down_spurious(t)
      BY <2>2 DEF down_spurious, cond!Spurious, down_spurious, cond!Spurious
    <3>2. t \in Children BY <3>1 DEF down_spurious, cond!Spurious, Setting, SleepersOK
    <3>. QED BY <1>1, <2>1, <2>2, <3>1, <3>2 DEF ChildSpurious, Still
  <2>3. CASE parent!down_spurious(t) /\ UNCHANGED svars
    BY <1>1, <2>1, <2>3
    DEF MainSpurious, Still, parent!down_spurious, parent!cond!Spurious, Setting, SleepersOK
  <2>. QED BY <2>1, <2>2, <2>3
<1>. QED BY <1>1, <1>3, <1>4

\* What a move leaves alone.
LEMMA ChildGoesOn ==
  ASSUME Setting, NEW w, NEW a, NEW b, NEW k, ChildGoes(w, a, b, k), out' \in Seq(Threads)
  PROVE  /\ ThreadsOK' /\ created' = Exist(program', pc'[main])
         /\ Does(w)' \in b /\ \A v \in Children : v # w => Does(v)' = Does(v) /\ pc'[v] = pc[v]
         /\ MainDoes' = MainDoes /\ pc'[main] = pc[main] /\ pc'[w] = pc[w] + 1
<1>1. /\ w \in Children /\ w \in created /\ program' = program /\ created' = created
      /\ pc' = [pc EXCEPT ![w] = pc[w] + 1] /\ pc[w] + 1 \in 1..ChildLen(program, w) + 1
      /\ ChildAt(program, w, pc[w] + 1) \in b
  BY DEF ChildGoes
<1>2. /\ program \in {"test", "toggle"} /\ pc \in [Threads -> Nat]
      /\ pc[main] \in 1..MainLen(program) + 1
      /\ \A v \in Children : pc[v] \in 1..ChildLen(program, v) + 1
      /\ created \subseteq Threads /\ main \in created /\ \A v \in Children \ created : pc[v] = 1
      /\ created = Exist(program, pc[main])
  BY DEF Setting, ThreadsOK
<1>3. w \in Threads /\ w # main /\ main \in Threads /\ \A v \in Children : v \in Threads
  BY <1>1, TestAssumption DEF Children
<1>4. /\ pc' \in [Threads -> Nat] /\ pc'[w] = pc[w] + 1 /\ pc'[main] = pc[main]
      /\ \A v \in Children : v # w => pc'[v] = pc[v]
  <2>1. pc[w] \in Nat BY <1>2, <1>3
  <2>2. pc[w] + 1 \in Nat BY SMTT(30), Z3T(60), <2>1
  <2>. QED BY <1>1, <1>2, <1>3, <2>2
<1>5. ThreadsOK' BY <1>1, <1>2, <1>3, <1>4 DEF ThreadsOK
<1>. QED BY <1>1, <1>2, <1>3, <1>4, <1>5 DEF Does, MainDoes

\* When main goes on by one operation, the children stay where they are.
LEMMA MainGoesOn ==
  ASSUME Setting, NEW a, NEW b, NEW k, NEW new \in SUBSET Children, MainGoes(a, b, k, new), out' \in Seq(Threads)
  PROVE  /\ ThreadsOK' /\ created' = Exist(program', pc'[main])
         /\ MainDoes' \in b /\ pc'[main] = pc[main] + 1
         /\ \A v \in Children : Does(v)' = Does(v) /\ pc'[v] = pc[v]
<1>1. /\ program' = program /\ created' = created \cup new /\ created' = Exist(program, pc[main] + 1)
      /\ pc' = [pc EXCEPT ![main] = pc[main] + 1] /\ pc[main] + 1 \in 1..MainLen(program) + 1
      /\ MainAt(program, pc[main] + 1) \in b
  BY DEF MainGoes
<1>2. /\ program \in {"test", "toggle"} /\ pc \in [Threads -> Nat]
      /\ \A v \in Children : pc[v] \in 1..ChildLen(program, v) + 1
      /\ created \subseteq Threads /\ main \in created /\ \A v \in Children \ created : pc[v] = 1
  BY DEF Setting, ThreadsOK
<1>3. main \in Threads /\ main \notin Children /\ \A v \in Children : v \in Threads
  BY TestAssumption DEF Children
<1>4. /\ pc' \in [Threads -> Nat] /\ pc'[main] = pc[main] + 1
      /\ \A v \in Children : pc'[v] = pc[v]
  <2>1. pc[main] \in Nat BY <1>2, <1>3
  <2>2. pc[main] + 1 \in Nat BY SMTT(30), Z3T(60), <2>1
  <2>. QED BY <1>1, <1>2, <1>3, <2>2
<1>5. ThreadsOK' BY <1>1, <1>2, <1>3, <1>4 DEF ThreadsOK
<1>. QED BY <1>1, <1>2, <1>3, <1>4, <1>5 DEF Does, MainDoes

\* A step in which no thread changes its position.
LEMMA StillOn ==
  ASSUME Setting, Still
  PROVE  /\ ThreadsOK' /\ created' = Exist(program', pc'[main]) /\ MainDoes' = MainDoes
         /\ \A v \in Children : Does(v)' = Does(v)
BY DEF Setting, Still, ThreadsOK, MainDoes, Does

\* Lines are appended by threads.
LEMMA Prints == ASSUME Setting, NEW t \in Threads PROVE Append(out, t) \in Seq(Threads)
BY SMTT(30), Z3T(60) DEF Setting, ThreadsOK

\* The semaphore child behaves as in any other use.
LEMMA ChildSem ==
  ASSUME Counting, Setting, SemInv, TestNext
  PROVE  SemInv'
<1>. USE SemFinite DEF SemInv
<1>0. value \in Int /\ spuriousCnt \in Nat BY DEF SemTypeOK
<1>1. ASSUME NEW w \in Children, ChildDown(w) PROVE SemInv'
  <2>1. w \in Idle /\ SSU_Sem_down(w) /\ UNCHANGED spuriousCnt
    BY <1>1 DEF ChildDown, ChildGoes, Idle, Children
  <2>. QED BY SMTT(30), Z3T(60), <1>0, <2>1, DownEffect DEF ValueCountsWaiters
<1>2. CASE MainUp BY <1>2, UpEffect DEF MainUp, MainGoes
<1>3. ASSUME NEW w \in Children, ChildReturn(w) PROVE SemInv'
  <2>1. w \in Threads /\ down_return(w) /\ UNCHANGED spuriousCnt BY <1>3 DEF ChildReturn, Children
  <2>. QED BY <2>1, ReturnEffect DEF ValueCountsWaiters
<1>4. ASSUME NEW w \in Children, ChildSpurious(w) PROVE SemInv'
  <2>1. w \in Threads /\ down_spurious(w) /\ spuriousCnt' = spuriousCnt + 1
    BY <1>4 DEF ChildSpurious, Children
  <2>2. Cardinality(waiters') = Cardinality(waiters) - 1
    BY <2>1, CountRemove DEF down_spurious, cond!Spurious
  <2>3. SemTypeOK' /\ value' = value BY SMTT(30), Z3T(60), <2>1 DEF down_spurious, cond!Spurious, SemTypeOK
  <2>. QED BY SMTT(30), Z3T(60), <1>0, <2>1, <2>2, <2>3 DEF ValueCountsWaiters
<1>5. CASE UNCHANGED <<value, waiters, woken>> /\ spuriousCnt' = spuriousCnt
  BY <1>5 DEF SemTypeOK, ValueCountsWaiters
<1>6. CASE MainSpurious
  <2>1. UNCHANGED <<value, waiters, woken>> /\ spuriousCnt' = spuriousCnt + 1 BY <1>6 DEF MainSpurious, svars
  <2>2. UNCHANGED Cardinality(waiters) BY <2>1
  <2>. QED BY SMTT(30), Z3T(60), <1>0, <2>1, <2>2 DEF SemTypeOK, ValueCountsWaiters
<1>7. CASE \/ \E w \in Children : ChildPrint(w) \/ ChildUp(w)
           \/ \E u \in Children : MainCreate(u)
           \/ MainPrint \/ MainDown \/ MainJoin \/ MainReturn
  BY <1>5, <1>7
  DEF ChildPrint, ChildUp, ChildGoes, MainCreate, MainPrint, MainDown, MainJoin, MainReturn, MainGoes, svars
<1>. QED BY <1>1, <1>2, <1>3, <1>4, <1>6, <1>7, StepKinds

\* Whoever sleeps is where its program has left it.
LEMMA SettingStep ==
  ASSUME Setting, SemInv, TestNext
  PROVE  Setting'
<1>0. /\ waiters \cup woken \subseteq Children \cap created
      /\ \A w \in waiters \cup woken : Does(w) = "print"
      /\ parentWaiters \subseteq {main} /\ parentWoken \subseteq {main} \ parentWaiters
      /\ parentValue \in Int /\ (parentWaiters # {} => parentValue < 0)
      /\ parentWaiters \cup parentWoken # {} => pc[main] > 1 /\ MainAt(program, pc[main] - 1) = "down"
      /\ pc[main] \in 1..MainLen(program) + 1 /\ out \in Seq(Threads) /\ main \in Threads
  BY TestAssumption DEF Setting, SleepersOK, ThreadsOK
<1>1. ASSUME NEW w \in Children, ChildDown(w) PROVE Setting'
  <2>0. ChildGoes(w, "down", {"print"}, 1) /\ UNCHANGED <<out, parentvars>> BY <1>1 DEF ChildDown
  <2>1. /\ ThreadsOK' /\ created' = Exist(program', pc'[main])
        /\ Does(w)' \in {"print"} /\ \A v \in Children : v # w => Does(v)' = Does(v)
        /\ pc'[main] = pc[main]
    <3>1. out' \in Seq(Threads) BY <1>0, <2>0
    <3>. QED BY <2>0, <3>1, ChildGoesOn
  <2>2. waiters' \cup woken' \subseteq waiters \cup woken \cup {w}
    BY <1>1 DEF ChildDown, SSU_Sem_down, cond!Wait
  <2>3. created' = created /\ w \in created /\ program' = program BY <2>0 DEF ChildGoes
  <2>. QED BY <1>0, <2>0, <2>1, <2>2, <2>3 DEF Setting, SleepersOK, parentvars
<1>2. ASSUME NEW w \in Children, ChildPrint(w) PROVE Setting'
  <2>0. ChildGoes(w, "print", {"up"}, 0) /\ UNCHANGED <<svars, parentvars>> /\ out' = Append(out, w)
    BY <1>2 DEF ChildPrint
  <2>1. /\ ThreadsOK' /\ created' = Exist(program', pc'[main])
        /\ \A v \in Children : v # w => Does(v)' = Does(v)
        /\ pc'[main] = pc[main] /\ created' = created /\ program' = program /\ w \notin waiters \cup woken
    BY <1>0, <2>0, ChildGoesOn, Prints DEF ChildGoes, Children
  <2>. QED BY <1>0, <2>0, <2>1 DEF Setting, SleepersOK, parentvars, svars
<1>3. ASSUME NEW w \in Children, ChildUp(w) PROVE Setting'
  <2>0. ChildGoes(w, "up", {"down", "end"}, 0) /\ UNCHANGED <<svars, out>> BY <1>3 DEF ChildUp
  <2>1. /\ ThreadsOK' /\ created' = Exist(program', pc'[main])
        /\ \A v \in Children : v # w => Does(v)' = Does(v)
        /\ pc'[main] = pc[main] /\ created' = created /\ program' = program /\ w \notin waiters \cup woken
    BY <1>0, <2>0, ChildGoesOn DEF ChildGoes
  <2>2. parentValue' = parentValue + 1 /\ parentValue' \in Int BY SMTT(30), Z3T(60), <1>0, <1>3 DEF ChildUp
  <2>3. /\ parentWaiters' \subseteq {main} /\ parentWoken' \subseteq {main} \ parentWaiters'
        /\ parentWaiters' \cup parentWoken' = parentWaiters \cup parentWoken /\ parentWaiters' = {}
    BY <1>0, <1>3 DEF ChildUp
  <2>. QED BY <1>0, <2>0, <2>1, <2>2, <2>3 DEF Setting, SleepersOK, svars
<1>4. ASSUME NEW w \in Children, ChildReturn(w) \/ ChildSpurious(w) PROVE Setting'
  <2>0. Still /\ UNCHANGED parentvars /\ waiters' \cup woken' \subseteq waiters \cup woken
    BY <1>4 DEF ChildReturn, ChildSpurious, down_return, down_spurious, cond!Return, cond!Spurious
  <2>. QED BY <1>0, <2>0, StillOn DEF Setting, SleepersOK, parentvars, Still
<1>5. ASSUME NEW u \in Children, MainCreate(u) PROVE Setting'
  <2>0. PICK b : MainGoes("create", b, 0, {u}) /\ UNCHANGED <<out, svars, parentvars>> BY <1>5 DEF MainCreate
  <2>3. {u} \in SUBSET Children OBVIOUS
  <2>1. /\ ThreadsOK' /\ created' = Exist(program', pc'[main]) /\ created' = created \cup {u}
        /\ \A v \in Children : Does(v)' = Does(v)
    BY <1>0, <2>0, <2>3, MainGoesOn DEF MainGoes
  <2>2. ~MainSleeps BY <2>0 DEF MainGoes
  <2>. QED BY <1>0, <2>0, <2>1, <2>2 DEF Setting, SleepersOK, parentvars, svars, MainSleeps
<1>6. CASE MainPrint
  <2>0. MainGoes("print", {"up", "join"}, 0, {}) /\ UNCHANGED <<svars, parentvars>> /\ out' = Append(out, main)
    BY <1>6 DEF MainPrint
  <2>1. /\ ThreadsOK' /\ created' = Exist(program', pc'[main]) /\ created' = created
        /\ \A v \in Children : Does(v)' = Does(v)
    BY <1>0, <2>0, MainGoesOn, Prints DEF MainGoes
  <2>2. ~MainSleeps BY <2>0 DEF MainGoes
  <2>. QED BY <1>0, <2>0, <2>1, <2>2 DEF Setting, SleepersOK, parentvars, svars, MainSleeps
<1>7. CASE MainUp
  <2>0. MainGoes("up", {"down"}, 1, {}) /\ UNCHANGED <<out, parentvars>> /\ SSU_Sem_up
    BY <1>7 DEF MainUp
  <2>1. /\ ThreadsOK' /\ created' = Exist(program', pc'[main]) /\ created' = created
        /\ \A v \in Children : Does(v)' = Does(v)
    BY <1>0, <2>0, MainGoesOn DEF MainGoes
  <2>2. ~MainSleeps BY <2>0 DEF MainGoes
  <2>3. waiters' \cup woken' \subseteq waiters \cup woken
    BY <2>0 DEF SSU_Sem_up, cond!Signal, cond!cvars
  <2>. QED BY <1>0, <2>0, <2>1, <2>2, <2>3 DEF Setting, SleepersOK, parentvars, MainSleeps
<1>8. CASE MainDown
  <2>0. MainGoes("down", {"create", "up", "print", "join"}, 0, {}) /\ UNCHANGED <<out, svars>>
    BY <1>8 DEF MainDown
  <2>1. /\ ThreadsOK' /\ created' = Exist(program', pc'[main]) /\ created' = created
        /\ \A v \in Children : Does(v)' = Does(v)
        /\ pc'[main] = pc[main] + 1 /\ program' = program /\ MainDoes = "down" /\ ~MainSleeps
    BY <1>0, <2>0, MainGoesOn DEF MainGoes
  <2>2. pc'[main] > 1 /\ pc'[main] - 1 = pc[main] BY SMTT(30), Z3T(60), <1>0, <2>1 DEF Setting, ThreadsOK
  <2>3. parentValue' \in Int /\ (parentWaiters' # {} => parentValue' < 0)
    BY SMTT(30), Z3T(60), <1>0, <1>8, <2>1 DEF MainDown, MainSleeps
  <2>4. parentWaiters' \subseteq {main} /\ parentWoken' \subseteq {main} \ parentWaiters'
    BY <1>0, <1>8, <2>1 DEF MainDown, MainSleeps
  <2>. QED BY <1>0, <2>0, <2>1, <2>2, <2>3, <2>4 DEF Setting, SleepersOK, svars, MainDoes
<1>9. CASE MainJoin
  <2>0. MainGoes("join", {"join", "end"}, 0, {}) /\ UNCHANGED <<out, svars, parentvars>> BY <1>9 DEF MainJoin
  <2>1. /\ ThreadsOK' /\ created' = Exist(program', pc'[main]) /\ created' = created
        /\ \A v \in Children : Does(v)' = Does(v)
    BY <1>0, <2>0, MainGoesOn DEF MainGoes
  <2>2. ~MainSleeps BY <2>0 DEF MainGoes
  <2>. QED BY <1>0, <2>0, <2>1, <2>2 DEF Setting, SleepersOK, parentvars, svars, MainSleeps
<1>10. CASE MainReturn \/ MainSpurious
  <2>0. Still /\ UNCHANGED <<svars, parentValue>> BY <1>10 DEF MainReturn, MainSpurious
  <2>1. /\ parentWaiters' \subseteq {main} /\ parentWoken' \subseteq {main} \ parentWaiters'
        /\ parentWaiters' \subseteq parentWaiters
        /\ parentWaiters' \cup parentWoken' \subseteq parentWaiters \cup parentWoken
    BY <1>0, <1>10 DEF MainReturn, MainSpurious
  <2>. QED BY <1>0, <2>0, <2>1, StillOn DEF Setting, SleepersOK, svars, Still
<1>. QED BY <1>1, <1>2, <1>3, <1>4, <1>5, <1>6, <1>7, <1>8, <1>9, <1>10, StepKinds

\* Finite sets, and what happens to their sizes.
LEMMA Finite ==
  ASSUME Counting
  PROVE  /\ IsFiniteSet(Children) /\ IsFiniteSet(1..NUM_ITER + 1)
         /\ IsFiniteSet(Taken) /\ Cardinality(Taken) \in Nat
         /\ IsFiniteSet(Engaged) /\ Cardinality(Engaged) \in Nat
<1>1. IsFiniteSet(Children) BY SemAssumption, CountSubset DEF Children
<1>2. IsFiniteSet(1..NUM_ITER + 1) BY SMTT(30), Z3T(60), CountInterval, TestAssumption
<1>3. IsFiniteSet(Children \X (1..NUM_ITER + 1)) BY <1>1, <1>2, CountProduct
<1>4. IsFiniteSet(Taken) BY <1>3, CountSubset DEF Taken
<1>5. IsFiniteSet(Engaged) BY <1>1, CountSubset DEF Engaged
<1>. QED BY <1>1, <1>2, <1>4, <1>5, CountType

\* The downs taken are the same while no child goes behind a down ...
LEMMA TakenStays ==
  ASSUME program' = program, \A v \in Children : Turns(program, pc'[v]) = Turns(program, pc[v])
  PROVE  Taken' = Taken
<1>1. \A x \in Children \X (1..NUM_ITER + 1) : x[1] \in Children OBVIOUS
<1>. QED BY <1>1 DEF Taken

\* ... and one more when one does.
LEMMA TakenGrows ==
  ASSUME Counting, Setting, NEW w, NEW a, NEW b, ChildGoes(w, a, b, 1), out' \in Seq(Threads)
  PROVE  Cardinality(Taken') = Cardinality(Taken) + 1
<1>1. /\ program' = program /\ w \in Children /\ pc[w] + 1 \in 1..ChildLen(program, w) + 1
      /\ Turns(program, pc[w] + 1) = Turns(program, pc[w]) + 1
      /\ program \in {"test", "toggle"} /\ pc[w] \in 1..ChildLen(program, w) + 1
  BY DEF ChildGoes, Setting, ThreadsOK
<1>2. pc'[w] = pc[w] + 1 /\ \A v \in Children : v # w => pc'[v] = pc[v] BY ChildGoesOn
<1>3. PICK k \in 1..NUM_ITER + 1 : Turns(program, pc'[w]) = k /\ Turns(program, pc[w]) = k - 1
  BY SMTT(30), Z3T(60), <1>1, <1>2, TurnsBound, TestAssumption
<1>4. /\ \A j \in 1..NUM_ITER + 1 : j <= k <=> j <= k - 1 \/ j = k
      /\ ~(k <= k - 1)
  BY SMTT(30), Z3T(60), TestAssumption
<1>5. <<w, k>> \in Children \X (1..NUM_ITER + 1) /\ <<w, k>> \notin Taken
  BY <1>1, <1>3, <1>4 DEF Taken
<1>6. \A v \in Children, j \in 1..NUM_ITER + 1 :
        j <= Turns(program, pc'[v]) <=> j <= Turns(program, pc[v]) \/ <<v, j>> = <<w, k>>
  <2>1. ASSUME NEW v \in Children, NEW j \in 1..NUM_ITER + 1, v # w
        PROVE  j <= Turns(program, pc'[v]) <=> j <= Turns(program, pc[v]) \/ <<v, j>> = <<w, k>>
    <3>1. <<v, j>> # <<w, k>> BY <2>1
    <3>. QED BY <1>2, <2>1, <3>1
  <2>2. ASSUME NEW j \in 1..NUM_ITER + 1
        PROVE  j <= Turns(program, pc'[w]) <=> j <= Turns(program, pc[w]) \/ <<w, j>> = <<w, k>>
    <3>1. <<w, j>> = <<w, k>> <=> j = k OBVIOUS
    <3>. QED BY <1>3, <1>4, <3>1
  <2>. QED BY <2>1, <2>2
<1>7. Taken' = Taken \cup {<<w, k>>}
  <2>1. ASSUME NEW x \in Children \X (1..NUM_ITER + 1) PROVE x \in Taken' <=> x \in Taken \/ x = <<w, k>>
    <3>1. x = <<x[1], x[2]>> /\ x[1] \in Children /\ x[2] \in 1..NUM_ITER + 1 BY SMTT(30), Z3T(60)
    <3>. QED BY <1>1, <1>6, <3>1 DEF Taken
  <2>2. \A x \in Taken : x \in Children \X (1..NUM_ITER + 1) BY DEF Taken
  <2>3. \A x \in Taken' : x \in Children \X (1..NUM_ITER + 1) BY DEF Taken
  <2>. QED BY <1>5, <2>1, <2>2, <2>3
<1>. QED BY <1>5, <1>7, Finite, CountAdd

\* The children between down and up depend on their positions alone.
LEMMA EngagedStays ==
  ASSUME created' = created, \A v \in Children : Does(v)' = Does(v) PROVE Engaged' = Engaged
BY DEF Engaged

\* What the counts need to know of a step.
LEMMA CountsStep ==
  ASSUME Counting, Setting, SemInv, CountsOK, TestNext
  PROVE  CountsOK'
<1>. USE Finite
<1>0. /\ value = Ups(program, pc[main]) - Cardinality(Taken) /\ value \in Int /\ parentValue \in Int
      /\ Cardinality(Engaged) = (IF MainDoes = "down" THEN 1 ELSE 0) - parentValue - value
      /\ out \in Seq(Threads) /\ program \in {"test", "toggle"} /\ main \in Threads
  BY TestAssumption DEF CountsOK, Setting, ThreadsOK, SleepersOK, SemInv, SemTypeOK
<1>9. Ups(program, pc[main]) \in Int
  <2>1. pc[main] \in Nat BY SMTT(30), Z3T(60), TestAssumption DEF Setting, ThreadsOK
  <2>. QED BY SMTT(30), Z3T(60), <2>1, Sizes DEF Ups
<1>1. ASSUME NEW w \in Children, ChildDown(w) PROVE CountsOK'
  <2>0. ChildGoes(w, "down", {"print"}, 1) /\ UNCHANGED <<out, parentvars>> /\ value' = value - 1
    BY <1>1 DEF ChildDown, SSU_Sem_down
  <2>1. /\ Does(w)' \in {"print"} /\ \A v \in Children : v # w => Does(v)' = Does(v)
        /\ MainDoes' = MainDoes /\ pc'[main] = pc[main]
    BY <1>0, <2>0, ChildGoesOn
  <2>5. Does(w) = "down" /\ w \in created /\ created' = created /\ program' = program BY <2>0 DEF ChildGoes
  <2>2. Engaged' = Engaged \cup {w} /\ w \notin Engaged BY <2>1, <2>5 DEF Engaged
  <2>3. Cardinality(Engaged') = Cardinality(Engaged) + 1 BY <2>2, CountAdd
  <2>4. Cardinality(Taken') = Cardinality(Taken) + 1 BY <1>0, <2>0, TakenGrows
  <2>6. Ups(program', pc'[main]) = Ups(program, pc[main]) /\ parentValue' = parentValue
    BY <2>0, <2>1, <2>5 DEF parentvars
  <2>7. value' = Ups(program', pc'[main]) - Cardinality(Taken')
    <3>1. value - 1 = Ups(program, pc[main]) - (Cardinality(Taken) + 1) BY SMTT(30), Z3T(60), <1>0, <1>9
    <3>. QED BY <2>0, <2>4, <2>6, <3>1
  <2>8. Cardinality(Engaged') = (IF MainDoes' = "down" THEN 1 ELSE 0) - parentValue' - value'
    <3>1. Cardinality(Engaged) + 1 = (IF MainDoes = "down" THEN 1 ELSE 0) - parentValue - (value - 1)
      BY SMTT(30), Z3T(60), <1>0
    <3>. QED BY <2>0, <2>1, <2>3, <2>6, <3>1
  <2>. QED BY <2>7, <2>8 DEF CountsOK
<1>2. ASSUME NEW w \in Children, NEW a, NEW b, ChildGoes(w, a, b, 0), out' \in Seq(Threads) PROVE Taken' = Taken
  <2>1. pc'[w] = pc[w] + 1 /\ \A v \in Children : v # w => pc'[v] = pc[v] BY <1>2, ChildGoesOn
  <2>2. program' = program /\ Turns(program, pc[w] + 1) = Turns(program, pc[w]) + 0
    BY <1>2 DEF ChildGoes
  <2>3. Turns(program, pc[w]) \in Int BY SMTT(30), Z3T(60), TurnsBound, TestAssumption DEF Setting, ThreadsOK
  <2>4. Turns(program, pc[w] + 1) = Turns(program, pc[w]) BY SMTT(30), Z3T(60), <2>2, <2>3
  <2>. QED BY <2>1, <2>2, <2>4, TakenStays
<1>3. ASSUME NEW w \in Children, ChildPrint(w) PROVE CountsOK'
  <2>0. ChildGoes(w, "print", {"up"}, 0) /\ UNCHANGED <<svars, parentvars>> /\ out' = Append(out, w)
    BY <1>3 DEF ChildPrint
  <2>1. /\ out' \in Seq(Threads) BY <1>0, <2>0, Prints DEF Children
  <2>2. /\ Does(w)' \in {"up"} /\ \A v \in Children : v # w => Does(v)' = Does(v)
        /\ MainDoes' = MainDoes /\ pc'[main] = pc[main]
    BY <2>0, <2>1, ChildGoesOn
  <2>5. Does(w) = "print" /\ created' = created /\ program' = program BY <2>0 DEF ChildGoes
  <2>3. Engaged' = Engaged BY <2>2, <2>5 DEF Engaged
  <2>4. Taken' = Taken BY <1>2, <2>0, <2>1
  <2>. QED BY <1>0, <2>0, <2>2, <2>3, <2>4, <2>5 DEF CountsOK, parentvars, svars
<1>4. ASSUME NEW w \in Children, ChildUp(w) PROVE CountsOK'
  <2>0. ChildGoes(w, "up", {"down", "end"}, 0) /\ UNCHANGED <<out, svars>> /\ parentValue' = parentValue + 1
    BY <1>4 DEF ChildUp
  <2>1. /\ Does(w)' \in {"down", "end"} /\ \A v \in Children : v # w => Does(v)' = Does(v)
        /\ MainDoes' = MainDoes /\ pc'[main] = pc[main]
    BY <1>0, <2>0, ChildGoesOn
  <2>5. Does(w) = "up" /\ w \in created /\ created' = created /\ program' = program BY <2>0 DEF ChildGoes
  <2>2. Engaged' = Engaged \ {w} /\ w \in Engaged BY <2>1, <2>5 DEF Engaged
  <2>3. Cardinality(Engaged') = Cardinality(Engaged) - 1 BY <2>2, CountRemove
  <2>4. Taken' = Taken BY <1>0, <1>2, <2>0
  <2>. QED BY SMTT(30), Z3T(60), <1>0, <1>9, <2>0, <2>1, <2>3, <2>4, <2>5 DEF CountsOK, svars
<1>5. CASE MainReturn \/ MainSpurious \/ \E w \in Children : ChildReturn(w) \/ ChildSpurious(w)
  <2>1. Still /\ UNCHANGED <<value, parentValue>>
    BY <1>5 DEF MainReturn, MainSpurious, ChildReturn, ChildSpurious, down_return, down_spurious, svars, parentvars
  <2>2. Engaged' = Engaged BY <2>1, StillOn, EngagedStays DEF Still
  <2>3. Taken' = Taken BY <2>1, TakenStays DEF Still
  <2>. QED BY <1>0, <2>1, <2>2, <2>3, StillOn DEF CountsOK, Still
<1>6. ASSUME NEW a, NEW b, NEW k, NEW new \in SUBSET Children, MainGoes(a, b, k, new), out' \in Seq(Threads)
      PROVE  /\ Taken' = Taken /\ Ups(program', pc'[main]) = Ups(program, pc[main]) + k
             /\ MainDoes = a /\ MainDoes' \in b /\ \A v \in Children : Does(v)' = Does(v)
             /\ created' = created \cup new
  <2>1. /\ program' = program /\ pc'[main] = pc[main] + 1 /\ MainDoes' \in b
        /\ \A v \in Children : Does(v)' = Does(v) /\ pc'[v] = pc[v]
    BY <1>6, MainGoesOn DEF MainGoes
  <2>. QED BY <1>6, <2>1, TakenStays DEF MainGoes
<1>7. ASSUME NEW u \in Children, MainCreate(u) PROVE CountsOK'
  <2>. DEFINE b == IF program = "toggle" THEN {"down"} ELSE {"create", "print"}
  <2>0. /\ MainGoes("create", b, 0, {u}) /\ UNCHANGED <<out, svars, parentvars>>
        /\ ChildLen(program, u) > 0 /\ u \notin created
    BY <1>7 DEF MainCreate
  <2>1. {u} \in SUBSET Children OBVIOUS
  <2>2. /\ Taken' = Taken /\ Ups(program', pc'[main]) = Ups(program, pc[main]) + 0
        /\ MainDoes = "create" /\ MainDoes' \in b /\ \A v \in Children : Does(v)' = Does(v)
        /\ created' = created \cup {u}
    <3>. HIDE DEF b
    <3>1. PICK c : c = b OBVIOUS
    <3>2. MainGoes("create", c, 0, {u}) BY <2>0, <3>1
    <3>. QED BY <1>0, <1>6, <2>0, <2>1, <3>1, <3>2
  <2>3. Does(u) = IF program = "toggle" THEN "up" ELSE "down"
    <3>1. pc[u] = 1 BY <2>0 DEF Setting, ThreadsOK
    <3>. QED BY <1>0, <2>0, <3>1, Begins DEF Does
  <2>4. CASE program = "toggle"
    <3>1. Engaged' = Engaged \cup {u} /\ u \notin Engaged BY <2>0, <2>2, <2>3, <2>4 DEF Engaged
    <3>2. Cardinality(Engaged') = Cardinality(Engaged) + 1 BY <3>1, CountAdd
    <3>3. MainDoes' = "down" BY <2>2, <2>4
    <3>. QED BY SMTT(30), Z3T(60), <1>0, <1>9, <2>0, <2>2, <3>2, <3>3 DEF CountsOK, parentvars, svars
  <2>5. CASE program # "toggle"
    <3>1. Engaged' = Engaged BY <2>0, <2>2, <2>3, <2>5 DEF Engaged
    <3>2. MainDoes' # "down" BY <2>2, <2>5
    <3>3. value' = value /\ parentValue' = parentValue BY <2>0 DEF parentvars, svars
    <3>. QED BY SMTT(30), Z3T(60), <1>0, <1>9, <2>2, <3>1, <3>2, <3>3 DEF CountsOK
  <2>. QED BY <2>4, <2>5
<1>8. ASSUME NEW a, NEW b, NEW k \in Int, MainGoes(a, b, k, {}), out' \in Seq(Threads),
             value' = value + k, a \in {"print", "up", "down", "join"}, parentValue' \in Int,
             (IF "down" \in b THEN 1 ELSE 0) - parentValue' = (IF a = "down" THEN 1 ELSE 0) - parentValue + k,
             "down" \in b => b = {"down"}
      PROVE  CountsOK'
  <2>1. {} \in SUBSET Children OBVIOUS
  <2>2. /\ Taken' = Taken /\ Ups(program', pc'[main]) = Ups(program, pc[main]) + k
        /\ MainDoes = a /\ MainDoes' \in b /\ \A v \in Children : Does(v)' = Does(v)
        /\ created' = created \cup {}
    BY <1>6, <1>8, <2>1
  <2>3. Engaged' = Engaged BY <2>2, EngagedStays
  <2>4. MainDoes' = "down" <=> "down" \in b BY <1>8, <2>2
  <2>5. value' = Ups(program', pc'[main]) - Cardinality(Taken')
    BY SMTT(30), Z3T(60), <1>0, <1>8, <1>9, <2>2
  <2>6. Cardinality(Engaged') = (IF MainDoes' = "down" THEN 1 ELSE 0) - parentValue' - value'
    <3>0. PICK d \in Int : d = IF a = "down" THEN 1 ELSE 0 BY SMTT(30), Z3T(60)
    <3>3. PICK p \in Int, q \in Int, v \in Int :
            p = parentValue /\ q = parentValue' /\ v = value /\ v + k = value'
      BY <1>0, <1>8
    <3>1. CASE "down" \in b
      <4>1. 1 - q = d - p + k /\ Cardinality(Engaged') = d - p - v /\ MainDoes' = "down"
        BY <1>0, <1>8, <2>2, <2>3, <2>4, <3>0, <3>1, <3>3
      <4>2. d - p - v = 1 - q - (v + k) BY SMTT(30), Z3T(60), <4>1
      <4>. QED BY <3>3, <4>1, <4>2
    <3>2. CASE ~("down" \in b)
      <4>1. 0 - q = d - p + k /\ Cardinality(Engaged') = d - p - v /\ MainDoes' # "down"
        BY <1>0, <1>8, <2>2, <2>3, <2>4, <3>0, <3>2, <3>3
      <4>2. d - p - v = 0 - q - (v + k) BY SMTT(30), Z3T(60), <4>1
      <4>. QED BY <3>3, <4>1, <4>2
    <3>. QED BY <3>1, <3>2
  <2>. QED BY <2>5, <2>6 DEF CountsOK
<1>10. CASE MainPrint
  <2>1. MainGoes("print", {"up", "join"}, 0, {}) /\ out' \in Seq(Threads) /\ UNCHANGED <<svars, parentvars>>
    BY <1>0, <1>10, Prints DEF MainPrint
  <2>2. value' = value + 0 BY SMTT(30), Z3T(60), <1>0, <2>1 DEF svars
  <2>. QED BY SMTT(30), Z3T(60), <1>0, <1>8, <2>1, <2>2 DEF parentvars
<1>11. CASE MainUp
  <2>1. /\ MainGoes("up", {"down"}, 1, {}) /\ out' \in Seq(Threads) /\ UNCHANGED parentvars
        /\ value' = value + 1
    BY <1>0, <1>11 DEF MainUp, SSU_Sem_up
  <2>. QED BY SMTT(30), Z3T(60), <1>0, <1>8, <2>1 DEF parentvars
<1>12. CASE MainDown
  <2>1. /\ MainGoes("down", {"create", "up", "print", "join"}, 0, {}) /\ out' \in Seq(Threads)
        /\ UNCHANGED svars /\ parentValue' = parentValue - 1
    BY <1>0, <1>12 DEF MainDown
  <2>2. value' = value + 0 BY SMTT(30), Z3T(60), <1>0, <2>1 DEF svars
  <2>. QED BY SMTT(30), Z3T(60), <1>0, <1>8, <2>1, <2>2
<1>13. CASE MainJoin
  <2>1. MainGoes("join", {"join", "end"}, 0, {}) /\ out' \in Seq(Threads) /\ UNCHANGED <<svars, parentvars>>
    BY <1>0, <1>13 DEF MainJoin
  <2>2. value' = value + 0 BY SMTT(30), Z3T(60), <1>0, <2>1 DEF svars
  <2>. QED BY SMTT(30), Z3T(60), <1>0, <1>8, <2>1, <2>2 DEF parentvars
<1>. QED BY <1>1, <1>3, <1>4, <1>5, <1>7, <1>10, <1>11, <1>12, <1>13, StepKinds

\* How many downs there can have been: at most all of them, and exactly all once
\* every child has ended.
LEMMA TakenBound ==
  ASSUME Counting, Setting
  PROVE  /\ Cardinality(Taken) <= Total(program)
         /\ (Hands(program) \subseteq created /\ \A w \in Children \cap created : Does(w) = "end")
              => Cardinality(Taken) = Total(program)
<1>0. /\ program \in {"test", "toggle"} /\ \A w \in Children : pc[w] \in 1..ChildLen(program, w) + 1
      /\ NUM_ITER \in Nat
  BY TestAssumption DEF Setting, ThreadsOK
<1>1. \A w \in Children :
        /\ Turns(program, pc[w]) \in 0..Share(program) /\ (Turns(program, pc[w]) > 0 => w \in Hands(program))
        /\ Does(w) = "end" /\ w \in Hands(program) => Turns(program, pc[w]) = Share(program)
  BY <1>0, ChildTotals DEF Does
<1>2. Share(program) \in Nat /\ Share(program) <= NUM_ITER + 1 BY SMTT(30), Z3T(60), <1>0 DEF Share
<1>3. \A w \in Children, k \in 1..NUM_ITER + 1 :
        k <= Turns(program, pc[w]) => w \in Hands(program) /\ k \in 1..Share(program)
  BY SMTT(30), Z3T(60), <1>0, <1>1, <1>2
<1>. DEFINE all == Hands(program) \X (1..Share(program))
<1>4. Taken \subseteq all
  <2>1. ASSUME NEW x \in Taken PROVE x \in all
    <3>1. x \in Children \X (1..NUM_ITER + 1) /\ x[2] <= Turns(program, pc[x[1]]) BY <2>1 DEF Taken
    <3>2. x = <<x[1], x[2]>> /\ x[1] \in Children /\ x[2] \in 1..NUM_ITER + 1 BY SMTT(30), Z3T(60), <3>1
    <3>3. x[1] \in Hands(program) /\ x[2] \in 1..Share(program) BY <1>3, <3>1, <3>2
    <3>. QED BY <3>2, <3>3
  <2>. QED BY <2>1
<1>5. IsFiniteSet(all) /\ Cardinality(all) = Total(program) BY <1>0, Whole
<1>. HIDE DEF all
<1>6. Cardinality(Taken) <= Total(program) BY <1>4, <1>5, CountSubset
<1>7. ASSUME Hands(program) \subseteq created, \A w \in Children \cap created : Does(w) = "end"
      PROVE  Cardinality(Taken) = Total(program)
  <2>1. ASSUME NEW x \in all PROVE x \in Taken
    <3>1. PICK w \in Hands(program), k \in 1..Share(program) : x = <<w, k>> BY SMTT(30), Z3T(60), <2>1 DEF all
    <3>2. w \in Children BY DEF Hands
    <3>3. Turns(program, pc[w]) = Share(program) BY <1>1, <1>7, <3>2
    <3>4. k \in 1..NUM_ITER + 1 /\ k <= Share(program) BY SMTT(30), Z3T(60), <1>0, <1>2
    <3>. QED BY <3>1, <3>2, <3>3, <3>4 DEF Taken
  <2>2. Taken = all BY <1>4, <2>1
  <2>. QED BY <1>5, <2>2
<1>. QED BY <1>6, <1>7

\* A child that can run no more has ended or waits in its down.
LEMMA ChildRests ==
  ASSUME Setting, NEW w \in Children \cap created, ~CanRun(w)
  PROVE  w \notin woken /\ (w \in waiters \/ (Does(w) = "end" /\ Finished(w)))
<1>0. /\ program \in {"test", "toggle"} /\ pc[w] \in 1..ChildLen(program, w) + 1
      /\ parentWaiters \subseteq {main} /\ parentWoken \subseteq {main} /\ w # main
  BY DEF Setting, ThreadsOK, SleepersOK, Children
<1>1. w \notin woken BY DEF CanRun
<1>2. ASSUME w \notin waiters PROVE Does(w) = "end" /\ Finished(w)
  <2>1. ~Blocked(w) BY <1>0, <1>1, <1>2 DEF Blocked
  <2>2. Len(Ops(w)) = ChildLen(program, w) BY <1>0, ChildStep DEF Ops
  <2>3. ASSUME pc[w] <= ChildLen(program, w) PROVE FALSE
    <3>1. ChildMoves(program, w, pc[w], Ops(w)[pc[w]]) BY <1>0, <2>3, ChildStep DEF Ops
    <3>2. \A u : /\ <<"join", u>> # <<"down", "child">> /\ <<"join", u>> # <<"print">>
                 /\ <<"join", u>> # <<"up", "parent">>
      BY SMTT(30), Z3T(60)
    <3>3. \A u : Ops(w)[pc[w]] # <<"join", u>> BY ONLY ZenonT(60), <3>1, <3>2 DEF ChildMoves
    <3>. QED BY <2>1, <2>2, <2>3, <3>3 DEF CanRun
  <2>4. pc[w] > ChildLen(program, w)
    <3>1. ChildLen(program, w) \in Nat BY SMTT(30), Z3T(60), TestAssumption DEF ChildLen
    <3>. QED BY SMTT(30), Z3T(60), <1>0, <2>3, <3>1
  <2>. QED BY <1>0, <2>1, <2>2, <2>4, ChildStep DEF Finished, Does
<1>. QED BY <1>1, <1>2

\* Neither program can stop before all its threads have ended: if nobody can go on,
\* nobody waits for main, since the children have had all the ups there are, and main
\* does not wait, since no child between its down and its up is left.
LEMMA NotStuck ==
  ASSUME Counting, Setting, SemInv, CountsOK, \A t \in Threads : ~CanRun(t)
  PROVE  AllFinished
<1>. USE SemFinite, Finite DEF SemInv
<1>0. /\ program \in {"test", "toggle"} /\ pc[main] \in 1..MainLen(program) + 1
      /\ \A w \in Children : pc[w] \in 1..ChildLen(program, w) + 1
      /\ created = Exist(program, pc[main]) /\ main \in created /\ created \subseteq Threads
      /\ \A w \in Children \ created : pc[w] = 1
      /\ waiters \cup woken \subseteq Children \cap created /\ (\A w \in waiters \cup woken : Does(w) = "print")
      /\ parentWaiters \subseteq {main} /\ parentWoken \subseteq {main} \ parentWaiters
      /\ parentValue \in Int /\ (parentWaiters # {} => parentValue < 0)
      /\ parentWaiters \cup parentWoken # {} => pc[main] > 1 /\ MainAt(program, pc[main] - 1) = "down"
      /\ main \in Threads /\ main \notin Children
  BY TestAssumption DEF Setting, ThreadsOK, SleepersOK, Children
<1>1. /\ \A w \in Children \cap created :
           w \notin woken /\ (w \in waiters \/ (Does(w) = "end" /\ Finished(w)))
      /\ woken = {} /\ parentWoken = {}
  <2>1. \A w \in Children : w \in Threads BY DEF Children
  <2>2. \A w \in Children \cap created :
          w \notin woken /\ (w \in waiters \/ (Does(w) = "end" /\ Finished(w)))
    BY <2>1, ChildRests
  <2>3. parentWoken = {} BY <1>0 DEF CanRun
  <2>. QED BY <1>0, <2>2, <2>3
<1>2. Engaged = waiters BY <1>0, <1>1 DEF Engaged
<1>3. /\ value = Ups(program, pc[main]) - Cardinality(Taken) /\ value \in Int
      /\ Cardinality(waiters) = (IF MainDoes = "down" THEN 1 ELSE 0) - parentValue - value
      /\ Cardinality(waiters) <= (IF value < 0 THEN -value ELSE 0)
  BY <1>2 DEF CountsOK, ValueCountsWaiters, SemTypeOK
<1>4. value >= 0 => waiters = {}
  <2>1. value >= 0 => Cardinality(waiters) = 0 BY SMTT(30), Z3T(60), <1>3
  <2>. QED BY <2>1, CountEmpty
<1>5. Ups(program, pc[main]) \in 0..Total(program) /\ Total(program) \in Nat
  BY SMTT(30), Z3T(60), <1>0, MainTotals, Sizes DEF Total
<1>6. CASE parentWaiters # {}
  <2>1. parentValue < 0 /\ MainDoes # "down"
    <3>1. /\ pc[main] - 1 \in 1..MainLen(program) + 1 /\ pc[main] - 1 <= MainLen(program)
          /\ (pc[main] - 1) + 1 = pc[main]
      <4>1. MainLen(program) \in Nat BY SMTT(30), Z3T(60), Sizes, TestAssumption DEF MainLen
      <4>. QED BY SMTT(30), Z3T(60), <1>0, <1>6, <4>1
    <3>2. MainMoves(program, pc[main] - 1, Programs[program][main][pc[main] - 1])
      BY <1>0, <3>1, MainStep
    <3>. QED BY <1>0, <1>6, <3>1, <3>2 DEF MainMoves, MainDoes
  <2>2. value > 0
    <3>1. PICK p \in Int, v \in Int, c \in Nat : p = parentValue /\ v = value /\ c = Cardinality(waiters)
      BY <1>0, <1>3
    <3>2. p < 0 /\ c = 0 - p - v /\ c <= (IF v < 0 THEN -v ELSE 0) BY <1>3, <2>1, <3>1
    <3>3. v > 0 BY SMTT(30), Z3T(60), <3>2
    <3>. QED BY <3>1, <3>3
  <2>3. \A w \in Children \cap created : Does(w) = "end"
    <3>1. waiters = {} BY SMTT(30), Z3T(60), <1>3, <1>4, <2>2
    <3>. QED BY <1>1, <3>1
  <2>4. Ups(program, pc[main]) = 0 \/ Cardinality(Taken) = Total(program)
    BY <1>0, <2>3, MainTotals, TakenBound
  <2>. QED BY SMTT(30), Z3T(60), <1>3, <1>5, <2>2, <2>4
<1>7. CASE parentWaiters = {}
  <2>0. /\ Len(Ops(main)) = MainLen(program) /\ ~Blocked(main)
        /\ (pc[main] > MainLen(program) <=> MainDoes = "end")
    BY <1>0, <1>1, <1>7, MainStep DEF Ops, Blocked, MainDoes
  <2>1. pc[main] <= MainLen(program) \/ pc[main] > MainLen(program)
    <3>1. MainLen(program) \in Nat BY SMTT(30), Z3T(60), Sizes, TestAssumption DEF MainLen
    <3>. QED BY SMTT(30), Z3T(60), <1>0, <3>1
  <2>2. ASSUME MainDoes \in {"join", "end"}
        PROVE  (\A w \in Children \cap created : Finished(w)) /\ Hands(program) \subseteq created /\ waiters = {}
    <3>1. Ups(program, pc[main]) = Total(program) /\ Hands(program) \subseteq created
      BY <1>0, <2>2, MainTotals DEF MainDoes
    <3>2. value >= 0 BY SMTT(30), Z3T(60), <1>3, <1>5, <3>1, TakenBound
    <3>. QED BY <1>1, <1>4, <3>1, <3>2
  <2>3. ASSUME pc[main] <= MainLen(program) PROVE FALSE
    <3>1. MainMoves(program, pc[main], Ops(main)[pc[main]])
      BY <1>0, <2>3, MainStep DEF Ops
    <3>2. ASSUME \A u \in Children : Ops(main)[pc[main]] # <<"join", u>> PROVE FALSE
      <4>1. CanRun(main) BY <1>0, <2>0, <2>3, <3>2 DEF CanRun
      <4>. QED BY <1>0, <4>1
    <3>3. \A u : /\ <<"join", u>> # <<"down", "parent">> /\ <<"join", u>> # <<"print">>
                 /\ <<"join", u>> # <<"up", "child">> /\ (\A v : <<"join", u>> # <<"create", v>>)
      BY SMTT(30), Z3T(60)
    <3>4. PICK u \in Children \cap Exist(program, pc[main]) :
            Ops(main)[pc[main]] = <<"join", u>> /\ MainDoes = "join"
      BY <3>1, <3>2, <3>3 DEF MainMoves, MainDoes
    <3>5. Finished(u) BY <1>0, <2>2, <3>4
    <3>6. \A v : <<"join", u>> = <<"join", v>> => u = v BY SMTT(30), Z3T(60)
    <3>7. \A v \in Children : Ops(main)[pc[main]] = <<"join", v>> => Finished(v) BY <3>4, <3>5, <3>6
    <3>8. CanRun(main) BY <1>0, <2>0, <2>3, <3>7 DEF CanRun
    <3>. QED BY <1>0, <3>8
  <2>4. MainDoes = "end" /\ pc[main] > MainLen(program) BY <2>0, <2>1, <2>3
  <2>5. Finished(main) BY <2>0, <2>4 DEF Finished
  <2>6. ASSUME NEW w \in Children \ created PROVE Finished(w)
    <3>1. Len(Ops(w)) = ChildLen(program, w) BY <1>0, ChildStep DEF Ops
    <3>2. ~(ChildLen(program, w) > 0) BY <2>2, <2>4 DEF Hands
    <3>3. pc[w] > ChildLen(program, w)
      <4>1. ChildLen(program, w) \in Nat BY SMTT(30), Z3T(60), TestAssumption DEF ChildLen
      <4>. QED BY SMTT(30), Z3T(60), <1>0, <3>2, <4>1
    <3>4. ~Blocked(w) BY <1>0 DEF Blocked
    <3>. QED BY <3>1, <3>3, <3>4 DEF Finished
  <2>. QED BY <2>2, <2>4, <2>5, <2>6 DEF AllFinished, Children
<1>. QED BY <1>6, <1>7

\* Without spurious wakeups a negative value means that somebody waits.
LEMMA Debts ==
  ASSUME Counting, SemInv, spuriousCnt = 0
  PROVE  (value < 0 => waiters # {}) /\ (value >= 0 => waiters = {})
<1>1. value \in Int /\ Cardinality(waiters) \in Nat /\ IsFiniteSet(waiters)
  BY SemFinite DEF SemInv, SemTypeOK
<1>2. /\ Cardinality(waiters) <= (IF value < 0 THEN -value ELSE 0)
      /\ Cardinality(waiters) >= -value - 0
  BY DEF SemInv, ValueCountsWaiters
<1>3. (value < 0 => Cardinality(waiters) # 0) /\ (value >= 0 => Cardinality(waiters) = 0)
  BY SMTT(30), Z3T(60), <1>1, <1>2
<1>. QED BY <1>1, <1>3, CountEmpty

\* Main's state is not touched by what leaves its position and its semaphore alone.
LEMMA MainSame ==
  ASSUME UNCHANGED parentvars, MainDoes' = MainDoes
  PROVE  (Free' <=> Free) /\ (Asked' <=> Asked) /\ (Answered' <=> Answered) /\ (MainSleeps' <=> MainSleeps)
BY DEF parentvars, Free, Asked, Answered, MainSleeps

\* A child that stays where it is and does not wait more or less is as busy as before.
LEMMA BusySame ==
  ASSUME NEW v \in Children, Does(v)' = Does(v), v \in created' <=> v \in created,
         v \in waiters' \cup woken' <=> v \in waiters \cup woken
  PROVE  Busy(v)' <=> Busy(v)
BY DEF Busy, Engaged

Turning == Setting /\ SemInv /\ spuriousCnt = 0 /\ OneTurn

\* The states of main exclude each other.
LEMMA MainStates ==
  ASSUME Setting
  PROVE  /\ ~(Free /\ Asked) /\ ~(Free /\ Answered) /\ ~(Asked /\ Answered)
         /\ MainSleeps => ~Free
<1>1. parentWoken \subseteq {main} \ parentWaiters BY DEF Setting, SleepersOK
<1>. QED BY SMTT(30), Z3T(60), <1>1 DEF Free, Asked, Answered, MainSleeps

\* Turn-taking, one kind of step after the other.  A child's down takes the permit that
\* is there, or sleeps.
LEMMA TurnChildDown ==
  ASSUME Turning, NEW w \in Children, ChildDown(w)
  PROVE  /\ OneTurn' /\ (Asked' <=> Asked) /\ (HasPrinted' <=> HasPrinted)
         /\ value <= 0 => value' <= 0 /\ \A v \in Children : Busy(v)' => Busy(v) /\ Does(v)' = Does(v)
         /\ woken' = woken
<1>0. ChildGoes(w, "down", {"print"}, 1) /\ UNCHANGED <<out, parentvars>> /\ SSU_Sem_down(w)
  BY DEF ChildDown
<1>1. /\ Does(w)' \in {"print"} /\ \A v \in Children : v # w => Does(v)' = Does(v)
      /\ MainDoes' = MainDoes
  BY <1>0, ChildGoesOn DEF Turning, Setting, ThreadsOK
<1>2. Does(w) = "down" /\ w \in created /\ created' = created /\ w \notin waiters \cup woken
  BY <1>0 DEF ChildGoes
<1>3. value \in Int /\ value' = value - 1 BY <1>0 DEF SSU_Sem_down, Turning, SemInv, SemTypeOK
<1>4. woken' = woken /\ (waiters' = waiters \/ waiters' = waiters \cup {w})
  BY <1>0 DEF SSU_Sem_down, cond!Wait
<1>5. \A v \in Children : v # w => (Busy(v)' <=> Busy(v))
  BY <1>1, <1>2, <1>4, BusySame
<1>6. ~Busy(w) BY <1>2 DEF Busy, Engaged
<1>7. HasPrinted' <=> HasPrinted
  BY <1>1, <1>5, <1>6 DEF HasPrinted
<1>8. (Free' <=> Free) /\ (Asked' <=> Asked) /\ (Answered' <=> Answered) BY <1>0, <1>1, MainSame
<1>9. CASE value <= 0
  <2>1. value' < 0 /\ value' <= 0 BY SMTT(30), Z3T(60), <1>3, <1>9
  <2>2. waiters' = waiters \cup {w} BY <1>0, <2>1 DEF SSU_Sem_down, cond!Wait
  <2>3. ~Busy(w)' BY <2>2 DEF Busy
  <2>4. \A v \in Children : Busy(v)' <=> Busy(v) BY <1>5, <1>6, <2>3
  <2>5. value # 1 BY SMTT(30), Z3T(60), <1>3, <1>9
  <2>6. OneTurn' BY <1>4, <1>8, <2>1, <2>4, <2>5 DEF Turning, OneTurn, NoneBusy
  <2>. QED BY <1>1, <1>4, <1>6, <1>7, <1>8, <2>1, <2>4, <2>6
<1>10. CASE ~(value <= 0)
  <2>1. Asked /\ value = 1 /\ woken = {} /\ NoneBusy BY <1>10 DEF Turning, OneTurn
  <2>2. value' = 0 /\ value' <= 0 /\ ~(value' < 0) BY SMTT(30), Z3T(60), <1>3, <2>1
  <2>3. UNCHANGED <<waiters, woken>> BY <1>0, <2>2 DEF SSU_Sem_down
  <2>4. Busy(w)' BY <1>1, <1>2, <2>3 DEF Busy, Engaged
  <2>5. \A v \in Children : Busy(v)' => v = w BY <1>5, <2>1 DEF NoneBusy
  <2>6. OneTurn' BY <1>4, <1>8, <2>1, <2>2, <2>4, <2>5 DEF OneTurn
  <2>. QED BY <1>4, <1>7, <1>8, <1>10, <2>6
<1>. QED BY <1>9, <1>10

\* Only the busy child prints, once per request.
LEMMA TurnChildPrint ==
  ASSUME Turning, NEW w \in Children, ChildPrint(w)
  PROVE  /\ OneTurn' /\ Asked /\ Asked' /\ Busy(w) /\ Does(w) = "print" /\ ~HasPrinted /\ HasPrinted'
<1>0. ChildGoes(w, "print", {"up"}, 0) /\ UNCHANGED <<svars, parentvars>> /\ out' = Append(out, w)
  BY DEF ChildPrint
<1>1. /\ Does(w)' \in {"up"} /\ \A v \in Children : v # w => Does(v)' = Does(v)
      /\ MainDoes' = MainDoes
  BY <1>0, ChildGoesOn, Prints DEF Turning, Children
<1>2. Does(w) = "print" /\ w \in created /\ created' = created /\ w \notin waiters \cup woken
  BY <1>0 DEF ChildGoes
<1>3. Busy(w) BY <1>2 DEF Busy, Engaged
<1>4. Asked /\ value <= 0 /\ woken = {} /\ \A v \in Children : Busy(v) => v = w
  BY <1>3 DEF Turning, OneTurn, NoneBusy
<1>5. \A v \in Children : v # w => (Busy(v)' <=> Busy(v)) BY <1>0, <1>1, <1>2, BusySame DEF svars
<1>6. Busy(w)' BY <1>0, <1>1, <1>2 DEF Busy, Engaged, svars
<1>7. Asked' BY <1>0, <1>1, <1>4, MainSame
<1>8. OneTurn' BY <1>0, <1>4, <1>5, <1>6, <1>7 DEF OneTurn, svars
<1>9. ~HasPrinted BY <1>2, <1>4 DEF HasPrinted
<1>10. HasPrinted' BY <1>1, <1>6 DEF HasPrinted
<1>. QED BY <1>2, <1>3, <1>4, <1>7, <1>8, <1>9, <1>10

\* The busy child's up answers the request.
LEMMA TurnChildUp ==
  ASSUME Turning, NEW w \in Children, ChildUp(w)
  PROVE  OneTurn' /\ Asked /\ HasPrinted /\ ~Asked' /\ NoneBusy'
<1>0. ChildGoes(w, "up", {"down", "end"}, 0) /\ UNCHANGED <<out, svars>> /\ parentValue' = parentValue + 1
  BY DEF ChildUp
<1>1. /\ Does(w)' \in {"down", "end"} /\ \A v \in Children : v # w => Does(v)' = Does(v)
      /\ MainDoes' = MainDoes
  BY <1>0, ChildGoesOn DEF Turning, Setting, ThreadsOK
<1>2. Does(w) = "up" /\ w \in created /\ created' = created /\ w \notin waiters \cup woken
  BY <1>0 DEF ChildGoes
<1>3. Busy(w) BY <1>2 DEF Busy, Engaged
<1>4. Asked /\ value <= 0 /\ woken = {} /\ \A v \in Children : Busy(v) => v = w
  BY <1>3 DEF Turning, OneTurn, NoneBusy
<1>5. \A v \in Children : v # w => (Busy(v)' <=> Busy(v)) BY <1>0, <1>1, <1>2, BusySame DEF svars
<1>6. ~Busy(w)' BY <1>1 DEF Busy, Engaged
<1>7. NoneBusy' BY <1>4, <1>5, <1>6 DEF NoneBusy
<1>8. Answered' /\ ~Asked'
  <2>1. CASE ~MainSleeps /\ MainDoes = "down" /\ parentValue = 0
    <3>1. parentValue' = 1 /\ ~(parentValue < 0) BY SMTT(30), Z3T(60), <1>0, <2>1
    <3>2. UNCHANGED <<parentWaiters, parentWoken>> BY <3>1 DEF ChildUp
    <3>3. ~MainSleeps' /\ parentWaiters' # {main} BY <2>1, <3>2 DEF MainSleeps
    <3>4. parentValue' # 0 BY SMTT(30), Z3T(60), <3>1
    <3>. QED BY <1>1, <2>1, <3>1, <3>3, <3>4 DEF Answered, Asked
  <2>2. CASE parentWaiters = {main} /\ parentValue = -1
    <3>1. parentValue' = 0 /\ parentValue < 0 BY SMTT(30), Z3T(60), <1>0, <2>2
    <3>2. parentWaiters' = {} /\ parentWoken' = {main} BY <2>2, <3>1 DEF ChildUp
    <3>. QED BY <3>1, <3>2 DEF Answered, Asked, MainSleeps
  <2>. QED BY <1>4, <2>1, <2>2 DEF Asked
<1>9. OneTurn' BY <1>0, <1>4, <1>7, <1>8 DEF OneTurn, svars
<1>. QED BY <1>2, <1>3, <1>4, <1>7, <1>8, <1>9 DEF HasPrinted

\* A child returns from its wait only for a request.
LEMMA TurnChildReturn ==
  ASSUME Turning, NEW w \in Children, ChildReturn(w)
  PROVE  OneTurn' /\ Asked /\ Asked' /\ ~HasPrinted /\ ~HasPrinted' /\ woken # {}
<1>0. Still /\ UNCHANGED <<spuriousCnt, parentvars, value, waiters>> /\ w \in woken /\ woken' = woken \ {w}
  BY DEF ChildReturn, down_return, cond!Return
<1>1. Asked /\ value <= 0 /\ NoneBusy /\ woken = {w} /\ woken' = {}
  BY <1>0 DEF Turning, OneTurn
<1>2. /\ MainDoes' = MainDoes /\ \A v \in Children : Does(v)' = Does(v)
  BY <1>0, StillOn DEF Turning
<1>3. Does(w) = "print" /\ w \in created /\ w \notin waiters
  BY <1>0 DEF Turning, Setting, SleepersOK, SemInv, SemTypeOK
<1>4. Busy(w)' BY <1>0, <1>1, <1>2, <1>3 DEF Busy, Engaged, Still
<1>5. \A v \in Children : v # w => (Busy(v)' <=> Busy(v))
  BY <1>0, <1>2, BusySame DEF Still
<1>6. \A v \in Children : Busy(v)' => v = w BY <1>1, <1>5 DEF NoneBusy
<1>7. Asked' BY <1>0, <1>1, <1>2, MainSame
<1>8. OneTurn' BY <1>0, <1>1, <1>4, <1>6, <1>7 DEF OneTurn
<1>. QED BY <1>1, <1>2, <1>3, <1>6, <1>7, <1>8 DEF HasPrinted, NoneBusy

\* When main moves and creates nobody, only main's position changes.
LEMMA MainOnly ==
  ASSUME Setting, NEW a, NEW b, NEW k, MainGoes(a, b, k, {}), out' \in Seq(Threads)
  PROVE  MainDoes' \in b /\ (\A v \in Children : Does(v)' = Does(v)) /\ pc'[main] = pc[main] + 1
<1>1. {} \in SUBSET Children OBVIOUS
<1>. QED BY <1>1, MainGoesOn

\* Main goes on only while nothing is on the way: it is free or takes the answer.
LEMMA MainFree ==
  ASSUME Turning, ~MainSleeps, MainDoes # "down"
  PROVE  Free /\ ~Asked /\ value <= 0 /\ woken = {} /\ NoneBusy
<1>1. Setting BY DEF Turning
<1>2. ~Asked /\ ~Answered
  BY DEF Asked, Answered, MainSleeps
<1>. QED BY <1>2 DEF Turning, OneTurn

\* pthread_create happens when nobody is asked; in the toggle program the new thread
\* answers first.
LEMMA TurnMainCreate ==
  ASSUME Turning, NEW u \in Children, MainCreate(u)
  PROVE  /\ OneTurn' /\ Free /\ ~Asked /\ \A v \in Children : Busy(v)' => Does(v)' = "up"
         /\ program # "toggle" => ~Asked'
         /\ value' = value /\ woken' = woken
<1>. DEFINE b == IF program = "toggle" THEN {"down"} ELSE {"create", "print"}
<1>0. /\ MainGoes("create", b, 0, {u}) /\ UNCHANGED <<out, svars, parentvars>>
      /\ ChildLen(program, u) > 0 /\ u \notin created
  BY DEF MainCreate
<1>1. /\ MainDoes' \in b /\ \A v \in Children : Does(v)' = Does(v)
  <2>. HIDE DEF b
  <2>1. PICK c : c = b OBVIOUS
  <2>2. MainGoes("create", c, 0, {u}) /\ {u} \in SUBSET Children BY <1>0, <2>1
  <2>. QED BY <1>0, <2>1, <2>2, MainGoesOn DEF Turning, Setting, ThreadsOK
<1>2. MainDoes = "create" /\ ~MainSleeps /\ created' = created \cup {u} BY <1>0 DEF MainGoes
<1>3. Free /\ ~Asked /\ value <= 0 /\ woken = {} /\ NoneBusy BY <1>2, MainFree
<1>4. u \notin waiters \cup woken BY <1>0 DEF Turning, Setting, SleepersOK
<1>5. program \in {"test", "toggle"} /\ pc[u] = 1 BY <1>0 DEF Turning, Setting, ThreadsOK
<1>6. Does(u)' = IF program = "toggle" THEN "up" ELSE "down" BY <1>0, <1>1, <1>5, Begins DEF Does
<1>7. \A v \in Children : v # u => ~Busy(v)'
  <2>1. ASSUME NEW v \in Children, v # u PROVE ~Busy(v)'
    <3>1. Busy(v)' <=> Busy(v) BY <1>0, <1>1, <1>2, <2>1, BusySame DEF svars
    <3>. QED BY <1>3, <3>1 DEF NoneBusy
  <2>. QED BY <2>1
<1>8. ~MainSleeps' /\ parentValue' = 0 /\ parentWaiters' # {main} BY <1>0, <1>2, <1>3 DEF parentvars, MainSleeps, Free
<1>9. CASE program = "toggle"
  <2>1. Busy(u)' BY <1>0, <1>2, <1>4, <1>6, <1>9 DEF Busy, Engaged, svars
  <2>2. Asked' BY <1>1, <1>8, <1>9 DEF Asked
  <2>3. OneTurn' BY <1>0, <1>3, <1>7, <2>1, <2>2 DEF OneTurn, svars
  <2>. QED BY <1>0, <1>3, <1>6, <1>7, <1>9, <2>3 DEF svars
<1>10. CASE program # "toggle"
  <2>1. ~Busy(u)' BY <1>6, <1>10 DEF Busy, Engaged
  <2>2. MainDoes' # "down" BY <1>1, <1>10
  <2>3. Free' /\ ~Asked' BY <1>8, <2>2 DEF Free, Asked
  <2>4. NoneBusy' BY <1>7, <2>1 DEF NoneBusy
  <2>5. OneTurn' BY <1>0, <1>3, <2>3, <2>4 DEF OneTurn, svars
  <2>. QED BY <1>0, <1>3, <2>3, <2>4, <2>5 DEF svars, NoneBusy
<1>. QED BY <1>9, <1>10

\* Main prints and joins when nobody is busy.
LEMMA TurnMainLocal ==
  ASSUME Turning, MainPrint \/ MainJoin
  PROVE  OneTurn' /\ ~Asked /\ ~Asked' /\ NoneBusy'
<1>0. PICK a \in {"print", "join"}, b \in {{"up", "join"}, {"join", "end"}} :
        MainGoes(a, b, 0, {}) /\ UNCHANGED <<svars, parentvars>> /\ out' \in Seq(Threads)
  BY Prints, TestAssumption DEF MainPrint, MainJoin, Turning, Setting, ThreadsOK
<1>1. /\ MainDoes' \in b /\ \A v \in Children : Does(v)' = Does(v)
  <2>1. Setting BY DEF Turning
  <2>. QED BY <1>0, <2>1, MainOnly
<1>2. MainDoes = a /\ ~MainSleeps /\ created' = created BY <1>0 DEF MainGoes
<1>3. Free /\ ~Asked /\ value <= 0 /\ woken = {} /\ NoneBusy BY <1>2, MainFree
<1>4. NoneBusy'
  <2>1. ASSUME NEW v \in Children PROVE ~Busy(v)'
    <3>1. Busy(v)' <=> Busy(v) BY <1>0, <1>1, <1>2, BusySame DEF svars
    <3>. QED BY <1>3, <3>1 DEF NoneBusy
  <2>. QED BY <2>1 DEF NoneBusy
<1>5. MainDoes' # "down" BY <1>1
<1>6. ~MainSleeps' /\ parentValue' = 0 /\ parentWaiters' # {main} BY <1>0, <1>2, <1>3 DEF parentvars, MainSleeps, Free
<1>7. Free' /\ ~Asked' BY <1>5, <1>6 DEF Free, Asked
<1>8. OneTurn' BY <1>0, <1>3, <1>4, <1>7 DEF OneTurn, svars
<1>. QED BY <1>3, <1>4, <1>7, <1>8

\* Main's up asks for one round, by a permit or by waking one child.
LEMMA TurnMainUp ==
  ASSUME Counting, Turning, MainUp
  PROVE  OneTurn' /\ ~Asked /\ Asked' /\ NoneBusy'
<1>0. MainGoes("up", {"down"}, 1, {}) /\ UNCHANGED <<out, parentvars>> /\ SSU_Sem_up
  BY DEF MainUp
<1>1. /\ MainDoes' \in {"down"} /\ \A v \in Children : Does(v)' = Does(v)
  <2>1. Setting /\ out' \in Seq(Threads) BY <1>0 DEF Turning, Setting, ThreadsOK
  <2>. QED BY <1>0, <2>1, MainOnly
<1>2. MainDoes = "up" /\ ~MainSleeps /\ created' = created BY <1>0 DEF MainGoes
<1>3. Free /\ ~Asked /\ value <= 0 /\ woken = {} /\ NoneBusy BY <1>2, MainFree
<1>4. Asked' BY <1>0, <1>1, <1>2, <1>3 DEF Asked, Free, parentvars, MainSleeps
<1>5. value \in Int /\ value' = value + 1 BY <1>0 DEF SSU_Sem_up, Turning, SemInv, SemTypeOK
<1>6. waiters' \cup woken' = waiters \cup woken
  BY <1>0 DEF SSU_Sem_up, cond!Signal, cond!cvars
<1>7. NoneBusy'
  <2>1. ASSUME NEW v \in Children PROVE ~Busy(v)'
    <3>1. Busy(v)' <=> Busy(v) BY <1>1, <1>2, <1>6, BusySame
    <3>. QED BY <1>3, <3>1 DEF NoneBusy
  <2>. QED BY <2>1 DEF NoneBusy
<1>8. CASE value < 0
  <2>1. value' <= 0 BY SMTT(30), Z3T(60), <1>5, <1>8
  <2>2. waiters # {} BY <1>8, Debts DEF Turning
  <2>3. PICK w \in waiters : woken' = {w}
    BY <1>0, <1>3, <2>1, <2>2 DEF SSU_Sem_up, cond!Signal, cond!cvars
  <2>4. w \in Children BY <2>3 DEF Turning, Setting, SleepersOK
  <2>5. OneTurn' BY <1>4, <1>7, <2>1, <2>3, <2>4 DEF OneTurn
  <2>. QED BY <1>3, <1>4, <1>7, <2>5
<1>9. CASE ~(value < 0)
  <2>1. value' = 1 /\ ~(value' <= 0) BY SMTT(30), Z3T(60), <1>3, <1>5, <1>9
  <2>2. woken' = {} BY <1>0, <1>3, <2>1 DEF SSU_Sem_up
  <2>3. OneTurn' BY <1>4, <1>7, <2>1, <2>2 DEF OneTurn
  <2>. QED BY <1>3, <1>4, <1>7, <2>3
<1>. QED BY <1>8, <1>9

\* After its down main does something else.
LEMMA AfterDown ==
  ASSUME Setting, MainSleeps
  PROVE  MainDoes # "down" /\ pc[main] - 1 \in 1..MainLen(program) /\ MainAt(program, pc[main] - 1) = "down"
<1>0. /\ program \in {"test", "toggle"} /\ pc[main] \in 1..MainLen(program) + 1
      /\ pc[main] > 1 /\ MainAt(program, pc[main] - 1) = "down"
  BY DEF Setting, ThreadsOK, SleepersOK, MainSleeps
<1>1. /\ pc[main] - 1 \in 1..MainLen(program) + 1 /\ pc[main] - 1 <= MainLen(program)
      /\ (pc[main] - 1) + 1 = pc[main] /\ pc[main] - 1 \in 1..MainLen(program)
  <2>1. MainLen(program) \in Nat BY SMTT(30), Z3T(60), Sizes, TestAssumption DEF MainLen
  <2>. QED BY SMTT(30), Z3T(60), <1>0, <2>1
<1>2. MainMoves(program, pc[main] - 1, Programs[program][main][pc[main] - 1])
  BY <1>0, <1>1, MainStep
<1>. QED BY <1>0, <1>1, <1>2 DEF MainMoves, MainDoes

\* Main's down takes the answer, or waits for it.
LEMMA TurnMainDown ==
  ASSUME Turning, MainDown
  PROVE  /\ OneTurn' /\ (Asked' <=> Asked) /\ (HasPrinted' <=> HasPrinted)
         /\ \A v \in Children : (Busy(v)' <=> Busy(v)) /\ Does(v)' = Does(v)
<1>0. /\ MainGoes("down", {"create", "up", "print", "join"}, 0, {}) /\ UNCHANGED <<out, svars>>
      /\ parentValue' = parentValue - 1
  BY DEF MainDown
<1>1. /\ MainDoes' \in {"create", "up", "print", "join"} /\ \A v \in Children : Does(v)' = Does(v)
  <2>1. Setting /\ out' \in Seq(Threads) BY <1>0 DEF Turning, Setting, ThreadsOK
  <2>. QED BY <1>0, <2>1, MainOnly
<1>2. MainDoes = "down" /\ ~MainSleeps /\ created' = created BY <1>0 DEF MainGoes
<1>3. \A v \in Children : (Busy(v)' <=> Busy(v)) /\ Does(v)' = Does(v)
  BY <1>0, <1>1, <1>2, BusySame DEF svars
<1>4. HasPrinted' <=> HasPrinted BY <1>3 DEF HasPrinted
<1>5. NoneBusy' <=> NoneBusy BY <1>3 DEF NoneBusy
<1>6. parentWaiters = {} /\ parentWoken = {} BY <1>2 DEF MainSleeps
<1>7. CASE Asked
  <2>1. parentValue = 0 BY <1>2, <1>6, <1>7 DEF Asked
  <2>2. parentValue' = -1 /\ parentValue - 1 < 0 BY SMTT(30), Z3T(60), <1>0, <2>1
  <2>3. parentWaiters' = {main} BY <2>2 DEF MainDown
  <2>4. Asked' BY <2>2, <2>3 DEF Asked
  <2>5. ~Free /\ ~Answered BY <1>7, MainStates DEF Turning
  <2>6. OneTurn' BY <1>0, <1>3, <1>5, <2>4, <2>5 DEF Turning, OneTurn, svars
  <2>. QED BY <1>3, <1>4, <1>7, <2>4, <2>6
<1>8. CASE ~Asked
  <2>1. (Free \/ Answered) /\ value <= 0 /\ woken = {} /\ NoneBusy BY <1>8 DEF Turning, OneTurn
  <2>2. parentValue = 1 BY <1>2, <1>6, <2>1 DEF Free, Answered
  <2>3. parentValue' = 0 /\ ~(parentValue - 1 < 0) BY SMTT(30), Z3T(60), <1>0, <2>2
  <2>4. parentWaiters' = {} /\ parentWoken' = {} BY <1>6, <2>3 DEF MainDown
  <2>5. MainDoes' # "down" BY <1>1
  <2>6. Free' /\ ~Asked' BY <2>3, <2>4, <2>5 DEF Free, Asked, MainSleeps
  <2>7. OneTurn' BY <1>0, <1>5, <2>1, <2>6 DEF OneTurn, svars
  <2>. QED BY <1>3, <1>4, <1>8, <2>6, <2>7
<1>. QED BY <1>7, <1>8

\* Main returns from its wait for an answer.
LEMMA TurnMainReturn ==
  ASSUME Turning, MainReturn
  PROVE  /\ OneTurn' /\ ~Asked /\ ~Asked' /\ NoneBusy /\ NoneBusy'
<1>0. /\ parentWoken = {main} /\ parentWoken' = {} /\ Still
      /\ UNCHANGED <<spuriousCnt, parentValue, parentWaiters, svars>>
  BY DEF MainReturn
<1>1. parentWaiters = {} BY <1>0 DEF Turning, Setting, SleepersOK
<1>2. MainSleeps BY <1>0 DEF MainSleeps
<1>3. ~Free /\ ~Asked BY <1>1, <1>2 DEF Free, Asked
<1>4. Answered /\ value <= 0 /\ woken = {} /\ NoneBusy BY <1>3 DEF Turning, OneTurn
<1>5. parentValue = 0 BY <1>2, <1>4 DEF Answered
<1>6. MainDoes' = MainDoes /\ \A v \in Children : Does(v)' = Does(v) BY <1>0, StillOn DEF Turning
<1>7. MainDoes' # "down" BY <1>2, <1>6, AfterDown DEF Turning
<1>8. Free' /\ ~Asked' BY <1>0, <1>1, <1>5, <1>7 DEF Free, Asked, MainSleeps
<1>9. NoneBusy'
  <2>1. ASSUME NEW v \in Children PROVE ~Busy(v)'
    <3>1. Busy(v)' <=> Busy(v) BY <1>0, <1>6, BusySame DEF svars, Still
    <3>. QED BY <1>4, <3>1 DEF NoneBusy
  <2>. QED BY <2>1 DEF NoneBusy
<1>10. OneTurn' BY <1>0, <1>4, <1>8, <1>9 DEF OneTurn, svars
<1>. QED BY <1>3, <1>4, <1>8, <1>9, <1>10

\* When main has asked for a line, an even number of lines is due.
LEMMA LinesAsked ==
  ASSUME Setting, Asked, program = "test"
  PROVE  Lines(program, pc[main]) % 2 = 0 /\ Lines(program, pc[main]) \in Int
<1>0. program \in {"test", "toggle"} /\ pc[main] \in 1..MainLen(program) + 1 BY DEF Setting, ThreadsOK
<1>1. CASE MainSleeps
  <2>1. pc[main] - 1 \in 1..MainLen(program) /\ MainAt(program, pc[main] - 1) = "down" BY <1>1, AfterDown
  <2>2. (pc[main] - 1) + 1 = pc[main] BY SMTT(30), Z3T(60), <1>0
  <2>3. /\ Lines(program, (pc[main] - 1) + 1) = Lines(program, pc[main] - 1)
        /\ Lines(program, pc[main] - 1) \in Int /\ Lines(program, pc[main] - 1) % 2 = 0
    BY <1>0, <2>1, LineStep
  <2>. QED BY <2>2, <2>3
<1>2. CASE ~MainSleeps
  <2>1. MainDoes = "down" BY <1>2 DEF Asked, MainSleeps
  <2>2. pc[main] \in 1..MainLen(program)
    <3>1. pc[main] # MainLen(program) + 1 BY <2>1 DEF MainDoes, MainAt
    <3>2. MainLen(program) \in Nat BY SMTT(30), Z3T(60) DEF MainLen
    <3>. QED BY SMTT(30), Z3T(60), <1>0, <3>1, <3>2
  <2>. QED BY <1>0, <2>1, <2>2, LineStep DEF MainDoes
<1>. QED BY <1>1, <1>2

\* Nothing is printed and main stays where it is.
LEMMA OutQuiet ==
  ASSUME OutOK, program' = program, pc'[main] = pc[main], out' = out,
         Asked' /\ ~HasPrinted' <=> Asked /\ ~HasPrinted,
         Creating => value' <= 0 /\ woken' = {} /\ \A v \in Children : Busy(v)' => Does(v)' = "up"
  PROVE  OutOK'
<1>1. Creating' <=> Creating BY DEF Creating
<1>2. (IF Asked' /\ ~HasPrinted' THEN 1 ELSE 0) = (IF Asked /\ ~HasPrinted THEN 1 ELSE 0) OBVIOUS
<1>3. Lines(program', pc'[main]) = Lines(program, pc[main]) OBVIOUS
<1>4. (program = "test" => \A k \in 1..Len(out) : out[k] = main <=> k % 2 = 1)' BY DEF OutOK
<1>5. (Creating => out = <<>> /\ value <= 0 /\ woken = {} /\ \A w \in Children : Busy(w) => Does(w) = "up")'
  BY <1>1 DEF OutOK
<1>6. (~Creating /\ (program = "toggle" => pc[main] <= Loop + 2 * Rounds + 1) =>
       Len(out) = Lines(program, pc[main]) - (IF Asked /\ ~HasPrinted THEN 1 ELSE 0))'
  BY <1>1, <1>2, <1>3 DEF OutOK
<1>. QED BY <1>4, <1>5, <1>6 DEF OutOK

\* The output stays in order.  The steps of the children that print nothing.
LEMMA OutChildDown ==
  ASSUME Turning, OutOK, NEW w \in Children, ChildDown(w)
  PROVE  OutOK'
<1>1. ChildGoes(w, "down", {"print"}, 1) /\ out' = out BY DEF ChildDown
<1>2. program' = program /\ pc'[main] = pc[main]
  BY <1>1, ChildGoesOn DEF ChildGoes, Turning, Setting, ThreadsOK
<1>. QED BY <1>1, <1>2, TurnChildDown, OutQuiet DEF OutOK

\* A child's up.
LEMMA OutChildUp ==
  ASSUME Turning, OutOK, NEW w \in Children, ChildUp(w)
  PROVE  OutOK'
<1>1. ChildGoes(w, "up", {"down", "end"}, 0) /\ out' = out /\ UNCHANGED svars BY DEF ChildUp
<1>2. program' = program /\ pc'[main] = pc[main]
  BY <1>1, ChildGoesOn DEF ChildGoes, Turning, Setting, ThreadsOK
<1>. QED BY <1>1, <1>2, TurnChildUp, OutQuiet DEF OutOK, svars, NoneBusy

\* A child's return from pthread_cond_wait.
LEMMA OutChildReturn ==
  ASSUME Turning, OutOK, NEW w \in Children, ChildReturn(w)
  PROVE  OutOK'
<1>1. program' = program /\ pc'[main] = pc[main] /\ out' = out BY DEF ChildReturn, Still
<1>. QED BY <1>1, TurnChildReturn, OutQuiet DEF OutOK

\* Main's return from pthread_cond_wait.
LEMMA OutMainReturn ==
  ASSUME Turning, OutOK, MainReturn
  PROVE  OutOK'
<1>1. program' = program /\ pc'[main] = pc[main] /\ out' = out /\ UNCHANGED svars BY DEF MainReturn, Still
<1>. QED BY <1>1, TurnMainReturn, OutQuiet DEF OutOK, svars, NoneBusy

\* A child prints the line that main has asked for.
LEMMA OutChildPrint ==
  ASSUME Turning, OutOK, NEW w \in Children, ChildPrint(w)
  PROVE  OutOK'
<1>0. Setting /\ out \in Seq(Threads) /\ w \in Threads /\ w # main /\ program \in {"test", "toggle"}
      /\ pc[main] \in 1..MainLen(program) + 1
  BY DEF Turning, Setting, ThreadsOK, Children
<1>1. ChildGoes(w, "print", {"up"}, 0) /\ out' = Append(out, w) /\ UNCHANGED svars BY DEF ChildPrint
<1>2. program' = program /\ pc'[main] = pc[main] BY <1>0, <1>1, ChildGoesOn, Prints DEF ChildGoes
<1>3. Asked /\ Asked' /\ Busy(w) /\ Does(w) = "print" /\ ~HasPrinted /\ HasPrinted' BY TurnChildPrint
<1>4. ~Creating /\ ~Creating'
  <2>1. ~Creating BY <1>3 DEF OutOK
  <2>. QED BY <1>2, <2>1 DEF Creating
<1>5. Lines(program, pc[main]) \in Int
  <2>1. program = "toggle" => pc[main] - Loop \in Int BY SMTT(30), Z3T(60), <1>0, Sizes
  <2>2. program = "toggle" => (pc[main] - Loop) \div 2 \in Int BY SMTT(30), Z3T(60), <2>1
  <2>. QED BY <1>0, <1>3, <2>2, LinesAsked DEF Lines
<1>6. Len(out') = Len(out) + 1 /\ Len(out) \in Nat BY <1>0, <1>1, AppendLine
<1>7. (program = "test" => \A k \in 1..Len(out) : out[k] = main <=> k % 2 = 1)'
  <2>. SUFFICES ASSUME program = "test" PROVE \A k \in 1..Len(out') : out'[k] = main <=> k % 2 = 1
    BY <1>2
  <2>1. Lines(program, pc[main]) % 2 = 0 BY <1>0, <1>3, LinesAsked
  <2>2. Len(out) = Lines(program, pc[main]) - 1 BY <1>3, <1>4 DEF OutOK
  <2>3. Len(out) + 1 = Lines(program, pc[main]) BY SMTT(30), Z3T(60), <1>5, <1>6, <2>2
  <2>4. ~((Len(out) + 1) % 2 = 1) BY SMTT(30), Z3T(60), <2>1, <2>3
  <2>5. \A k \in 1..Len(out) : out[k] = main <=> k % 2 = 1 BY DEF OutOK
  <2>. QED BY <1>0, <1>1, <2>4, <2>5, AppendLine
<1>8. (~Creating /\ (program = "toggle" => pc[main] <= Loop + 2 * Rounds + 1) =>
       Len(out) = Lines(program, pc[main]) - (IF Asked /\ ~HasPrinted THEN 1 ELSE 0))'
  <2>1. Len(out) = Lines(program, pc[main]) - 1 => Len(out') = Lines(program, pc[main]) - 0
    BY SMTT(30), Z3T(60), <1>5, <1>6
  <2>. QED BY <1>2, <1>3, <1>4, <2>1 DEF OutOK
<1>. QED BY <1>4, <1>7, <1>8 DEF OutOK

\* Main moves on.
LEMMA MainFrom ==
  ASSUME Setting, NEW a, NEW b, NEW k, NEW new \in SUBSET Children, MainGoes(a, b, k, new),
         out' \in Seq(Threads), a # "end"
  PROVE  /\ program' = program /\ pc'[main] = pc[main] + 1
         /\ program \in {"test", "toggle"} /\ MainAt(program, pc[main]) = a
         /\ pc[main] \in 1..MainLen(program)
<1>1. /\ program \in {"test", "toggle"} /\ pc[main] \in 1..MainLen(program) + 1 /\ program' = program
      /\ MainAt(program, pc[main]) = a
  BY DEF Setting, ThreadsOK, MainGoes, MainDoes
<1>2. pc[main] # MainLen(program) + 1 BY <1>1 DEF MainAt
<1>3. MainLen(program) \in Nat BY SMTT(30), Z3T(60), Sizes, TestAssumption DEF MainLen
<1>4. pc[main] \in 1..MainLen(program) BY SMTT(30), Z3T(60), <1>1, <1>2, <1>3
<1>5. pc'[main] = pc[main] + 1 BY MainGoesOn
<1>. QED BY <1>1, <1>4, <1>5

\* The pthread_create calls: in the toggle program no line is printed before the first
\* round.
LEMMA OutMainCreate ==
  ASSUME Turning, OutOK, NEW u \in Children, MainCreate(u)
  PROVE  OutOK'
<1>. DEFINE b == IF program = "toggle" THEN {"down"} ELSE {"create", "print"}
<1>0. MainGoes("create", b, 0, {u}) /\ out' = out BY DEF MainCreate
<1>. HIDE DEF b
<1>1. /\ program' = program /\ pc'[main] = pc[main] + 1
      /\ program \in {"test", "toggle"} /\ MainAt(program, pc[main]) = "create"
      /\ pc[main] \in 1..MainLen(program)
  <2>1. PICK c : c = b OBVIOUS
  <2>2. MainGoes("create", c, 0, {u}) /\ {u} \in SUBSET Children BY <1>0, <2>1
  <2>3. Setting /\ out' \in Seq(Threads) BY <1>0 DEF Turning, Setting, ThreadsOK
  <2>. QED BY <2>2, <2>3, MainFrom
<1>2. ~Asked /\ (\A v \in Children : Busy(v)' => Does(v)' = "up") /\ (program # "toggle" => ~Asked')
      /\ value' = value /\ woken' = woken
  BY TurnMainCreate
<1>3. CASE program = "toggle"
  <2>1. pc[main] + 1 <= Loop + 1 BY <1>1, <1>3, LineStep
  <2>2. pc[main] <= Loop + 1 BY SMTT(30), Z3T(60), <1>1, <2>1, Sizes
  <2>3. Creating /\ Creating' BY <1>1, <1>3, <2>1, <2>2 DEF Creating
  <2>. QED BY <1>0, <1>1, <1>2, <1>3, <2>3 DEF OutOK
<1>4. CASE program = "test"
  <2>1. ~Creating /\ ~Creating' BY <1>1, <1>4 DEF Creating
  <2>2. Lines(program', pc'[main]) = Lines(program, pc[main]) BY <1>1, <1>4, LineStep
  <2>3. ~Asked' BY <1>2, <1>4
  <2>. QED BY <1>0, <1>1, <1>2, <1>4, <2>1, <2>2, <2>3 DEF OutOK
<1>. QED BY <1>1, <1>3, <1>4

\* The pthread_join calls: all lines have been printed.
LEMMA OutMainJoin ==
  ASSUME Turning, OutOK, MainJoin
  PROVE  OutOK'
<1>0. MainGoes("join", {"join", "end"}, 0, {}) /\ out' = out BY DEF MainJoin
<1>1. /\ program' = program /\ pc'[main] = pc[main] + 1
      /\ program \in {"test", "toggle"} /\ MainAt(program, pc[main]) = "join"
      /\ pc[main] \in 1..MainLen(program)
  <2>1. Setting /\ out' \in Seq(Threads) /\ {} \in SUBSET Children BY <1>0 DEF Turning, Setting, ThreadsOK
  <2>. QED BY <1>0, <2>1, MainFrom
<1>2. ~Asked /\ ~Asked' BY TurnMainLocal
<1>3. CASE program = "toggle"
  <2>1. pc[main] > Loop + 2 * Rounds BY <1>1, <1>3, LineStep
  <2>2. ~(pc[main] + 1 <= Loop + 1) /\ ~(pc[main] + 1 <= Loop + 2 * Rounds + 1)
    BY SMTT(30), Z3T(60), <1>1, <2>1, Sizes
  <2>3. ~Creating' /\ ~(pc'[main] <= Loop + 2 * Rounds + 1) BY <1>1, <2>2 DEF Creating
  <2>. QED BY <1>1, <1>3, <2>3 DEF OutOK
<1>4. CASE program = "test"
  <2>1. ~Creating /\ ~Creating' BY <1>1, <1>4 DEF Creating
  <2>2. Lines(program', pc'[main]) = Lines(program, pc[main]) BY <1>1, <1>4, LineStep
  <2>. QED BY <1>0, <1>1, <1>2, <1>4, <2>1, <2>2 DEF OutOK
<1>. QED BY <1>1, <1>3, <1>4

\* Main's down.
LEMMA OutMainDown ==
  ASSUME Turning, OutOK, MainDown
  PROVE  OutOK'
<1>0. MainGoes("down", {"create", "up", "print", "join"}, 0, {}) /\ out' = out /\ UNCHANGED svars
  BY DEF MainDown
<1>1. /\ program' = program /\ pc'[main] = pc[main] + 1
      /\ program \in {"test", "toggle"} /\ MainAt(program, pc[main]) = "down"
      /\ pc[main] \in 1..MainLen(program)
  <2>1. Setting /\ out' \in Seq(Threads) /\ {} \in SUBSET Children BY <1>0 DEF Turning, Setting, ThreadsOK
  <2>. QED BY <1>0, <2>1, MainFrom
<1>2. /\ (Asked' <=> Asked) /\ (HasPrinted' <=> HasPrinted)
      /\ \A v \in Children : (Busy(v)' <=> Busy(v)) /\ Does(v)' = Does(v)
  BY TurnMainDown
<1>3. CASE program = "toggle" /\ pc[main] <= Loop + 1
  <2>1. pc[main] # Loop + 1 BY <1>1, <1>3, LineStep
  <2>2. pc[main] + 1 <= Loop + 1 BY SMTT(30), Z3T(60), <1>1, <1>3, <2>1, Sizes
  <2>3. Creating /\ Creating' BY <1>1, <1>3, <2>2 DEF Creating
  <2>. QED BY <1>0, <1>1, <1>2, <1>3, <2>3 DEF OutOK, svars
<1>4. CASE ~(program = "toggle" /\ pc[main] <= Loop + 1)
  <2>1. program = "toggle" => pc[main] <= Loop + 2 * Rounds BY <1>1, LineStep
  <2>2. /\ program = "toggle" => pc[main] > Loop /\ ~(pc[main] + 1 <= Loop + 1)
        /\ program = "toggle" => pc[main] <= Loop + 2 * Rounds + 1
    BY SMTT(30), Z3T(60), <1>1, <1>4, <2>1, Sizes
  <2>3. ~Creating /\ ~Creating' BY <1>1, <1>4, <2>2 DEF Creating
  <2>4. Lines(program', pc'[main]) = Lines(program, pc[main]) BY <1>1, <2>2, LineStep
  <2>5. (IF Asked' /\ ~HasPrinted' THEN 1 ELSE 0) = (IF Asked /\ ~HasPrinted THEN 1 ELSE 0) BY <1>2
  <2>. QED BY <1>0, <1>1, <2>2, <2>3, <2>4, <2>5 DEF OutOK
<1>. QED BY <1>3, <1>4

\* Main asks for the next line: until it is printed, one line is missing.
LEMMA OutMainUp ==
  ASSUME Counting, Turning, OutOK, MainUp
  PROVE  OutOK'
<1>0. MainGoes("up", {"down"}, 1, {}) /\ out' = out BY DEF MainUp
<1>1. /\ program' = program /\ pc'[main] = pc[main] + 1
      /\ program \in {"test", "toggle"} /\ MainAt(program, pc[main]) = "up"
      /\ pc[main] \in 1..MainLen(program)
  <2>1. Setting /\ out' \in Seq(Threads) /\ {} \in SUBSET Children BY <1>0 DEF Turning, Setting, ThreadsOK
  <2>. QED BY <1>0, <2>1, MainFrom
<1>2. ~Asked /\ Asked' /\ NoneBusy' BY TurnMainUp
<1>3. ~HasPrinted' BY <1>2 DEF NoneBusy, HasPrinted
<1>4. /\ Lines(program', pc'[main]) = Lines(program, pc[main]) + 1 /\ Lines(program, pc[main]) \in Int
      /\ program = "toggle" => pc[main] >= Loop + 1 /\ pc[main] <= Loop + 2 * Rounds
  BY <1>1, LineStep
<1>5. /\ program = "toggle" => ~(pc[main] + 1 <= Loop + 1) /\ pc[main] <= Loop + 2 * Rounds + 1
      /\ program = "toggle" /\ pc[main] <= Loop + 1 => pc[main] - Loop = 1
  BY SMTT(30), Z3T(60), <1>1, <1>4, Sizes
<1>6. ~Creating' BY <1>1, <1>5 DEF Creating
<1>7. Len(out) = Lines(program, pc[main])
  <2>1. CASE Creating
    <3>1. Lines(program, pc[main]) = 1 \div 2 BY <1>5, <2>1 DEF Creating, Lines
    <3>2. Lines(program, pc[main]) = 0 BY SMTT(30), Z3T(60), <3>1
    <3>3. Len(out) = 0
      <4>1. out = <<>> BY <2>1 DEF OutOK
      <4>. QED BY SMTT(30), Z3T(60), <4>1
    <3>. QED BY <3>2, <3>3
  <2>2. CASE ~Creating
    <3>1. Len(out) = Lines(program, pc[main]) - 0 BY <1>2, <1>5, <2>2 DEF OutOK
    <3>. QED BY SMTT(30), Z3T(60), <1>4, <3>1
  <2>. QED BY <2>1, <2>2
<1>8. Len(out) = Lines(program', pc'[main]) - 1 BY SMTT(30), Z3T(60), <1>4, <1>7
<1>. QED BY <1>0, <1>1, <1>2, <1>3, <1>6, <1>8 DEF OutOK

\* Main's own lines in SSU_Sem_test.c, the odd ones.
LEMMA OutMainPrint ==
  ASSUME Turning, OutOK, MainPrint
  PROVE  OutOK'
<1>0. MainGoes("print", {"up", "join"}, 0, {}) /\ out' = Append(out, main) BY DEF MainPrint
<1>1. /\ program' = program /\ pc'[main] = pc[main] + 1
      /\ program \in {"test", "toggle"} /\ MainAt(program, pc[main]) = "print"
      /\ pc[main] \in 1..MainLen(program) /\ out \in Seq(Threads)
  <2>1. Setting /\ out' \in Seq(Threads) /\ {} \in SUBSET Children /\ out \in Seq(Threads)
    BY <1>0, Prints, TestAssumption DEF Turning, Setting, ThreadsOK
  <2>. QED BY <1>0, <2>1, MainFrom
<1>2. ~Asked /\ ~Asked' BY TurnMainLocal
<1>3. /\ program = "test" /\ Lines(program', pc'[main]) = Lines(program, pc[main]) + 1
      /\ Lines(program, pc[main]) \in Int /\ Lines(program, pc[main]) % 2 = 0
  BY <1>1, LineStep
<1>4. ~Creating /\ ~Creating' BY <1>1, <1>3 DEF Creating
<1>5. Len(out') = Len(out) + 1 /\ Len(out) \in Nat BY <1>0, <1>1, TestAssumption, AppendLine
<1>6. Len(out) = Lines(program, pc[main]) - 0 BY <1>2, <1>3, <1>4 DEF OutOK
<1>7. Len(out') = Lines(program', pc'[main]) - 0 BY SMTT(30), Z3T(60), <1>3, <1>5, <1>6
<1>8. (Len(out) + 1) % 2 = 1
  <2>1. Len(out) % 2 = 0 BY SMTT(30), Z3T(60), <1>3, <1>5, <1>6
  <2>. QED BY SMTT(30), Z3T(60), <1>5, <2>1
<1>9. \A k \in 1..Len(out) : out[k] = main <=> k % 2 = 1 BY <1>3 DEF OutOK
<1>10. \A k \in 1..Len(out') : out'[k] = main <=> k % 2 = 1
  BY <1>0, <1>1, <1>8, <1>9, TestAssumption, AppendLine
<1>. QED BY <1>1, <1>2, <1>3, <1>4, <1>7, <1>10 DEF OutOK

\* Initially nobody but main exists, nobody waits and nothing is printed.
LEMMA TestsInit ==
  ASSUME Counting
  PROVE  TestInit => SemInv /\ Setting /\ CountsOK /\ spuriousCnt = 0 /\ OneTurn /\ OutOK
<1>. SUFFICES ASSUME TestInit
              PROVE  SemInv /\ Setting /\ CountsOK /\ spuriousCnt = 0 /\ OneTurn /\ OutOK
  OBVIOUS
<1>1. /\ program \in {"test", "toggle"} /\ pc = [t \in Threads |-> 1] /\ created = {main}
      /\ spuriousCnt = 0 /\ out = <<>> /\ value = 0 /\ waiters = {} /\ woken = {}
      /\ parentValue = 0 /\ parentWaiters = {} /\ parentWoken = {}
  <2>1. DOMAIN Programs = {"test", "toggle"} BY DEF Programs
  <2>. QED BY <2>1 DEF TestInit, SSU_Sem_init, parent!SSU_Sem_init,
                       cond!Init, parent!cond!Init
<1>2. pc[main] = 1 /\ (\A w \in Children : pc[w] = 1) /\ main \notin Children /\ main \in Threads
  BY <1>1, TestAssumption DEF Children
<1>3. MainDoes = "create" /\ Ups(program, pc[main]) = 0 /\ Exist(program, pc[main]) = {main}
  BY <1>1, <1>2, Begin DEF MainDoes
<1>4. SemInv
  <2>1. Cardinality({}) = 0 BY CountEmpty
  <2>. QED BY SMTT(30), Z3T(60), <1>1, <2>1 DEF SemInv, SemTypeOK, ValueCountsWaiters
<1>5. Setting
  <2>1. pc \in [Threads -> Nat] BY SMTT(30), Z3T(60), <1>1
  <2>2. out \in Seq(Threads) BY SMTT(30), Z3T(60), <1>1
  <2>3. ThreadsOK BY <1>1, <1>2, <2>1, <2>2, Begin DEF ThreadsOK
  <2>4. 0 \in Int BY SMT
  <2>5. SleepersOK BY <1>1, <2>4 DEF SleepersOK
  <2>. QED BY <1>1, <1>3, <2>3, <2>5 DEF Setting
<1>6. Engaged = {} BY <1>1, <1>2 DEF Engaged
<1>7. Taken = {}
  <2>1. \A x \in Children \X (1..NUM_ITER + 1) : Turns(program, pc[x[1]]) = 0 /\ x[2] \in 1..NUM_ITER + 1
    BY <1>1, <1>2, Begin
  <2>2. \A k \in 1..NUM_ITER + 1 : ~(k <= 0) BY SMTT(30), Z3T(60), TestAssumption
  <2>. QED BY <2>1, <2>2 DEF Taken
<1>8. CountsOK
  <2>1. Cardinality(Engaged) = 0 /\ Cardinality(Taken) = 0 BY <1>6, <1>7, CountEmpty
  <2>2. (IF MainDoes = "down" THEN 1 ELSE 0) = 0 BY <1>3
  <2>. QED BY SMTT(30), Z3T(60), <1>1, <1>3, <2>1, <2>2 DEF CountsOK
<1>9. NoneBusy /\ ~MainSleeps /\ Free /\ ~Asked BY <1>1, <1>3, <1>6 DEF NoneBusy, Busy, MainSleeps, Free, Asked
<1>10. value <= 0 BY SMTT(30), Z3T(60), <1>1
<1>11. OneTurn BY <1>1, <1>9, <1>10 DEF OneTurn
<1>12. OutOK
  <2>1. Len(out) = 0 /\ 1..Len(out) = {} BY SMTT(30), Z3T(60), <1>1
  <2>2. CASE program = "toggle"
    <3>1. Creating BY <1>2, <2>2, Begin DEF Creating
    <3>. QED BY <1>1, <1>9, <1>10, <2>2, <3>1 DEF OutOK, NoneBusy
  <2>3. CASE program = "test"
    <3>1. ~Creating BY <2>3 DEF Creating
    <3>2. Len(out) = Lines(program, pc[main]) - 0
      <4>1. Lines(program, pc[main]) = 0 BY <1>2, <2>3, Begin
      <4>. QED BY SMTT(30), Z3T(60), <2>1, <4>1
    <3>. QED BY <1>9, <2>1, <2>3, <3>1, <3>2 DEF OutOK
  <2>. QED BY <1>1, <2>2, <2>3
<1>. QED BY <1>1, <1>4, <1>5, <1>8, <1>11, <1>12

\* Without a spurious wakeup so far, the turns go on and the output is as long as it is due.
LEMMA TurnStep ==
  ASSUME Counting, Turning, OutOK, TestNext, spuriousCnt' = 0
  PROVE  OneTurn' /\ OutOK'
<1>1. Setting /\ spuriousCnt = 0 BY DEF Turning
<1>2. ~MainSpurious /\ \A w \in Children : ~ChildSpurious(w)
  <2>1. spuriousCnt' # spuriousCnt + 1 BY SMTT(30), Z3T(60), <1>1
  <2>. QED BY <2>1 DEF MainSpurious, ChildSpurious
<1>3. ASSUME NEW w \in Children, ChildDown(w) \/ ChildPrint(w) \/ ChildUp(w) \/ ChildReturn(w)
      PROVE  OneTurn' /\ OutOK'
  BY <1>3, TurnChildDown, TurnChildPrint, TurnChildUp, TurnChildReturn,
     OutChildDown, OutChildPrint, OutChildUp, OutChildReturn
<1>4. ASSUME NEW u \in Children, MainCreate(u) PROVE OneTurn' /\ OutOK'
  BY <1>4, TurnMainCreate, OutMainCreate
<1>5. CASE MainPrint \/ MainJoin BY <1>5, TurnMainLocal, OutMainPrint, OutMainJoin
<1>6. CASE MainUp BY <1>6, TurnMainUp, OutMainUp
<1>7. CASE MainDown BY <1>7, TurnMainDown, OutMainDown
<1>8. CASE MainReturn BY <1>8, TurnMainReturn, OutMainReturn
<1>. QED BY <1>1, <1>2, <1>3, <1>4, <1>5, <1>6, <1>7, <1>8, StepKinds

\* The invariant of the three uses of the semaphore.
UseInv == SemInv /\ TestInv

\* The invariant holds initially, in the programs as for other clients ...
LEMMA UseInit ==
  ASSUME Counting
  PROVE  MCInit => UseInv
<1>1. CASE TestInit BY <1>1, TestsInit DEF UseInv, TestInv, Setting
<1>2. CASE SemInit /\ program = "any" BY <1>2, SemInitInv DEF UseInv, TestInv
<1>. QED BY <1>1, <1>2 DEF MCInit

\* ... and every step keeps it.
LEMMA UseStep ==
  ASSUME Counting
  PROVE  UseInv /\ [MCNext]_<<semvars, others>> => UseInv'
<1>. SUFFICES ASSUME UseInv, [MCNext]_<<semvars, others>> PROVE UseInv'
  OBVIOUS
<1>1. CASE program = "any" /\ SemNext /\ UNCHANGED others
  BY <1>1, SemStepInv DEF UseInv, TestInv, others
<1>2. CASE program # "any" /\ TestNext
  <2>1. Setting /\ SemInv /\ CountsOK /\ (spuriousCnt = 0 => OneTurn /\ OutOK)
    BY <1>2 DEF UseInv, TestInv, Setting
  <2>2. Setting' /\ SemInv' /\ CountsOK' BY <1>2, <2>1, SettingStep, ChildSem, CountsStep
  <2>3. ASSUME spuriousCnt' = 0 PROVE OneTurn' /\ OutOK'
    <3>1. spuriousCnt' = spuriousCnt \/ spuriousCnt' = spuriousCnt + 1
      BY <1>2, <2>1, StepKinds
      DEF ChildDown, ChildPrint, ChildUp, ChildReturn, ChildSpurious, ChildGoes, MainCreate, MainPrint,
          MainUp, MainDown, MainJoin, MainReturn, MainSpurious, MainGoes
    <3>2. spuriousCnt \in Nat BY <2>1 DEF SemInv, SemTypeOK
    <3>3. spuriousCnt = 0 BY SMTT(30), Z3T(60), <2>3, <3>1, <3>2
    <3>. QED BY <1>2, <2>1, <2>3, <3>3, TurnStep DEF Turning
  <2>. QED BY <2>2, <2>3 DEF UseInv, TestInv, Setting
<1>3. CASE UNCHANGED <<semvars, others>>
  <2>1. SemInv' BY <1>3, SemStepInv DEF UseInv
  <2>2. UNCHANGED <<value, waiters, woken, spuriousCnt, program, pc, created, out,
                    parentValue, parentWaiters, parentWoken>>
    BY <1>3 DEF semvars, svars, others
  <2>3. /\ MainDoes' = MainDoes /\ Taken' = Taken /\ Engaged' = Engaged /\ \A w \in Children : Does(w)' = Does(w)
    BY <2>2 DEF MainDoes, Does, Taken, Engaged
  <2>4. /\ (\A w \in Children : Busy(w)' <=> Busy(w)) /\ (MainSleeps' <=> MainSleeps)
        /\ (Creating' <=> Creating)
    BY <2>2, <2>3 DEF Busy, MainSleeps, Creating
  <2>5. /\ (Free' <=> Free) /\ (Asked' <=> Asked) /\ (Answered' <=> Answered)
        /\ (NoneBusy' <=> NoneBusy) /\ (HasPrinted' <=> HasPrinted)
    BY <2>2, <2>3, <2>4 DEF Free, Asked, Answered, NoneBusy, HasPrinted
  <2>6. program # "any" => Setting' /\ CountsOK'
    <3>1. program # "any" => ThreadsOK' BY <2>2 DEF UseInv, TestInv, ThreadsOK
    <3>2. program # "any" => SleepersOK' BY <2>2, <2>3 DEF UseInv, TestInv, SleepersOK
    <3>3. program # "any" => CountsOK' BY <2>2, <2>3 DEF UseInv, TestInv, CountsOK
    <3>. QED BY <2>2, <3>1, <3>2, <3>3 DEF UseInv, TestInv, Setting
  <2>7. program # "any" /\ spuriousCnt = 0 => OneTurn' /\ OutOK'
    <3>. SUFFICES ASSUME program # "any", spuriousCnt = 0 PROVE OneTurn' /\ OutOK'
      OBVIOUS
    <3>1. OneTurn /\ OutOK BY DEF UseInv, TestInv
    <3>2. OneTurn' BY <2>2, <2>4, <2>5, <3>1 DEF OneTurn
    <3>3. OutOK' BY <2>2, <2>3, <2>4, <2>5, <3>1, OutQuiet DEF OutOK
    <3>. QED BY <3>2, <3>3
  <2>. QED BY <2>1, <2>2, <2>6, <2>7 DEF UseInv, TestInv, Setting
<1>. QED BY <1>1, <1>2, <1>3 DEF MCNext

\* The order of the lines follows from how many are due.
LEMMA UseOrder == UseInv => LinesInOrder
<1>. SUFFICES ASSUME UseInv PROVE LinesInOrder
  OBVIOUS
<1>1. ASSUME program = "test", spuriousCnt = 0
      PROVE  \A k \in DOMAIN out : out[k] = main <=> k % 2 = 1
  <2>1. out \in Seq(Threads) /\ OutOK BY <1>1 DEF UseInv, TestInv, ThreadsOK
  <2>2. DOMAIN out = 1..Len(out) BY SMTT(30), Z3T(60), <2>1
  <2>. QED BY <1>1, <2>1, <2>2 DEF OutOK
<1>2. ASSUME program = "toggle", spuriousCnt = 0, ~Blocked(main), NEW k \in Int,
             k = pc[main] - 1 - 2 * NUM_THREADS, k \in 0..2 * NUM_ITER * NUM_THREADS, k % 2 = 0
      PROVE  created = Threads /\ Len(out) = k \div 2
  <2>1. /\ pc \in [Threads -> Nat] /\ created = Exist(program, pc[main]) /\ OutOK
        /\ main \in Threads /\ NUM_THREADS \in Nat /\ NUM_ITER \in Nat
    BY <1>2, TestAssumption DEF UseInv, TestInv, ThreadsOK
  <2>2. PICK n \in Nat : n = pc[main] BY <2>1
  <2>3. 2 * NUM_ITER * NUM_THREADS = 2 * Rounds BY SMTT(30), Z3T(60), <2>1 DEF Rounds
  <2>4. /\ k \in Nat /\ n = (k + 1) + 2 * NUM_THREADS /\ n - Loop = k + 1 /\ n <= Loop + 2 * Rounds + 1
        /\ n <= Loop + 1 => k = 0
    <3>1. k \in Nat /\ k <= 2 * Rounds BY SMTT(30), Z3T(60), <1>2, <2>3, Sizes
    <3>2. k = n - 1 - 2 * NUM_THREADS BY <1>2, <2>2
    <3>. QED BY SMTT(30), Z3T(60), <2>1, <3>1, <3>2, Sizes
  <2>5. created = Threads
    <3>1. \A w \in Children : w \in Nat /\ w < NUM_THREADS BY SMTT(30), Z3T(60), TestAssumption DEF Children
    <3>2. \A w \in Children : 2 * w + 1 < n BY SMTT(30), Z3T(60), <2>1, <2>4, <3>1
    <3>. QED BY <1>2, <2>1, <2>2, <3>2 DEF Exist, Children
  <2>6. CASE Creating
    <3>1. k = 0 /\ out = <<>> BY <2>1, <2>2, <2>4, <2>6 DEF OutOK, Creating
    <3>. QED BY SMTT(30), Z3T(60), <2>5, <3>1
  <2>7. CASE ~Creating
    <3>1. n % 2 = 1
      <4>1. (k + 1) % 2 = 1 BY SMTT(30), Z3T(60), <1>2, <2>4
      <4>2. k + 1 \in Nat BY SMTT(30), Z3T(60), <2>4
      <4>. QED BY <2>1, <2>4, <4>1, <4>2, Parity
    <3>2. MainDoes # "down"
      <4>1. n % 2 # 0 BY SMTT(30), Z3T(60), <3>1
      <4>. QED BY <1>2, <2>2, <4>1 DEF MainDoes, MainAt
    <3>3. ~Asked BY <1>2, <3>2 DEF Asked, Blocked
    <3>4. Len(out) = Lines(program, pc[main]) - 0 BY <2>1, <2>2, <2>4, <2>7, <3>3 DEF OutOK
    <3>5. Lines(program, pc[main]) = (k + 1) \div 2 BY <1>2, <2>2, <2>4 DEF Lines
    <3>6. (k + 1) \div 2 = k \div 2 /\ k \div 2 \in Nat BY <1>2, <2>4, Halves
    <3>7. Len(out) = k \div 2 BY SMTT(30), Z3T(60), <3>4, <3>5, <3>6
    <3>. QED BY <2>5, <3>7
  <2>. QED BY <2>6, <2>7
<1>3. program = "toggle" => pc[main] - 1 - 2 * NUM_THREADS \in Int
  <2>1. program = "toggle" => pc[main] \in Nat
    BY TestAssumption DEF UseInv, TestInv, ThreadsOK
  <2>. QED BY SMTT(30), Z3T(60), <2>1, TestAssumption
<1>4. LinesAlternate BY <1>1 DEF LinesAlternate
<1>5. Lockstep BY <1>2, <1>3 DEF Lockstep
<1>. QED BY <1>4, <1>5 DEF LinesInOrder

(***************************************************************************)
(* The theorems about the semaphore and its programs                       *)
(***************************************************************************)
INSTANCE FiniteSetTheorems

\* The library has the facts about finite sets.
LEMMA CountingHolds == Counting
<1>1. Elements
  <2>1. IsFiniteSet({}) /\ Cardinality({}) = 0 BY FS_EmptySet
  <2>2. ASSUME NEW S, IsFiniteSet(S)
        PROVE  /\ Cardinality(S) \in Nat /\ (Cardinality(S) = 0 <=> S = {})
               /\ \A x : /\ IsFiniteSet(S \cup {x})
                        /\ Cardinality(S \cup {x}) = IF x \in S THEN Cardinality(S) ELSE Cardinality(S) + 1
               /\ \A x : /\ IsFiniteSet(S \ {x})
                        /\ Cardinality(S \ {x}) = IF x \in S THEN Cardinality(S) - 1 ELSE Cardinality(S)
    BY <2>2, FS_CardinalityType, FS_EmptySet, FS_AddElement, FS_RemoveElement
  <2>. QED BY <2>1, <2>2 DEF Elements
<1>2. Subsets BY FS_Subset DEF Subsets, Smaller
<1>3. Products BY FS_Product DEF Products
<1>4. Intervals BY FS_Interval DEF Intervals
<1>. QED BY <1>1, <1>2, <1>3, <1>4 DEF Counting

\* In every reachable state the state of SSU_Sem is well typed and its value
\* accounts for the sleeping threads, up to the spurious wakeups.
THEOREM SemInvariant == SemSpec => [](SemTypeOK /\ ValueCountsWaiters)
<1>1. SemInit => SemInv BY CountingHolds, SemInitInv
<1>2. SemInv /\ [SemNext]_semvars => SemInv' BY CountingHolds, SemStepInv
<1>. QED BY <1>1, <1>2, PTL DEF SemSpec, SemInv

\* SSU_Sem.c implements the counting semaphore, for every set of threads, every
\* initial value and any number of spurious wakeups, each of which adds a permit.
THEOREM SemRefinement == SemSpec => ImplementsSemaphore
<1>1. SemInit => Semaphore!Init
  <2>1. Cardinality({}) = 0 BY FS_EmptySet
  <2>. QED
    BY SMTT(30), Z3T(60), <2>1, SemAssumption DEF SemInit, SSU_Sem_init, cond!Init, Semaphore!Init, Permits
<1>2. SemInit => SemInv BY CountingHolds, SemInitInv
<1>3. SemInv /\ [SemNext]_semvars => SemInv' BY CountingHolds, SemStepInv
<1>4. SemInv /\ [SemNext]_semvars => [Semaphore!Next]_Permits BY CountingHolds, SemStepRefines
<1>. QED BY <1>1, <1>2, <1>3, <1>4, PTL DEF SemSpec, ImplementsSemaphore, Semaphore!Spec

\* In both test programs, for any number of threads and rounds, the lines come in the
\* order the programs are written to show as long as no wakeup is spurious: those of
\* main and of the threads alternate in SSU_Sem_test.c, and at the start of round k of
\* SSU_Sem_toggle_test.c every thread exists and k lines are printed.
THEOREM TestsInOrder == MCSpec => []LinesInOrder
<1>1. MCInit => UseInv BY CountingHolds, UseInit
<1>2. UseInv /\ [MCNext]_<<semvars, others>> => UseInv' BY CountingHolds, UseStep
<1>3. UseInv => LinesInOrder BY UseOrder
<1>. QED BY <1>1, <1>2, <1>3, PTL DEF MCSpec

\* Neither test program can stop before all its threads have returned, whatever the
\* schedule and however often pthread_cond_wait returns without a signal: until then some
\* thread has been signalled or is at an operation that does not block.
THEOREM TestsNeverStuck == MCSpec => []NeverStuck
<1>1. MCInit => UseInv BY CountingHolds, UseInit
<1>2. UseInv /\ [MCNext]_<<semvars, others>> => UseInv' BY CountingHolds, UseStep
<1>3. UseInv => NeverStuck BY CountingHolds, NotStuck DEF UseInv, TestInv, Setting, NeverStuck
<1>. QED BY <1>1, <1>2, <1>3, PTL DEF MCSpec

\* In each of the three uses the value of the semaphore counts the threads that wait.
THEOREM UsesCountWaiters == MCSpec => []ValueCountsWaiters
<1>1. MCInit => UseInv BY CountingHolds, UseInit
<1>2. UseInv /\ [MCNext]_<<semvars, others>> => UseInv' BY CountingHolds, UseStep
<1>3. UseInv => ValueCountsWaiters BY DEF UseInv, SemInv
<1>. QED BY <1>1, <1>2, <1>3, PTL DEF MCSpec
=============================================================================
