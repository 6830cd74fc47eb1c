------------------------------ MODULE SemClients ------------------------------
(***************************************************************************)
(* One SSU_Sem used by threads that call down and up in any order, the     *)
(* most general use of hw4/3/SSU_Sem.c.                                    *)
(***************************************************************************)
EXTENDS SSU_Sem

CONSTANTS MaxSpurious,   \* bound of the model: spurious wakeups in one execution
          MaxDebt,       \* bound of the model: no down at the value -MaxDebt
          MaxValue       \* bound of the model: no up at this value

ASSUME ClientAssumption == MaxSpurious \in Nat /\ MaxDebt \in Nat /\ MaxValue \in Int

VARIABLE spuriousCnt   \* spurious wakeups so far

semvars == <<svars, spuriousCnt>>

\* The threads outside the semaphore, which may call it.
Idle == Threads \ (waiters \cup woken)

SemInit == SSU_Sem_init /\ spuriousCnt = 0
Down == value > -MaxDebt /\ (\E t \in Idle : SSU_Sem_down(t)) /\ UNCHANGED spuriousCnt
Up == Idle # {} /\ value < MaxValue /\ SSU_Sem_up /\ UNCHANGED spuriousCnt
Return == (\E t \in Threads : down_return(t)) /\ UNCHANGED spuriousCnt
Wakeup ==
  /\ spuriousCnt < MaxSpurious /\ spuriousCnt' = spuriousCnt + 1
  /\ \E t \in Threads : down_spurious(t)
SemNext == Down \/ Up \/ Return \/ Wakeup
SemSpec == SemInit /\ [][SemNext]_semvars
-----------------------------------------------------------------------------
SemTypeOK == /\ value \in Int /\ spuriousCnt \in Nat
          /\ waiters \subseteq Threads /\ woken \subseteq Threads \ waiters

\* The value accounts for the sleeping threads (the tests at SSU_Sem.c:24 and
\* :37): nobody sleeps while it is non-negative, a negative one counts them, and
\* it is off by no more than the spurious wakeups there have been.  So an up never
\* leaves a waiter behind and signals in vain only after a spurious wakeup.
ValueCountsWaiters ==
  /\ Cardinality(waiters) <= IF value < 0 THEN -value ELSE 0
  /\ Cardinality(waiters) >= -value - spuriousCnt

\* The permits not yet taken by a down that has returned.  A spurious wakeup
\* amounts to an up: the thread leaves SSU_Sem_down without one.
Permits == value + Cardinality(waiters) + Cardinality(woken) + spuriousCnt
Semaphore == INSTANCE SemaphoreSpec WITH permits <- Permits

\* The code implements the counting semaphore: whoever barges in before a woken
\* thread, a down returns only by taking a permit of an up, or of a spurious
\* wakeup, that nobody else takes.
ImplementsSemaphore == Semaphore!Spec
=============================================================================
