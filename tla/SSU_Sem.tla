------------------------------- MODULE SSU_Sem -------------------------------
(***************************************************************************)
(* The counting semaphore of hw4/3/SSU_Sem.c: a value that may go negative *)
(* and one condition variable.  The threads that call it are a set; their  *)
(* control state is kept by the module that uses the semaphore.            *)
(***************************************************************************)
EXTENDS Integers, FiniteSets

CONSTANTS Threads,     \* the threads of the process
          InitValue    \* second argument of SSU_Sem_init

ASSUME SemAssumption == IsFiniteSet(Threads) /\ InitValue \in Nat

VARIABLES value,     \* s->value
          waiters,   \* threads in pthread_cond_wait(&s->cond)
          woken      \* threads signalled that do not have s->mutex yet

svars == <<value, waiters, woken>>

cond == INSTANCE CondVar

SSU_Sem_init == value = InitValue /\ cond!Init

\* Mutants: waiting at 0 already; not waiting at all.
SSU_Sem_down_MutLeq(t) ==
  value' = value - 1 /\ IF value' <= 0 THEN cond!Wait(t) ELSE UNCHANGED <<waiters, woken>>
SSU_Sem_down_MutNoWait(t) == value' = value - 1 /\ UNCHANGED <<waiters, woken>>

\* SSU_Sem_down as far as it runs in one go.  The caller has returned from it
\* if it is not a waiter afterwards.
SSU_Sem_down(t) ==
  /\ value' = value - 1
  /\ IF value' < 0 THEN cond!Wait(t) ELSE UNCHANGED <<waiters, woken>>

\* The rest of SSU_Sem_down for a thread that had to wait: nothing is tested
\* again after pthread_cond_wait.
down_return(t) == cond!Return(t) /\ UNCHANGED value

SSU_Sem_up ==
  /\ value' = value + 1
  /\ IF value' <= 0 THEN cond!Signal ELSE UNCHANGED <<waiters, woken>>

down_spurious(t) == cond!Spurious(t) /\ UNCHANGED value
=============================================================================
