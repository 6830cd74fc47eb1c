------------------------------- MODULE RwLockR -------------------------------
(***************************************************************************)
(* The reader-preference lock hw4/2/rw_lock-r-test.c and the threads of    *)
(* hw4/2/reader_test.c that use it.                                        *)
(***************************************************************************)
EXTENDS RwThreads

VARIABLES read_cnt, write_cnt,   \* fields of struct rw_lock
          waiters, woken,        \* threads in pthread_cond_wait(&rw->r_cond)
          reading, writing,      \* threads between lock and unlock
          done                   \* threads that have returned

vars == <<read_cnt, write_cnt, waiters, woken, reading, writing, done>>
r_cond == INSTANCE CondVar

Ready == Threads \ (waiters \cup woken \cup reading \cup writing \cup done)

init_rwlock == read_cnt = 0 /\ write_cnt = 0 /\ r_cond!Init
Init == init_rwlock /\ reading = {} /\ writing = {} /\ done = {}

Leave(t) == done' = IF Repeat THEN done ELSE done \cup {t}

\* Readers never look at write_cnt.
r_lock(t) ==
  /\ t \in Readers \cap Ready
  /\ read_cnt' = read_cnt + 1
  /\ reading' = reading \cup {t}
  /\ UNCHANGED <<write_cnt, waiters, woken, writing, done>>

\* Mutant: no signal when the last reader leaves.
r_unlock_MutNoSignal(t) ==
  /\ t \in reading
  /\ read_cnt' = read_cnt - 1
  /\ reading' = reading \ {t}
  /\ Leave(t)
  /\ UNCHANGED <<write_cnt, writing, waiters, woken>>
r_unlock(t) ==
  /\ t \in reading
  /\ read_cnt' = read_cnt - 1
  /\ IF read_cnt' = 0 THEN r_cond!Signal ELSE UNCHANGED <<waiters, woken>>
  /\ reading' = reading \ {t}
  /\ Leave(t)
  /\ UNCHANGED <<write_cnt, writing>>

EnterWriter(t) ==
  /\ write_cnt' = write_cnt + 1
  /\ writing' = writing \cup {t}
  /\ UNCHANGED <<read_cnt, reading, done>>

w_lock(t) ==
  /\ t \in Writers \cap Ready
  /\ IF read_cnt > 0 \/ write_cnt > 0
       THEN r_cond!Wait(t) /\ UNCHANGED <<read_cnt, write_cnt, reading, writing, done>>
       ELSE EnterWriter(t) /\ UNCHANGED <<waiters, woken>>

\* The rest of w_lock after pthread_cond_wait: the condition is not tested again.
w_lock_return(t) == r_cond!Return(t) /\ EnterWriter(t)

w_unlock(t) ==
  /\ t \in writing
  /\ write_cnt' = write_cnt - 1
  /\ IF write_cnt' = 0 THEN r_cond!Signal ELSE UNCHANGED <<waiters, woken>>
  /\ writing' = writing \ {t}
  /\ Leave(t)
  /\ UNCHANGED <<read_cnt, reading>>

spurious(t) ==
  /\ SpuriousWakeups /\ r_cond!Spurious(t)
  /\ UNCHANGED <<read_cnt, write_cnt, reading, writing, done>>

Step(t) == r_lock(t) \/ r_unlock(t) \/ w_lock(t) \/ w_lock_return(t) \/ w_unlock(t)
Next == \E t \in Threads : Step(t) \/ spurious(t)

\* The kernel runs every thread that can run, and a woken thread gets the mutex.
Spec == Init /\ [][Next]_vars /\ \A t \in Threads : WF_vars(Step(t))
-----------------------------------------------------------------------------
TypeOK ==
  /\ read_cnt \in Nat /\ write_cnt \in Nat
  /\ reading \subseteq Readers
  /\ waiters \subseteq Writers /\ woken \subseteq Writers /\ writing \subseteq Writers
  /\ done \subseteq Threads
  /\ waiters \cap woken = {} /\ waiters \cap writing = {} /\ woken \cap writing = {}
  /\ done \cap (waiters \cup woken \cup reading \cup writing) = {}

\* A writer sleeps in w_lock only while some thread that will still signal is
\* inside or on its way in: a signal at rw_lock-r-test.c:31 and :55 is never
\* lost for good, although only the last thread out sends one.
NoLostWakeup == waiters # {} => reading \cup writing \cup woken # {}
=============================================================================
