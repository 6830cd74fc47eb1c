------------------------------- MODULE RwLockW -------------------------------
(***************************************************************************)
(* The writer-preference lock hw4/2/rw_lock-w-test.c and the threads of    *)
(* hw4/2/writer_test.c that use it.                                        *)
(***************************************************************************)
EXTENDS RwThreads

VARIABLES read_cnt, write_cnt, write_wait,   \* fields of struct rw_lock
          rwaiters, rwoken,                  \* threads in pthread_cond_wait(&rw->r_cond)
          wwaiters, wwoken,                  \* threads in pthread_cond_wait(&rw->w_cond)
          reading, writing,                  \* threads between lock and unlock
          done                               \* threads that have returned

cnts == <<read_cnt, write_cnt, write_wait>>
rvars == <<rwaiters, rwoken>>
wvars == <<wwaiters, wwoken>>
held == <<reading, writing, done>>
vars == <<cnts, rvars, wvars, held>>
r_cond == INSTANCE CondVar WITH waiters <- rwaiters, woken <- rwoken
w_cond == INSTANCE CondVar WITH waiters <- wwaiters, woken <- wwoken

Ready == Threads \ (rwaiters \cup rwoken \cup wwaiters \cup wwoken \cup reading \cup writing \cup done)

init_rwlock == read_cnt = 0 /\ write_cnt = 0 /\ write_wait = 0 /\ r_cond!Init /\ w_cond!Init
Init == init_rwlock /\ reading = {} /\ writing = {} /\ done = {}

\* Mutant: the thread locks again and again.
Leave_MutAgain(t) == UNCHANGED done
Leave(t) == done' = IF Repeat THEN done ELSE done \cup {t}

EnterReader(t) ==
  /\ read_cnt' = read_cnt + 1 /\ reading' = reading \cup {t}
  /\ UNCHANGED <<write_cnt, write_wait, writing, done>>

r_lock(t) ==
  /\ t \in Readers \cap Ready
  /\ IF write_cnt > 0 \/ write_wait > 0
       THEN r_cond!Wait(t) /\ UNCHANGED <<cnts, held>>
       ELSE EnterReader(t) /\ UNCHANGED rvars
  /\ UNCHANGED wvars

\* The rest of r_lock after pthread_cond_wait: the condition is not tested again.
r_lock_return(t) == r_cond!Return(t) /\ EnterReader(t) /\ UNCHANGED wvars

r_unlock(t) ==
  /\ t \in reading
  /\ read_cnt' = read_cnt - 1
  /\ IF write_wait > 0 /\ read_cnt' = 0 THEN w_cond!Signal ELSE UNCHANGED wvars
  /\ IF write_wait = 0 /\ read_cnt' = 0 THEN r_cond!Broadcast ELSE UNCHANGED rvars
  /\ reading' = reading \ {t} /\ Leave(t)
  /\ UNCHANGED <<write_cnt, write_wait, writing>>

EnterWriter(t) ==
  /\ write_cnt' = write_cnt + 1 /\ writing' = writing \cup {t}
  /\ UNCHANGED <<read_cnt, reading, done, rvars>>

w_lock(t) ==
  /\ t \in Writers \cap Ready
  /\ IF read_cnt > 0 \/ write_cnt > 0
       THEN /\ write_wait' = write_wait + 1 /\ w_cond!Wait(t)
            /\ UNCHANGED <<read_cnt, write_cnt, rvars, held>>
       ELSE EnterWriter(t) /\ UNCHANGED <<write_wait, wvars>>

\* The rest of w_lock after pthread_cond_wait: again no second test.
w_lock_return(t) == w_cond!Return(t) /\ write_wait' = write_wait - 1 /\ EnterWriter(t)

w_unlock(t) ==
  /\ t \in writing
  /\ write_cnt' = write_cnt - 1
  /\ IF write_wait > 0 THEN w_cond!Signal ELSE UNCHANGED wvars
  /\ IF write_wait = 0 THEN r_cond!Broadcast ELSE UNCHANGED rvars
  /\ writing' = writing \ {t} /\ Leave(t)
  /\ UNCHANGED <<read_cnt, write_wait, reading>>

spurious(t) ==
  /\ SpuriousWakeups
  /\ \/ r_cond!Spurious(t) /\ UNCHANGED wvars
     \/ w_cond!Spurious(t) /\ UNCHANGED rvars
  /\ UNCHANGED <<cnts, held>>

ReaderStep(t) == r_lock(t) \/ r_lock_return(t) \/ r_unlock(t)
WriterStep(t) == w_lock(t) \/ w_lock_return(t) \/ w_unlock(t)
Step(t) == ReaderStep(t) \/ WriterStep(t)
Next == \E t \in Threads : Step(t) \/ spurious(t)

\* The kernel runs every thread that can run, and a woken thread gets the mutex.
Spec == Init /\ [][Next]_vars /\ \A t \in Threads : WF_vars(Step(t))
-----------------------------------------------------------------------------
TypeOK ==
  /\ read_cnt \in Nat /\ write_cnt \in Nat /\ write_wait \in Nat
  /\ rwaiters \subseteq Readers /\ rwoken \subseteq Readers /\ reading \subseteq Readers
  /\ wwaiters \subseteq Writers /\ wwoken \subseteq Writers /\ writing \subseteq Writers
  /\ rwaiters \cap rwoken = {} /\ wwaiters \cap wwoken = {}
  /\ reading \cap (rwaiters \cup rwoken) = {} /\ writing \cap (wwaiters \cup wwoken) = {}
  /\ done \subseteq Threads /\ done \cap (reading \cup writing) = {}
  /\ done \cap (rwaiters \cup rwoken \cup wwaiters \cup wwoken) = {}

\* A thread sleeps in r_lock or w_lock only while some thread that will still
\* signal is inside or on its way in, although r_unlock signals nobody as long
\* as other readers are inside and w_unlock wakes writers or readers, not both.
NoLostWakeup ==
  rwaiters \cup wwaiters # {} => reading \cup writing \cup rwoken \cup wwoken # {}

\* Every thread of the driver returns, so main joins them all.
Termination == <>(done = Threads)

\* What writer_test.c:194 says of the lock: nobody else holds it while a writer
\* does.
Exclusion == \A w \in writing : writing = {w} /\ reading = {}

\* With one writer that locks once, and no spurious wakeups, the code implements
\* the readers-writer lock (OneWriterRefinement of CondVarProofs).
RwLock == INSTANCE RwLockSpec
ImplementsRwLock == RwLock!Spec
=============================================================================
