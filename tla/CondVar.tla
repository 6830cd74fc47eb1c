------------------------------- MODULE CondVar -------------------------------
(***************************************************************************)
(* A pthread condition variable (external: glibc), as the sources under    *)
(* hw4 use it.  Every access to shared data happens under one mutex, so    *)
(* the code between pthread_mutex_lock and the following pthread_cond_wait *)
(* or pthread_mutex_unlock is one atomic step of the calling thread.  A    *)
(* thread in pthread_cond_wait is first in "waiters"; a signal moves it to *)
(* "woken", where it competes for the mutex like any other thread; it goes *)
(* on only when it has the mutex again.                                    *)
(***************************************************************************)
VARIABLES waiters, woken

cvars == <<waiters, woken>>

Init == waiters = {} /\ woken = {}

\* pthread_cond_wait, up to the point where the mutex is released.
Wait(t) == waiters' = waiters \cup {t} /\ UNCHANGED woken

\* pthread_cond_signal: some waiter, in no particular order, or nobody.
Signal == \/ waiters = {} /\ UNCHANGED cvars
          \/ \E t \in waiters : waiters' = waiters \ {t} /\ woken' = woken \cup {t}

\* pthread_cond_broadcast.
Broadcast == waiters' = {} /\ woken' = woken \cup waiters

\* The woken thread owns the mutex again and returns from pthread_cond_wait.
Return(t) == t \in woken /\ woken' = woken \ {t} /\ UNCHANGED waiters

\* The same, in a step that goes on to broadcast, or to wait again.
ReturnBroadcast(t) == t \in woken /\ waiters' = {} /\ woken' = (woken \ {t}) \cup waiters
ReturnWait(t) == t \in woken /\ waiters' = waiters \cup {t} /\ woken' = woken \ {t}

\* POSIX lets a waiter return although nobody signalled.
Spurious(t) == t \in waiters /\ waiters' = waiters \ {t} /\ woken' = woken \cup {t}
=============================================================================
