------------------------------- MODULE RwLocks -------------------------------
(***************************************************************************)
(* Both locks of hw4/2, for the same threads: each behaviour is one of the *)
(* driver of the reader-preference or of the writer-preference lock.  The  *)
(* one condition variable of the former, which writers wait on, is w_cond. *)
(***************************************************************************)
EXTENDS RwLockW

VARIABLE preference   \* which of the two programs runs

R == INSTANCE RwLockR WITH waiters <- wwaiters, woken <- wwoken

RStep(t) == preference = "readers" /\ R!Step(t) /\ UNCHANGED <<write_wait, rvars, preference>>
RSpurious(t) == preference = "readers" /\ R!spurious(t) /\ UNCHANGED <<write_wait, rvars, preference>>
WStep(t) == preference = "writers" /\ Step(t) /\ UNCHANGED preference
WSpurious(t) == preference = "writers" /\ spurious(t) /\ UNCHANGED preference

RwInit == preference \in {"readers", "writers"} /\ Init
RwNext == \E t \in Threads : RStep(t) \/ RSpurious(t) \/ WStep(t) \/ WSpurious(t)
RwSpec ==
  /\ RwInit /\ [][RwNext]_<<vars, preference>>
  /\ \A t \in Threads : WF_<<vars, preference>>(RStep(t) \/ WStep(t))
=============================================================================
