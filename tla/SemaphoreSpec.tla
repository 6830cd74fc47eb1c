---------------------------- MODULE SemaphoreSpec ----------------------------
(***************************************************************************)
(* What a counting semaphore promises its callers: a down returns only if  *)
(* it takes a permit, an up adds one.  SSU_Sem is shown to implement it.   *)
(***************************************************************************)
EXTENDS Integers

CONSTANT InitValue
VARIABLE permits

Init == permits = InitValue
Acquire == permits > 0 /\ permits' = permits - 1
Release == permits' = permits + 1
Next == Acquire \/ Release
Spec == Init /\ [][Next]_permits
=============================================================================
