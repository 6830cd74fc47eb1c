------------------------------ MODULE AllocSpec ------------------------------
(***************************************************************************)
(* What a first-fit allocator of one page of NUM units promises: a block   *)
(* it returns was free and is the lowest that fits, it refuses a request   *)
(* it has accepted only if none fits, and it never touches other blocks.   *)
(***************************************************************************)
EXTENDS Integers

CONSTANTS NUM, NULL
VARIABLES blocks,    \* the allocated blocks, as pairs <<first unit, units>>
          request,   \* units asked for by the call that runs, 0 if none does
          ret        \* what the last call returned

vars == <<blocks, request, ret>>

Free(i, n) ==
  /\ i + n <= NUM
  /\ \A b \in blocks : b[1] + b[2] <= i \/ i + n <= b[1]

Init == blocks = {} /\ request = 0 /\ ret = NULL

Reject == request = 0 /\ ret' = NULL /\ UNCHANGED <<blocks, request>>
Accept == request = 0 /\ request' \in Nat \ {0} /\ UNCHANGED <<blocks, ret>>
Return ==
  /\ request # 0 /\ request' = 0
  /\ \/ \E i \in 0..NUM - 1 :
          /\ Free(i, request) /\ \A k \in 0..i - 1 : ~Free(k, request)
          /\ blocks' = blocks \cup {<<i, request>>} /\ ret' = i
     \/ /\ \A i \in 0..NUM - 1 : ~Free(i, request)
        /\ ret' = NULL /\ UNCHANGED blocks

Dealloc(i) == request = 0 /\ blocks' = {b \in blocks : b[1] # i} /\ UNCHANGED <<request, ret>>
Reset == request = 0 /\ blocks' = {} /\ UNCHANGED <<request, ret>>

Next == Reject \/ Accept \/ Return \/ (\E i \in 0..NUM - 1 : Dealloc(i)) \/ Reset
Spec == Init /\ [][Next]_vars
=============================================================================
