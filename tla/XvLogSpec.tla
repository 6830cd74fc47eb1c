------------------------------ MODULE XvLogSpec ------------------------------
(***************************************************************************)
(* What the log of xv6 promises the file system: the blocks that operations*)
(* write become durable all at once, at moments when no operation is in    *)
(* progress, and a crash goes back to the last such moment.                *)
(***************************************************************************)
CONSTANTS Procs, Blocks, Values

VARIABLES cur,      \* cur[b]: the contents of block b that a read returns
          safe,     \* safe[b]: the contents that a crash now would leave
          active    \* the processes inside an operation

vars == <<cur, safe, active>>

Init == cur \in [Blocks -> Values] /\ safe = cur /\ active = {}

Begin(p) == p \notin active /\ active' = active \cup {p} /\ UNCHANGED <<cur, safe>>
Write(p, b, v) == p \in active /\ cur' = [cur EXCEPT ![b] = v] /\ UNCHANGED <<safe, active>>
End(p) == p \in active /\ active' = active \ {p} /\ UNCHANGED <<cur, safe>>
Commit == active = {} /\ safe' = cur /\ UNCHANGED <<cur, active>>
Crash == cur' = safe /\ active' = {} /\ UNCHANGED safe

Next ==
  \/ \E p \in Procs : Begin(p) \/ End(p) \/ \E b \in Blocks, v \in Values : Write(p, b, v)
  \/ Commit \/ Crash
Spec == Init /\ [][Next]_vars
=============================================================================
