------------------------------- MODULE MCXvLog -------------------------------
(***************************************************************************)
(* XvLog for TLC.  The processes other than the first, the blocks and      *)
(* their contents are interchangeable, and only safety is checked.         *)
(***************************************************************************)
EXTENDS XvLog, TLC

Symmetry ==
  Permutations(Procs \ {initproc}) \cup Permutations(Blocks) \cup Permutations(Values)
=============================================================================
