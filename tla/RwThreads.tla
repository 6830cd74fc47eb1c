------------------------------ MODULE RwThreads ------------------------------
(***************************************************************************)
(* The threads of hw4/2/reader_test.c and hw4/2/writer_test.c: each locks, *)
(* works and unlocks, once (Repeat = FALSE, as in the drivers) or again    *)
(* and again.                                                              *)
(***************************************************************************)
EXTENDS Integers, FiniteSets

CONSTANTS Readers, Writers,
          Repeat,           \* whether a thread may lock again
          SpuriousWakeups   \* whether pthread_cond_wait may return unsignalled

ASSUME RwAssumption ==
  /\ IsFiniteSet(Readers) /\ IsFiniteSet(Writers) /\ Readers \cap Writers = {}
  /\ Repeat \in BOOLEAN /\ SpuriousWakeups \in BOOLEAN

Threads == Readers \cup Writers
=============================================================================
