----------------------------- MODULE RwLockSpec -----------------------------
(***************************************************************************)
(* What a readers-writer lock promises: any number of readers or a single  *)
(* writer.  hw4/2/rw_lock-w-test.c implements it if there is one writer    *)
(* that locks once.                                                        *)
(***************************************************************************)
CONSTANTS Readers, Writers
VARIABLES reading, writing

vars == <<reading, writing>>
Init == reading = {} /\ writing = {}
Read(r) == writing = {} /\ reading' = reading \cup {r} /\ UNCHANGED writing
StopReading(r) == r \in reading /\ reading' = reading \ {r} /\ UNCHANGED writing
Write(w) == reading = {} /\ writing = {} /\ writing' = {w} /\ UNCHANGED reading
StopWriting(w) == writing = {w} /\ writing' = {} /\ UNCHANGED reading
Next == \/ \E r \in Readers : Read(r) \/ StopReading(r)
        \/ \E w \in Writers : Write(w) \/ StopWriting(w)
Spec == Init /\ [][Next]_vars
=============================================================================
