------------------------------ MODULE XvPipeSpec ------------------------------
(***************************************************************************)
(* What a pipe promises: a bounded first-in first-out channel of bytes     *)
(* that can be filled while its write end is open and emptied while its    *)
(* read end is open.                                                       *)
(***************************************************************************)
EXTENDS Naturals, Sequences

CONSTANTS Bytes, PIPESIZE
VARIABLES chan,   \* bytes written and not yet read
          last,   \* the byte read last
          open    \* the ends that are open, of "r" and "w"

vars == <<chan, last, open>>

Init == chan = <<>> /\ last \in Bytes /\ open = {"r", "w"}
Put(v) == "w" \in open /\ Len(chan) < PIPESIZE /\ chan' = Append(chan, v) /\ UNCHANGED <<last, open>>
Get == "r" \in open /\ chan # <<>> /\ last' = Head(chan) /\ chan' = Tail(chan) /\ UNCHANGED open
Close(e) == e \in open /\ open' = open \ {e} /\ UNCHANGED <<chan, last>>

Next == (\E v \in Bytes : Put(v)) \/ Get \/ (\E e \in {"r", "w"} : Close(e))
Spec == Init /\ [][Next]_vars
=============================================================================
