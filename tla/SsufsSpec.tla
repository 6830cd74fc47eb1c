------------------------------ MODULE SsufsSpec ------------------------------
(***************************************************************************)
(* What ssufs promises a client that only appends: a file is the sequence  *)
(* of the bytes written to it, and a call that fails changes nothing.      *)
(***************************************************************************)
EXTENDS Integers, Sequences

CONSTANTS Names, Handles, MaxSize,
          Buffers    \* contents of the buffer of a write, bytes 0, 1, ...
VARIABLES files,     \* contents of the files there are, by name
          handles,   \* <<name, offset>> of an open handle, <<>> of any other
          ret        \* -1 if the last call failed, 0 if not

vars == <<files, handles, ret>>

Closed == <<>>
Init == files = <<>> /\ handles = [h \in Handles |-> Closed] /\ ret = 0

Size(h) == Len(files[handles[h][1]])

Create(f) ==
  /\ ret' = 0 /\ f \notin DOMAIN files
  /\ files' = [g \in DOMAIN files \cup {f} |-> IF g = f THEN <<>> ELSE files[g]]
  /\ UNCHANGED handles

\* The handles of a deleted file are of no further use.
Delete(f) ==
  /\ ret' = 0 /\ f \in DOMAIN files
  /\ handles' = [h \in Handles |->
                   IF handles[h] # Closed /\ handles[h][1] = f THEN Closed ELSE handles[h]]
  /\ files' = [g \in DOMAIN files \ {f} |-> files[g]]

Open(f, h) ==
  /\ ret' = 0 /\ handles[h] = Closed /\ f \in DOMAIN files
  /\ handles' = [handles EXCEPT ![h] = <<f, 0>>] /\ UNCHANGED files

Close(h) == ret' = 0 /\ handles' = [handles EXCEPT ![h] = Closed] /\ UNCHANGED files

\* A seek, or a read: it leaves the offset behind the bytes it returned.
Move(h) ==
  /\ ret' = 0 /\ handles[h] # Closed
  /\ \E offset \in 0..Size(h) : handles' = [handles EXCEPT ![h][2] = offset]
  /\ UNCHANGED files

Write(h, n, buf) ==
  /\ ret' = 0 /\ handles[h] # Closed /\ Size(h) + n <= MaxSize
  /\ handles' = [handles EXCEPT ![h][2] = @ + n]
  /\ files' = [files EXCEPT ![handles[h][1]] = @ \o [k \in 1..n |-> buf[k - 1]]]

Fail == ret' = -1 /\ UNCHANGED <<handles, files>>
Format == ret' = 0 /\ files' = <<>> /\ handles' = [h \in Handles |-> Closed]

Next ==
  \/ Fail \/ Format
  \/ \E h \in Handles : Close(h) \/ Move(h)
  \/ \E f \in Names : Create(f) \/ Delete(f) \/ \E h \in Handles : Open(f, h)
  \/ \E h \in Handles, n \in 1..MaxSize, b \in Buffers : Write(h, n, b)

Spec == Init /\ [][Next]_vars
=============================================================================
