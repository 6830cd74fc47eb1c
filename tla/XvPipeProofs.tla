---------------------------- MODULE XvPipeProofs ----------------------------
(***************************************************************************)
(* A pipe of xv6 for any number of processes, any size of the ring and any *)
(* width of its counters: no wakeup is lost, the page is not freed under a *)
(* process, a read returns nothing only at the end of the data, and the    *)
(* ring implements the bounded queue of XvPipeSpec.  That calls end is     *)
(* left to model checking.                                                 *)
(***************************************************************************)
EXTENDS XvPipe, TLAPS

States == {"user", "write", "full", "sleep_write", "wait_write", "read", "empty", "copy",
           "sleep_read", "wait_read", "close_read", "close_write"}

PcOK == pc \in [Procs -> States]

\* A process owns the lock exactly in the parts of a call that need it.
LockOK == \A p \in Procs : lock = p <=> Holds(p)

\* A call keeps its descriptor, and an end of the pipe is open as long as someone
\* has it; the one that gave up the last descriptor of it is alone in closing it.
FdOK ==
  /\ freed <=> open = {}
  /\ \A p \in Procs : (InWrite(p) => p \in fd["w"]) /\ (InRead(p) => p \in fd["r"])
  /\ \A e \in Ends : e \notin open => fd[e] = {}
  /\ \A e \in Ends, p \in Procs : pc[p] = Closing(e) => fd[e] = {} /\ e \in open
  /\ \A e \in Ends : \A p, q \in Procs : pc[p] = Closing(e) /\ pc[q] = Closing(e) => p = q

\* What a process has found out under the lock stays true until it gives it up.
CallOK ==
  \A p \in Procs :
    /\ InWrite(p) \/ InRead(p) => n[p] # 0
    /\ InWrite(p) \/ pc[p] = "copy" \/ i[p] = 0
    /\ pc[p] = "empty" => Empty /\ "w" \in open
    /\ pc[p] = "full" => Full /\ "r" \in open
    /\ pc[p] = "copy" /\ i[p] = 0 => ~Empty \/ "w" \notin open

Inv == TypeOK /\ PcOK /\ LockOK /\ FdOK /\ CallOK /\ NoLostWakeup
-----------------------------------------------------------------------------
\* Zenon proves the steps that do not name another prover.  Those that need arithmetic or
\* Boolean-valued variables name two, the second for when the first runs out of time.
USE ZenonT(60)

\* A remainder is smaller than its divisor.
LEMMA Remainder == \A a \in Nat, m \in Nat \ {0} : a % m \in 0..m - 1
BY SMTT(30), Z3T(60)

\* The two counters and the index into the ring stay in range.
LEMMA Counters ==
  ASSUME TypeOK
  PROVE  /\ (nread + 1) % UINT \in 0..UINT - 1 /\ (nwrite + 1) % UINT \in 0..UINT - 1
         /\ Index(nread) \in 0..PIPESIZE - 1 /\ Index(nwrite) \in 0..PIPESIZE - 1
<1>1. nread \in Nat /\ nwrite \in Nat /\ UINT \in Nat \ {0} /\ PIPESIZE \in Nat \ {0}
  BY SMTT(30), Z3T(60), PipeAssumption DEF TypeOK
<1> QED BY SMTT(30), Z3T(60), <1>1, Remainder DEF Index

\* A new pipe has both ends open and nobody in it.
LEMMA InitInv == Init => Inv
<1> SUFFICES ASSUME Init PROVE Inv OBVIOUS
<1>1. TypeOK
  <2>1. buf \in [0..PIPESIZE - 1 -> Bytes] /\ last \in Bytes
    BY DEF Init
  <2>2. nread \in 0..UINT - 1 /\ nwrite \in 0..UINT - 1
    BY SMTT(30), Z3T(60), PipeAssumption DEF Init
  <2>3. n \in [Procs -> 0..MaxN] /\ i \in [Procs -> 0..MaxN]
    BY SMTT(30), Z3T(60), PipeAssumption DEF Init
  <2> QED BY <2>1, <2>2, <2>3, PipeAssumption DEF Init, TypeOK, Ends
<1>2. PcOK /\ LockOK BY PipeAssumption DEF Init, PcOK, LockOK, States, Holds
<1>3. FdOK /\ CallOK BY DEF Init, FdOK, CallOK, Ends, InWrite, InRead, Closing
<1>4. NoLostWakeup BY DEF Init, NoLostWakeup
<1> QED BY <1>1, <1>2, <1>3, <1>4 DEF Inv

\* Every step of a call, of fork, close and kill keeps it.
LEMMA StepInv == Inv /\ [Next]_vars => Inv'
<1> SUFFICES ASSUME Inv, [Next]_vars PROVE Inv' OBVIOUS
<1>1. ASSUME NEW p \in Procs, pipewrite(p) PROVE Inv'
  <2>1. PcOK'
    BY <1>1, PipeAssumption DEF Inv, TypeOK, PcOK, pipewrite, pipe, call, Acquire, Go, States
  <2>2. TypeOK'
    <3>1. /\ buf' \in [0..PIPESIZE - 1 -> Bytes] /\ last' \in Bytes
          /\ nread' \in 0..UINT - 1 /\ nwrite' \in 0..UINT - 1
      BY <1>1 DEF Inv, TypeOK, pipewrite, pipe
    <3>2. /\ open' \subseteq Ends /\ freed' \in BOOLEAN /\ lock' \in Procs \cup {NoProc}
          /\ fd' \in [Ends -> SUBSET Procs] /\ killed' \subseteq Procs
      BY <1>1 DEF Inv, TypeOK, pipewrite, pipe, Acquire
    <3>3. \A q \in Procs : (pc[q] = "user" \/ InWrite(q) \/ InRead(q) \/ InClose(q))'
      BY <2>1 DEF PcOK, States, InWrite, InRead, InClose
    <3>4. n' \in [Procs -> 0..MaxN] /\ i' \in [Procs -> 0..MaxN]
      <4>1. PICK k \in 1..MaxN : n' = [n EXCEPT ![p] = k] /\ i' = i
        BY <1>1 DEF pipewrite
      <4>2. k \in 0..MaxN BY SMTT(30), Z3T(60), PipeAssumption
      <4> QED BY <4>1, <4>2 DEF Inv, TypeOK
    <3> QED BY <3>1, <3>2, <3>3, <3>4 DEF TypeOK
  <2>3. LockOK'
    BY <1>1, PipeAssumption, <2>1 DEF Inv, TypeOK, PcOK, LockOK, pipewrite, pipe, call, Acquire,
        Go, Holds
  <2>4. FdOK'
    BY <1>1, PipeAssumption, <2>1 DEF Inv, TypeOK, PcOK, FdOK, pipewrite, pipe, call, Acquire, Go,
        InWrite, InRead, Closing, Ends
  <2>5. CallOK'
    BY SMTT(30), Z3T(60), <1>1, PipeAssumption, <2>1 DEF Inv, TypeOK, PcOK, CallOK, pipewrite, pipe, call, Acquire,
        Go, LockOK, FdOK, Holds, InWrite, InRead, Closing, Ends, Empty, Full
  <2>6. NoLostWakeup'
    BY SMTT(30), Z3T(60), <1>1, PipeAssumption, <2>1 DEF Inv, TypeOK, PcOK, NoLostWakeup, pipewrite, pipe, call,
        Acquire, Go, LockOK, FdOK, CallOK, Holds, InRead, InWrite, Closing, Ends, Empty, Full
  <2> QED BY <2>1, <2>2, <2>3, <2>4, <2>5, <2>6 DEF Inv
<1>2. ASSUME NEW p \in Procs, piperead(p) PROVE Inv'
  <2>1. PcOK'
    BY <1>2, PipeAssumption DEF Inv, TypeOK, PcOK, piperead, pipe, call, Acquire, Go, States
  <2>2. TypeOK'
    <3>1. /\ buf' \in [0..PIPESIZE - 1 -> Bytes] /\ last' \in Bytes
          /\ nread' \in 0..UINT - 1 /\ nwrite' \in 0..UINT - 1
      BY <1>2 DEF Inv, TypeOK, piperead, pipe
    <3>2. /\ open' \subseteq Ends /\ freed' \in BOOLEAN /\ lock' \in Procs \cup {NoProc}
          /\ fd' \in [Ends -> SUBSET Procs] /\ killed' \subseteq Procs
      BY <1>2 DEF Inv, TypeOK, piperead, pipe, Acquire
    <3>3. \A q \in Procs : (pc[q] = "user" \/ InWrite(q) \/ InRead(q) \/ InClose(q))'
      BY <2>1 DEF PcOK, States, InWrite, InRead, InClose
    <3>4. n' \in [Procs -> 0..MaxN] /\ i' \in [Procs -> 0..MaxN]
      <4>1. PICK k \in 1..MaxN : n' = [n EXCEPT ![p] = k] /\ i' = i
        BY <1>2 DEF piperead
      <4>2. k \in 0..MaxN BY SMTT(30), Z3T(60), PipeAssumption
      <4> QED BY <4>1, <4>2 DEF Inv, TypeOK
    <3> QED BY <3>1, <3>2, <3>3, <3>4 DEF TypeOK
  <2>3. LockOK'
    BY <1>2, PipeAssumption, <2>1 DEF Inv, TypeOK, PcOK, LockOK, piperead, pipe, call, Acquire,
        Go, Holds
  <2>4. FdOK'
    BY <1>2, PipeAssumption, <2>1 DEF Inv, TypeOK, PcOK, FdOK, piperead, pipe, call, Acquire, Go,
        InWrite, InRead, Closing, Ends
  <2>5. CallOK'
    BY SMTT(30), Z3T(60), <1>2, PipeAssumption, <2>1 DEF Inv, TypeOK, PcOK, CallOK, piperead, pipe, call, Acquire,
        Go, LockOK, FdOK, Holds, InWrite, InRead, Closing, Ends, Empty, Full
  <2>6. NoLostWakeup'
    BY SMTT(30), Z3T(60), <1>2, PipeAssumption, <2>1 DEF Inv, TypeOK, PcOK, NoLostWakeup, piperead, pipe, call,
        Acquire, Go, LockOK, FdOK, CallOK, Holds, InRead, InWrite, Closing, Ends, Empty, Full
  <2> QED BY <2>1, <2>2, <2>3, <2>4, <2>5, <2>6 DEF Inv
<1>3. ASSUME NEW p \in Procs, NEW q \in Procs, fork(p, q) PROVE Inv'
  <2>1. PcOK'
    BY <1>3, PipeAssumption DEF Inv, TypeOK, PcOK, fork, pipe, call, States
  <2>2. TypeOK'
    BY <1>3, PipeAssumption, <2>1 DEF Inv, TypeOK, PcOK, fork, pipe, call, InWrite, InRead,
        InClose, States
  <2>3. LockOK'
    BY <1>3, PipeAssumption, <2>1 DEF Inv, TypeOK, PcOK, LockOK, fork, pipe, call, Holds
  <2>4. FdOK'
    BY <1>3, PipeAssumption, <2>1 DEF Inv, TypeOK, PcOK, FdOK, fork, pipe, call, InWrite, InRead,
        Closing, Ends
  <2>5. CallOK'
    BY <1>3, PipeAssumption, <2>1 DEF Inv, TypeOK, PcOK, CallOK, fork, pipe, call, LockOK, FdOK,
        Holds, InWrite, InRead, Closing, Ends, Empty, Full
  <2>6. NoLostWakeup'
    BY <1>3, PipeAssumption, <2>1 DEF Inv, TypeOK, PcOK, NoLostWakeup, fork, pipe, call, LockOK,
        FdOK, CallOK, Holds, InRead, InWrite, Closing, Ends, Empty, Full
  <2> QED BY <2>1, <2>2, <2>3, <2>4, <2>5, <2>6 DEF Inv
<1>4. ASSUME NEW p \in Procs, NEW e \in Ends, fileclose(p, e) PROVE Inv'
  <2>1. PcOK'
    BY <1>4, PipeAssumption DEF Inv, TypeOK, PcOK, fileclose, pipe, call, Go, Closing, States
  <2>2. TypeOK'
    BY <1>4, PipeAssumption, <2>1 DEF Inv, TypeOK, PcOK, fileclose, pipe, call, Go, Closing,
        InWrite, InRead, InClose, States
  <2>3. LockOK'
    BY SMTT(30), Z3T(60), <1>4, PipeAssumption, <2>1 DEF Inv, TypeOK, PcOK, LockOK, fileclose, pipe, call, Go,
        Closing, Holds
  <2>4. FdOK'
    <3>1. pc[p] = "user" /\ p \in fd[e] /\ UNCHANGED <<open, freed>> /\ fd' = [fd EXCEPT ![e] = fd[e] \ {p}]
      BY <1>4 DEF fileclose, pipe
    <3>2. \A q \in Procs : pc'[q] = pc[q] \/ (q = p /\ pc'[q] = Closing(e) /\ fd[e] = {p})
      BY <1>4 DEF fileclose, Go, Inv, PcOK
    <3>3. /\ freed' <=> open' = {}
          /\ \A q \in Procs : (InWrite(q) => q \in fd["w"])' /\ (InRead(q) => q \in fd["r"])'
      BY <3>1, <3>2 DEF Inv, TypeOK, FdOK, InWrite, InRead, Closing, Ends
    <3>4. \A f \in Ends : f \notin open' => fd'[f] = {}
      BY <3>1 DEF Inv, TypeOK, FdOK
    <3>5. ASSUME NEW f \in Ends, NEW q \in Procs, pc'[q] = Closing(f) PROVE fd'[f] = {} /\ f \in open'
      <4>1. CASE pc'[q] = pc[q]
        BY <3>1, <3>5, <4>1 DEF Inv, TypeOK, FdOK
      <4>2. CASE pc'[q] # pc[q]
        BY <3>1, <3>2, <3>5, <4>2 DEF Inv, TypeOK, FdOK, Closing, Ends
      <4> QED BY <4>1, <4>2
    <3>6. ASSUME NEW f \in Ends, NEW q \in Procs, NEW r \in Procs, pc'[q] = Closing(f), pc'[r] = Closing(f) PROVE q = r
      BY SMTT(30), Z3T(60), <3>1, <3>2, <3>6 DEF Inv, TypeOK, FdOK, Closing, Ends
    <3> QED BY <3>3, <3>4, <3>5, <3>6 DEF FdOK
  <2>5. CallOK'
    BY SMTT(30), Z3T(60), <1>4, PipeAssumption, <2>1 DEF Inv, TypeOK, PcOK, CallOK, fileclose, pipe, call, Go,
        Closing, LockOK, FdOK, Holds, InWrite, InRead, Ends, Empty, Full
  <2>6. NoLostWakeup'
    BY SMTT(30), Z3T(60), <1>4, PipeAssumption, <2>1 DEF Inv, TypeOK, PcOK, NoLostWakeup, fileclose, pipe, call, Go,
        Closing, LockOK, FdOK, CallOK, Holds, InRead, InWrite, Ends, Empty, Full
  <2> QED BY <2>1, <2>2, <2>3, <2>4, <2>5, <2>6 DEF Inv
<1>5. ASSUME NEW p \in Procs, NEW v \in Bytes, write_byte(p, v) PROVE Inv'
  <2>1. PcOK'
    BY <1>5, PipeAssumption DEF Inv, TypeOK, PcOK, write_byte, pipe, call, States
  <2>2. TypeOK'
    <3>1. /\ buf' \in [0..PIPESIZE - 1 -> Bytes] /\ last' \in Bytes
          /\ nread' \in 0..UINT - 1 /\ nwrite' \in 0..UINT - 1
      BY <1>5, Counters DEF Inv, TypeOK, write_byte, pipe
    <3>2. /\ open' \subseteq Ends /\ freed' \in BOOLEAN /\ lock' \in Procs \cup {NoProc}
          /\ fd' \in [Ends -> SUBSET Procs] /\ killed' \subseteq Procs
      BY <1>5 DEF Inv, TypeOK, write_byte, pipe
    <3>3. \A q \in Procs : (pc[q] = "user" \/ InWrite(q) \/ InRead(q) \/ InClose(q))'
      BY <2>1 DEF PcOK, States, InWrite, InRead, InClose
    <3>4. n' \in [Procs -> 0..MaxN] /\ i' \in [Procs -> 0..MaxN]
      BY SMTT(30), Z3T(60), <1>5, PipeAssumption DEF Inv, TypeOK, write_byte, call
    <3> QED BY <3>1, <3>2, <3>3, <3>4 DEF TypeOK
  <2>3. LockOK'
    BY <1>5, PipeAssumption, <2>1 DEF Inv, TypeOK, PcOK, LockOK, write_byte, pipe, call, Holds
  <2>4. FdOK'
    BY <1>5, PipeAssumption, <2>1 DEF Inv, TypeOK, PcOK, FdOK, write_byte, pipe, call, InWrite,
        InRead, Closing, Ends
  <2>5. CallOK'
    BY SMTT(30), Z3T(60), <1>5, PipeAssumption, <2>1 DEF Inv, TypeOK, PcOK, CallOK, write_byte, pipe, call, LockOK,
        FdOK, Holds, InWrite, InRead, Closing, Ends, Empty, Full
  <2>6. NoLostWakeup'
    BY <1>5, PipeAssumption, <2>1 DEF Inv, TypeOK, PcOK, NoLostWakeup, write_byte, pipe, call,
        LockOK, FdOK, CallOK, Holds, InRead, InWrite, Closing, Ends, Empty, Full
  <2> QED BY <2>1, <2>2, <2>3, <2>4, <2>5, <2>6 DEF Inv
<1>6. ASSUME NEW p \in Procs, write_full(p) PROVE Inv'
  <2> DEFINE Back == /\ pc' = [pc EXCEPT ![p] = "user"] /\ lock' = NoProc
                     /\ n' = [n EXCEPT ![p] = 0] /\ i' = [i EXCEPT ![p] = 0]
             Wait == /\ pc' = [q \in Procs |-> IF q = p THEN "full" ELSE IF pc[q] = "sleep_read" THEN "wait_read" ELSE pc[q]]
                     /\ UNCHANGED <<lock, n, i>>
  <2>a. pc[p] = "write" /\ i[p] < n[p] /\ Full /\ UNCHANGED <<pipe, fd, killed, last>>
    BY <1>6 DEF write_full
  <2>b. \/ ("r" \notin open \/ p \in killed) /\ Back
        \/ "r" \in open /\ p \notin killed /\ Wait
    <3>1. CASE "r" \notin open \/ p \in killed
      <4>1. Go(p, "user") /\ Return(p)
        BY <1>6, <3>1 DEF write_full
      <4>2. Back
        BY <4>1 DEF Go, Return, Release
      <4> QED BY <3>1, <4>2
    <3>2. CASE "r" \in open /\ p \notin killed
      <4>1. WakeupAndGo("r", p, "full") /\ UNCHANGED <<lock, n, i>>
        BY <1>6, <3>2 DEF write_full, call
      <4>2. \A q \in Procs : Wakeup("r", q) = IF pc[q] = "sleep_read" THEN "wait_read" ELSE pc[q]
        BY DEF Wakeup, Woken, Sleeping
      <4> QED BY <3>2, <4>1, <4>2 DEF WakeupAndGo
    <3> QED BY <3>1, <3>2
  <2>1. PcOK'
    <3>1. CASE Back
      BY <2>a, <3>1, <2>b DEF Inv, TypeOK, PcOK, pipe, States
    <3>2. CASE Wait
      BY <2>a, <3>2, <2>b DEF Inv, TypeOK, PcOK, pipe, States
    <3> QED BY <2>b, <3>1, <3>2
  <2>2. TypeOK'
    <3>1. /\ buf' \in [0..PIPESIZE - 1 -> Bytes] /\ last' \in Bytes
          /\ nread' \in 0..UINT - 1 /\ nwrite' \in 0..UINT - 1
      BY <2>a, <2>b DEF Inv, TypeOK, pipe
    <3>2. /\ open' \subseteq Ends /\ freed' \in BOOLEAN /\ lock' \in Procs \cup {NoProc}
          /\ fd' \in [Ends -> SUBSET Procs] /\ killed' \subseteq Procs
      BY <2>a, <2>b DEF Inv, TypeOK, pipe
    <3>3. \A q \in Procs : (pc[q] = "user" \/ InWrite(q) \/ InRead(q) \/ InClose(q))'
      BY <2>1 DEF PcOK, States, InWrite, InRead, InClose
    <3>4. n' \in [Procs -> 0..MaxN] /\ i' \in [Procs -> 0..MaxN]
      <4>1. CASE Back BY SMTT(30), Z3T(60), <4>1, PipeAssumption DEF Inv, TypeOK
      <4>2. CASE Wait BY <4>2 DEF Inv, TypeOK
      <4> QED BY <2>b, <4>1, <4>2
    <3> QED BY <3>1, <3>2, <3>3, <3>4 DEF TypeOK
  <2>3. LockOK'
    <3>1. CASE Back
      BY <2>a, <2>1, PipeAssumption, <3>1, <2>b DEF Inv, TypeOK, PcOK, LockOK, pipe, Holds
    <3>2. CASE Wait
      BY <2>a, <2>1, PipeAssumption, <3>2, <2>b DEF Inv, TypeOK, PcOK, LockOK, pipe, Holds
    <3> QED BY <2>b, <3>1, <3>2
  <2>4. FdOK'
    <3>1. CASE Back
      BY SMTT(30), Z3T(60), <2>a, <2>1, PipeAssumption, <3>1, <2>b DEF Inv, TypeOK, PcOK, FdOK, pipe, InWrite, InRead, Closing, Ends
    <3>2. CASE Wait
      BY <2>a, <2>1, PipeAssumption, <3>2, <2>b DEF Inv, TypeOK, PcOK, FdOK, pipe, InWrite, InRead, Closing, Ends
    <3> QED BY <2>b, <3>1, <3>2
  <2>5. CallOK'
    <3>1. CASE Back
      BY SMTT(30), Z3T(60), <2>a, <2>1, PipeAssumption, <3>1, <2>b DEF Inv, TypeOK, PcOK, CallOK, pipe, LockOK, FdOK, Holds, InWrite, InRead, Closing, Ends, Empty, Full
    <3>2. CASE Wait
      BY SMTT(30), Z3T(60), <2>a, <2>1, PipeAssumption, <3>2, <2>b DEF Inv, TypeOK, PcOK, CallOK, pipe, LockOK, FdOK, Holds, InWrite, InRead, Closing, Ends, Empty, Full
    <3> QED BY <2>b, <3>1, <3>2
  <2>6. NoLostWakeup'
    <3>1. CASE Back
      BY SMTT(30), Z3T(60), <2>a, <2>1, PipeAssumption, <3>1, <2>b DEF Inv, TypeOK, PcOK, NoLostWakeup, pipe, LockOK, FdOK, CallOK, Holds, InRead, InWrite, Closing, Ends, Empty, Full
    <3>2. CASE Wait
      BY <2>a, <2>1, PipeAssumption, <3>2, <2>b DEF Inv, TypeOK, PcOK, NoLostWakeup, pipe, LockOK, FdOK, CallOK, Holds, InRead, InWrite, Closing, Ends, Empty, Full
    <3> QED BY <2>b, <3>1, <3>2
  <2> QED BY <2>1, <2>2, <2>3, <2>4, <2>5, <2>6 DEF Inv
<1>7. ASSUME NEW p \in Procs, write_sleep(p) PROVE Inv'
  <2>1. PcOK'
    BY <1>7, PipeAssumption DEF Inv, TypeOK, PcOK, write_sleep, pipe, call, Go, Release, States
  <2>2. TypeOK'
    BY <1>7, PipeAssumption, <2>1 DEF Inv, TypeOK, PcOK, write_sleep, pipe, call, Go, Release,
        InWrite, InRead, InClose, States
  <2>3. LockOK'
    BY <1>7, PipeAssumption, <2>1 DEF Inv, TypeOK, PcOK, LockOK, write_sleep, pipe, call, Go,
        Release, Holds
  <2>4. FdOK'
    BY <1>7, PipeAssumption, <2>1 DEF Inv, TypeOK, PcOK, FdOK, write_sleep, pipe, call, Go,
        Release, InWrite, InRead, Closing, Ends
  <2>5. CallOK'
    BY SMTT(30), Z3T(60), <1>7, PipeAssumption, <2>1 DEF Inv, TypeOK, PcOK, CallOK, write_sleep, pipe, call, Go,
        Release, LockOK, FdOK, Holds, InWrite, InRead, Closing, Ends, Empty, Full
  <2>6. NoLostWakeup'
    <3>1. lock = p /\ pc[p] = "full" /\ Full /\ "r" \in open
      BY <1>7 DEF write_sleep, Inv, LockOK, CallOK, Holds
    <3>2. lock' = NoProc /\ UNCHANGED <<nread, nwrite, open, killed>>
      BY <1>7 DEF write_sleep, pipe, Release
    <3>3. \A q \in Procs : pc'[q] = IF q = p THEN "sleep_write" ELSE pc[q]
      BY <1>7 DEF write_sleep, Go, Inv, PcOK
    <3> QED BY <3>1, <3>2, <3>3 DEF Inv, NoLostWakeup, Empty, Full
  <2> QED BY <2>1, <2>2, <2>3, <2>4, <2>5, <2>6 DEF Inv
<1>8. ASSUME NEW p \in Procs, write_again(p) PROVE Inv'
  <2>1. PcOK'
    BY <1>8, PipeAssumption DEF Inv, TypeOK, PcOK, write_again, pipe, call, Acquire, Go, States
  <2>2. TypeOK'
    BY <1>8, PipeAssumption, <2>1 DEF Inv, TypeOK, PcOK, write_again, pipe, call, Acquire, Go,
        InWrite, InRead, InClose, States
  <2>3. LockOK'
    BY <1>8, PipeAssumption, <2>1 DEF Inv, TypeOK, PcOK, LockOK, write_again, pipe, call, Acquire,
        Go, Holds
  <2>4. FdOK'
    BY <1>8, PipeAssumption, <2>1 DEF Inv, TypeOK, PcOK, FdOK, write_again, pipe, call, Acquire,
        Go, InWrite, InRead, Closing, Ends
  <2>5. CallOK'
    BY <1>8, PipeAssumption, <2>1 DEF Inv, TypeOK, PcOK, CallOK, write_again, pipe, call, Acquire,
        Go, LockOK, FdOK, Holds, InWrite, InRead, Closing, Ends, Empty, Full
  <2>6. NoLostWakeup'
    BY <1>8, PipeAssumption, <2>1 DEF Inv, TypeOK, PcOK, NoLostWakeup, write_again, pipe, call,
        Acquire, Go, LockOK, FdOK, CallOK, Holds, InRead, InWrite, Closing, Ends, Empty, Full
  <2> QED BY <2>1, <2>2, <2>3, <2>4, <2>5, <2>6 DEF Inv
<1>9. ASSUME NEW p \in Procs, write_return(p) PROVE Inv'
  <2>1. PcOK'
    BY <1>9, PipeAssumption DEF Inv, TypeOK, PcOK, write_return, pipe, call, Return, Release,
        WakeupAndGo, Wakeup, Woken, Sleeping, States
  <2>2. TypeOK'
    BY SMTT(30), Z3T(60), <1>9, PipeAssumption, <2>1 DEF Inv, TypeOK, PcOK, write_return, pipe, call, Return,
        Release, WakeupAndGo, Wakeup, Woken, Sleeping, InWrite, InRead, InClose, States
  <2>3. LockOK'
    BY <1>9, PipeAssumption, <2>1 DEF Inv, TypeOK, PcOK, LockOK, write_return, pipe, call, Return,
        Release, WakeupAndGo, Wakeup, Woken, Sleeping, Holds
  <2>4. FdOK'
    BY <1>9, PipeAssumption, <2>1 DEF Inv, TypeOK, PcOK, FdOK, write_return, pipe, call, Return,
        Release, WakeupAndGo, Wakeup, Woken, Sleeping, InWrite, InRead, Closing, Ends
  <2>5. CallOK'
    BY SMTT(30), Z3T(60), <1>9, PipeAssumption, <2>1 DEF Inv, TypeOK, PcOK, CallOK, write_return, pipe, call, Return,
        Release, WakeupAndGo, Wakeup, Woken, Sleeping, LockOK, FdOK, Holds, InWrite, InRead,
        Closing, Ends, Empty, Full
  <2>6. NoLostWakeup'
    BY <1>9, PipeAssumption, <2>1 DEF Inv, TypeOK, PcOK, NoLostWakeup, write_return, pipe, call,
        Return, Release, WakeupAndGo, Wakeup, Woken, Sleeping, LockOK, FdOK, CallOK, Holds,
        InRead, InWrite, Closing, Ends, Empty, Full
  <2> QED BY <2>1, <2>2, <2>3, <2>4, <2>5, <2>6 DEF Inv
<1>10. ASSUME NEW p \in Procs, read_empty(p) PROVE Inv'
  <2> DEFINE Back == /\ pc' = [pc EXCEPT ![p] = "user"] /\ lock' = NoProc
                     /\ n' = [n EXCEPT ![p] = 0] /\ i' = [i EXCEPT ![p] = 0]
             Wait == pc' = [pc EXCEPT ![p] = "empty"] /\ UNCHANGED <<lock, n, i>>
  <2>a. pc[p] = "read" /\ Empty /\ "w" \in open /\ UNCHANGED <<pipe, fd, killed, last>>
    BY <1>10 DEF read_empty
  <2>b. (p \in killed /\ Back) \/ (p \notin killed /\ Wait)
    <3>1. CASE p \in killed
      <4>1. Go(p, "user") /\ Return(p)
        BY <1>10, <3>1 DEF read_empty
      <4>2. Back
        BY <4>1 DEF Go, Return, Release
      <4> QED BY <3>1, <4>2
    <3>2. CASE p \notin killed
      BY <1>10, <3>2 DEF read_empty, Go, call
    <3> QED BY <3>1, <3>2
  <2>1. PcOK'
    <3>1. CASE Back
      BY <2>a, <3>1, <2>b DEF Inv, TypeOK, PcOK, pipe, States
    <3>2. CASE Wait
      BY <2>a, <3>2, <2>b DEF Inv, TypeOK, PcOK, pipe, States
    <3> QED BY <2>b, <3>1, <3>2
  <2>2. TypeOK'
    <3>1. /\ buf' \in [0..PIPESIZE - 1 -> Bytes] /\ last' \in Bytes
          /\ nread' \in 0..UINT - 1 /\ nwrite' \in 0..UINT - 1
      BY <2>a, <2>b DEF Inv, TypeOK, pipe
    <3>2. /\ open' \subseteq Ends /\ freed' \in BOOLEAN /\ lock' \in Procs \cup {NoProc}
          /\ fd' \in [Ends -> SUBSET Procs] /\ killed' \subseteq Procs
      BY <2>a, <2>b DEF Inv, TypeOK, pipe
    <3>3. \A q \in Procs : (pc[q] = "user" \/ InWrite(q) \/ InRead(q) \/ InClose(q))'
      BY <2>1 DEF PcOK, States, InWrite, InRead, InClose
    <3>4. n' \in [Procs -> 0..MaxN] /\ i' \in [Procs -> 0..MaxN]
      <4>1. CASE Back BY SMTT(30), Z3T(60), <4>1, PipeAssumption DEF Inv, TypeOK
      <4>2. CASE Wait BY <4>2 DEF Inv, TypeOK
      <4> QED BY <2>b, <4>1, <4>2
    <3> QED BY <3>1, <3>2, <3>3, <3>4 DEF TypeOK
  <2>3. LockOK'
    <3>1. CASE Back
      BY <2>a, <2>1, PipeAssumption, <3>1, <2>b DEF Inv, TypeOK, PcOK, LockOK, pipe, Holds
    <3>2. CASE Wait
      BY <2>a, <2>1, PipeAssumption, <3>2, <2>b DEF Inv, TypeOK, PcOK, LockOK, pipe, Holds
    <3> QED BY <2>b, <3>1, <3>2
  <2>4. FdOK'
    <3>1. CASE Back
      BY SMTT(30), Z3T(60), <2>a, <2>1, PipeAssumption, <3>1, <2>b DEF Inv, TypeOK, PcOK, FdOK, pipe, InWrite, InRead, Closing, Ends
    <3>2. CASE Wait
      BY SMTT(30), Z3T(60), <2>a, <2>1, PipeAssumption, <3>2, <2>b DEF Inv, TypeOK, PcOK, FdOK, pipe, InWrite, InRead, Closing, Ends
    <3> QED BY <2>b, <3>1, <3>2
  <2>5. CallOK'
    <3>1. CASE Back
      BY SMTT(30), Z3T(60), <2>a, <2>1, PipeAssumption, <3>1, <2>b DEF Inv, TypeOK, PcOK, CallOK, pipe, LockOK, FdOK, Holds, InWrite, InRead, Closing, Ends, Empty, Full
    <3>2. CASE Wait
      BY <2>a, <2>1, PipeAssumption, <3>2, <2>b DEF Inv, TypeOK, PcOK, CallOK, pipe, LockOK, FdOK, Holds, InWrite, InRead, Closing, Ends, Empty, Full
    <3> QED BY <2>b, <3>1, <3>2
  <2>6. NoLostWakeup'
    <3>1. CASE Back
      BY SMTT(30), Z3T(60), <2>a, <2>1, PipeAssumption, <3>1, <2>b DEF Inv, TypeOK, PcOK, NoLostWakeup, pipe, LockOK, FdOK, CallOK, Holds, InRead, InWrite, Closing, Ends, Empty, Full
    <3>2. CASE Wait
      BY SMTT(30), Z3T(60), <2>a, <2>1, PipeAssumption, <3>2, <2>b DEF Inv, TypeOK, PcOK, NoLostWakeup, pipe, LockOK, FdOK, CallOK, Holds, InRead, InWrite, Closing, Ends, Empty, Full
    <3> QED BY <2>b, <3>1, <3>2
  <2> QED BY <2>1, <2>2, <2>3, <2>4, <2>5, <2>6 DEF Inv
<1>11. ASSUME NEW p \in Procs, read_sleep(p) PROVE Inv'
  <2>1. PcOK'
    BY <1>11, PipeAssumption DEF Inv, TypeOK, PcOK, read_sleep, pipe, call, Go, Release, States
  <2>2. TypeOK'
    BY <1>11, PipeAssumption, <2>1 DEF Inv, TypeOK, PcOK, read_sleep, pipe, call, Go, Release,
        InWrite, InRead, InClose, States
  <2>3. LockOK'
    BY <1>11, PipeAssumption, <2>1 DEF Inv, TypeOK, PcOK, LockOK, read_sleep, pipe, call, Go,
        Release, Holds
  <2>4. FdOK'
    BY <1>11, PipeAssumption, <2>1 DEF Inv, TypeOK, PcOK, FdOK, read_sleep, pipe, call, Go,
        Release, InWrite, InRead, Closing, Ends
  <2>5. CallOK'
    BY SMTT(30), Z3T(60), <1>11, PipeAssumption, <2>1 DEF Inv, TypeOK, PcOK, CallOK, read_sleep, pipe, call, Go,
        Release, LockOK, FdOK, Holds, InWrite, InRead, Closing, Ends, Empty, Full
  <2>6. NoLostWakeup'
    BY SMTT(30), Z3T(60), <1>11, PipeAssumption, <2>1 DEF Inv, TypeOK, PcOK, NoLostWakeup, read_sleep, pipe, call,
        Go, Release, LockOK, FdOK, CallOK, Holds, InRead, InWrite, Closing, Ends, Empty, Full
  <2> QED BY <2>1, <2>2, <2>3, <2>4, <2>5, <2>6 DEF Inv
<1>12. ASSUME NEW p \in Procs, read_again(p) PROVE Inv'
  <2>1. PcOK'
    BY <1>12, PipeAssumption DEF Inv, TypeOK, PcOK, read_again, pipe, call, Acquire, Go, States
  <2>2. TypeOK'
    BY <1>12, PipeAssumption, <2>1 DEF Inv, TypeOK, PcOK, read_again, pipe, call, Acquire, Go,
        InWrite, InRead, InClose, States
  <2>3. LockOK'
    BY <1>12, PipeAssumption, <2>1 DEF Inv, TypeOK, PcOK, LockOK, read_again, pipe, call, Acquire,
        Go, Holds
  <2>4. FdOK'
    BY <1>12, PipeAssumption, <2>1 DEF Inv, TypeOK, PcOK, FdOK, read_again, pipe, call, Acquire,
        Go, InWrite, InRead, Closing, Ends
  <2>5. CallOK'
    BY <1>12, PipeAssumption, <2>1 DEF Inv, TypeOK, PcOK, CallOK, read_again, pipe, call, Acquire,
        Go, LockOK, FdOK, Holds, InWrite, InRead, Closing, Ends, Empty, Full
  <2>6. NoLostWakeup'
    BY <1>12, PipeAssumption, <2>1 DEF Inv, TypeOK, PcOK, NoLostWakeup, read_again, pipe, call,
        Acquire, Go, LockOK, FdOK, CallOK, Holds, InRead, InWrite, Closing, Ends, Empty, Full
  <2> QED BY <2>1, <2>2, <2>3, <2>4, <2>5, <2>6 DEF Inv
<1>13. ASSUME NEW p \in Procs, read_copy(p) PROVE Inv'
  <2>1. PcOK'
    BY <1>13, PipeAssumption DEF Inv, TypeOK, PcOK, read_copy, pipe, call, Go, States
  <2>2. TypeOK'
    BY <1>13, PipeAssumption, <2>1 DEF Inv, TypeOK, PcOK, read_copy, pipe, call, Go, InWrite,
        InRead, InClose, States
  <2>3. LockOK'
    BY <1>13, PipeAssumption, <2>1 DEF Inv, TypeOK, PcOK, LockOK, read_copy, pipe, call, Go, Holds
  <2>4. FdOK'
    BY <1>13, PipeAssumption, <2>1 DEF Inv, TypeOK, PcOK, FdOK, read_copy, pipe, call, Go,
        InWrite, InRead, Closing, Ends
  <2>5. CallOK'
    BY <1>13, PipeAssumption, <2>1 DEF Inv, TypeOK, PcOK, CallOK, read_copy, pipe, call, Go,
        LockOK, FdOK, Holds, InWrite, InRead, Closing, Ends, Empty, Full
  <2>6. NoLostWakeup'
    BY SMTT(30), Z3T(60), <1>13, PipeAssumption, <2>1 DEF Inv, TypeOK, PcOK, NoLostWakeup, read_copy, pipe, call, Go,
        LockOK, FdOK, CallOK, Holds, InRead, InWrite, Closing, Ends, Empty, Full
  <2> QED BY <2>1, <2>2, <2>3, <2>4, <2>5, <2>6 DEF Inv
<1>14. ASSUME NEW p \in Procs, read_byte(p) PROVE Inv'
  <2>1. PcOK'
    BY <1>14, PipeAssumption DEF Inv, TypeOK, PcOK, read_byte, pipe, call, States
  <2>2. TypeOK'
    <3>1. /\ buf' \in [0..PIPESIZE - 1 -> Bytes] /\ last' \in Bytes
          /\ nread' \in 0..UINT - 1 /\ nwrite' \in 0..UINT - 1
      BY <1>14, Counters DEF Inv, TypeOK, read_byte, pipe
    <3>2. /\ open' \subseteq Ends /\ freed' \in BOOLEAN /\ lock' \in Procs \cup {NoProc}
          /\ fd' \in [Ends -> SUBSET Procs] /\ killed' \subseteq Procs
      BY <1>14 DEF Inv, TypeOK, read_byte, pipe
    <3>3. \A q \in Procs : (pc[q] = "user" \/ InWrite(q) \/ InRead(q) \/ InClose(q))'
      BY <2>1 DEF PcOK, States, InWrite, InRead, InClose
    <3>4. n' \in [Procs -> 0..MaxN] /\ i' \in [Procs -> 0..MaxN]
      BY SMTT(30), Z3T(60), <1>14, PipeAssumption DEF Inv, TypeOK, read_byte, call
    <3> QED BY <3>1, <3>2, <3>3, <3>4 DEF TypeOK
  <2>3. LockOK'
    BY <1>14, PipeAssumption, <2>1 DEF Inv, TypeOK, PcOK, LockOK, read_byte, pipe, call, Holds
  <2>4. FdOK'
    BY <1>14, PipeAssumption, <2>1 DEF Inv, TypeOK, PcOK, FdOK, read_byte, pipe, call, InWrite,
        InRead, Closing, Ends
  <2>5. CallOK'
    BY SMTT(30), Z3T(60), <1>14, PipeAssumption, <2>1 DEF Inv, TypeOK, PcOK, CallOK, read_byte, pipe, call, LockOK,
        FdOK, Holds, InWrite, InRead, Closing, Ends, Empty, Full
  <2>6. NoLostWakeup'
    BY <1>14, PipeAssumption, <2>1 DEF Inv, TypeOK, PcOK, NoLostWakeup, read_byte, pipe, call,
        LockOK, FdOK, CallOK, Holds, InRead, InWrite, Closing, Ends, Empty, Full
  <2> QED BY <2>1, <2>2, <2>3, <2>4, <2>5, <2>6 DEF Inv
<1>15. ASSUME NEW p \in Procs, read_return(p) PROVE Inv'
  <2>1. PcOK'
    BY <1>15, PipeAssumption DEF Inv, TypeOK, PcOK, read_return, pipe, call, Return, Release,
        WakeupAndGo, Wakeup, Woken, Sleeping, States
  <2>2. TypeOK'
    BY SMTT(30), Z3T(60), <1>15, PipeAssumption, <2>1 DEF Inv, TypeOK, PcOK, read_return, pipe, call, Return,
        Release, WakeupAndGo, Wakeup, Woken, Sleeping, InWrite, InRead, InClose, States
  <2>3. LockOK'
    BY <1>15, PipeAssumption, <2>1 DEF Inv, TypeOK, PcOK, LockOK, read_return, pipe, call, Return,
        Release, WakeupAndGo, Wakeup, Woken, Sleeping, Holds
  <2>4. FdOK'
    BY <1>15, PipeAssumption, <2>1 DEF Inv, TypeOK, PcOK, FdOK, read_return, pipe, call, Return,
        Release, WakeupAndGo, Wakeup, Woken, Sleeping, InWrite, InRead, Closing, Ends
  <2>5. CallOK'
    BY SMTT(30), Z3T(60), <1>15, PipeAssumption, <2>1 DEF Inv, TypeOK, PcOK, CallOK, read_return, pipe, call, Return,
        Release, WakeupAndGo, Wakeup, Woken, Sleeping, LockOK, FdOK, Holds, InWrite, InRead,
        Closing, Ends, Empty, Full
  <2>6. NoLostWakeup'
    BY <1>15, PipeAssumption, <2>1 DEF Inv, TypeOK, PcOK, NoLostWakeup, read_return, pipe, call,
        Return, Release, WakeupAndGo, Wakeup, Woken, Sleeping, LockOK, FdOK, CallOK, Holds,
        InRead, InWrite, Closing, Ends, Empty, Full
  <2> QED BY <2>1, <2>2, <2>3, <2>4, <2>5, <2>6 DEF Inv
<1>16. ASSUME NEW p \in Procs, NEW e \in Ends, pipeclose(p, e) PROVE Inv'
  <2>1. PcOK'
    BY <1>16, PipeAssumption DEF Inv, TypeOK, PcOK, pipeclose, pipe, call, WakeupAndGo, Wakeup,
        Woken, Sleeping, Closing, States
  <2>2. TypeOK'
    BY <1>16, PipeAssumption, <2>1 DEF Inv, TypeOK, PcOK, pipeclose, pipe, call, WakeupAndGo,
        Wakeup, Woken, Sleeping, Closing, InWrite, InRead, InClose, States
  <2>3. LockOK'
    BY <1>16, PipeAssumption, <2>1 DEF Inv, TypeOK, PcOK, LockOK, pipeclose, pipe, call,
        WakeupAndGo, Wakeup, Woken, Sleeping, Closing, Holds
  <2>4. FdOK'
    BY <1>16, PipeAssumption, <2>1 DEF Inv, TypeOK, PcOK, FdOK, pipeclose, pipe, call,
        WakeupAndGo, Wakeup, Woken, Sleeping, Closing, InWrite, InRead, Ends
  <2>5. CallOK'
    BY <1>16, PipeAssumption, <2>1 DEF Inv, TypeOK, PcOK, CallOK, pipeclose, pipe, call,
        WakeupAndGo, Wakeup, Woken, Sleeping, Closing, LockOK, FdOK, Holds, InWrite, InRead,
        Ends, Empty, Full
  <2>6. NoLostWakeup'
    BY <1>16, PipeAssumption, <2>1 DEF Inv, TypeOK, PcOK, NoLostWakeup, pipeclose, pipe, call,
        WakeupAndGo, Wakeup, Woken, Sleeping, Closing, LockOK, FdOK, CallOK, Holds, InRead,
        InWrite, Ends, Empty, Full
  <2> QED BY <2>1, <2>2, <2>3, <2>4, <2>5, <2>6 DEF Inv
<1>17. ASSUME NEW p \in Procs, kill(p) PROVE Inv'
  <2>1. PcOK'
    BY <1>17, PipeAssumption DEF Inv, TypeOK, PcOK, kill, pipe, call, Go, Woken, States
  <2>2. TypeOK'
    BY <1>17, PipeAssumption, <2>1 DEF Inv, TypeOK, PcOK, kill, pipe, call, Go, Woken, InWrite,
        InRead, InClose, States
  <2>3. LockOK'
    BY <1>17, PipeAssumption, <2>1 DEF Inv, TypeOK, PcOK, LockOK, kill, pipe, call, Go, Woken,
        Holds
  <2>4. FdOK'
    BY SMTT(30), Z3T(60), <1>17, PipeAssumption, <2>1 DEF Inv, TypeOK, PcOK, FdOK, kill, pipe, call, Go, Woken,
        InWrite, InRead, Closing, Ends
  <2>5. CallOK'
    BY SMTT(30), Z3T(60), <1>17, PipeAssumption, <2>1 DEF Inv, TypeOK, PcOK, CallOK, kill, pipe, call, Go, Woken,
        LockOK, FdOK, Holds, InWrite, InRead, Closing, Ends, Empty, Full
  <2>6. NoLostWakeup'
    BY SMTT(30), Z3T(60), <1>17, PipeAssumption, <2>1 DEF Inv, TypeOK, PcOK, NoLostWakeup, kill, pipe, call, Go,
        Woken, LockOK, FdOK, CallOK, Holds, InRead, InWrite, Closing, Ends, Empty, Full
  <2> QED BY <2>1, <2>2, <2>3, <2>4, <2>5, <2>6 DEF Inv
<1>18. CASE UNCHANGED vars
  <2> USE <1>18 DEF vars, pipe, call
  <2>1. TypeOK' BY DEF Inv, TypeOK, InWrite, InRead, InClose
  <2>2. PcOK' /\ LockOK' BY DEF Inv, PcOK, LockOK, Holds
  <2>3. FdOK' /\ CallOK' BY DEF Inv, FdOK, CallOK, InWrite, InRead, Empty, Full
  <2>4. NoLostWakeup' BY DEF Inv, NoLostWakeup, Empty, Full
  <2> QED BY <2>1, <2>2, <2>3, <2>4 DEF Inv
<1> QED
  BY <1>1, <1>2, <1>3, <1>4, <1>5, <1>6, <1>7, <1>8, <1>9, <1>10, <1>11, <1>12, <1>13, <1>14, <1>15, <1>16, <1>17, <1>18 DEF Next, Call, KernelStep, WriteStep, ReadStep

\* For any number of processes no reader and no writer of the pipe sleeps without a
\* reason, unless a process was killed.
THEOREM PipeWakeups == Spec => []NoLostWakeup
<1>1. Inv => NoLostWakeup BY DEF Inv
<1> QED BY <1>1, InitInv, StepInv, PTL DEF Spec

\* For any number of processes pipeclose frees the pipe's page only when nobody is in a
\* call on it and nobody can reach it any more.
THEOREM PipeFreedLast == Spec => []NoUseAfterFree
<1>1. Inv => NoUseAfterFree
  <2> SUFFICES ASSUME Inv, freed, NEW p \in Procs PROVE pc[p] = "user" /\ \A e \in Ends : p \notin fd[e]
    BY DEF NoUseAfterFree
  <2>1. \A e \in Ends : e \notin open /\ fd[e] = {}
    BY DEF Inv, FdOK
  <2>2. ~InWrite(p) /\ ~InRead(p) /\ pc[p] # Closing("r") /\ pc[p] # Closing("w")
    BY <2>1 DEF Inv, FdOK, Ends
  <2> QED BY <2>1, <2>2 DEF Inv, TypeOK, InClose, Closing
<1> QED BY <1>1, InitInv, StepInv, PTL DEF Spec

\* For any number of processes a read returns no byte only when everything written has
\* been read and nobody has the write end any more.
THEOREM PipeEof == Spec => EofIsEnd
<1> DEFINE Eof == \A p \in Procs : pc[p] = "copy" /\ pc'[p] = "user" /\ i[p] = 0 => Empty /\ fd["w"] = {}
<1>1. Inv /\ [Next]_vars => [Eof]_vars
  <2> SUFFICES ASSUME Inv, Next, NEW p \in Procs, pc[p] = "copy", pc'[p] = "user", i[p] = 0
               PROVE  Empty /\ fd["w"] = {}
    OBVIOUS
  <2>1. read_return(p)
    <3>1. PICK q \in Procs : Call(q) \/ KernelStep(q) \/ kill(q)
      BY DEF Next
    <3>2. ~Call(q) /\ ~kill(q) /\ ~WriteStep(q)
      BY <3>1 DEF Inv, PcOK, Call, pipewrite, piperead, fork, fileclose, Go, kill, Woken, Closing, WriteStep,
          write_byte, write_full, write_sleep, write_again, write_return, WakeupAndGo, Wakeup, Sleeping
    <3>3. ASSUME NEW e \in Ends PROVE ~pipeclose(q, e)
      BY SMTT(30), Z3T(60) DEF Inv, PcOK, pipeclose, WakeupAndGo, Wakeup, Sleeping, Woken, Closing
    <3>4. ~read_empty(q) /\ ~read_sleep(q) /\ ~read_again(q) /\ ~read_copy(q) /\ ~read_byte(q)
      BY DEF Inv, PcOK, read_empty, read_sleep, read_again, read_copy, read_byte, Go
    <3>5. read_return(q)
      BY <3>1, <3>2, <3>3, <3>4 DEF KernelStep, ReadStep
    <3>6. q = p
      BY <3>5 DEF Inv, PcOK, read_return, WakeupAndGo, Wakeup, Sleeping, Woken
    <3> QED BY <3>5, <3>6
  <2>2. n[p] # 0 /\ (~Empty \/ "w" \notin open)
    BY DEF Inv, CallOK, InRead
  <2>3. Empty /\ "w" \notin open
    BY <2>1, <2>2 DEF read_return
  <2> QED BY <2>3 DEF Inv, FdOK, Ends
<1> QED BY <1>1, InitInv, StepInv, PTL DEF Spec, EofIsEnd

(***************************************************************************)
(* The ring is a queue                                                     *)
(***************************************************************************)
\* Multiplication by a positive number keeps an order.
LEMMA TimesLe == \A a, b \in Int, c \in Nat : a <= b => a * c <= b * c
BY SMTT(30), Z3T(60)

\* Division with remainder.
LEMMA DivMod ==
  ASSUME NEW c \in Nat \ {0}, NEW a \in Int
  PROVE  a = (a \div c) * c + (a % c) /\ a % c \in 0..c - 1 /\ a \div c \in Int
BY SMTT(30), Z3T(60)

\* The remainder is unique.
LEMMA ModUnique ==
  ASSUME NEW c \in Nat \ {0}, NEW q \in Int, NEW r \in 0..c - 1
  PROVE  (q * c + r) % c = r
<1>1. q * c + r \in Int BY SMTT(30), Z3T(60)
<1>. DEFINE p == (q * c + r) \div c
            s == (q * c + r) % c
<1>2. p * c + s = q * c + r /\ s \in 0..c - 1 /\ p \in Int BY <1>1, DivMod
<1>. HIDE DEF p, s
<1>3. ASSUME NEW a \in Int, NEW b \in Int, a < b PROVE a * c + c <= b * c
  <2>1. (a + 1) * c <= b * c BY SMTT(30), Z3T(60), TimesLe, <1>3
  <2>. QED BY SMTT(30), Z3T(60), <2>1
<1>4. ~(p < q) BY SMTT(30), Z3T(60), <1>2, <1>3
<1>5. ~(q < p) BY SMTT(30), Z3T(60), <1>2, <1>3
<1>6. s = r BY SMTT(30), Z3T(60), <1>2, <1>4, <1>5
<1>. QED BY <1>6 DEF s

\* A counter that has left its range on either side wraps once.
LEMMA Wrap ==
  ASSUME NEW c \in Nat \ {0}, NEW a \in -c..c + c - 1
  PROVE  a % c = IF a < 0 THEN a + c ELSE IF a < c THEN a ELSE a - c
<1>1. CASE a < 0
  <2>1. a = (-1) * c + (a + c) /\ a + c \in 0..c - 1 BY SMTT(30), Z3T(60), <1>1
  <2>2. ((-1) * c + (a + c)) % c = a + c BY <2>1, ModUnique, SMTT(30), Z3T(60)
  <2>. QED BY SMTT(30), Z3T(60), <1>1, <2>1, <2>2
<1>2. CASE 0 <= a /\ a < c
  <2>1. a = 0 * c + a /\ a \in 0..c - 1 BY SMTT(30), Z3T(60), <1>2
  <2>2. (0 * c + a) % c = a BY <2>1, ModUnique, SMTT(30), Z3T(60)
  <2>. QED BY SMTT(30), Z3T(60), <1>2, <2>1, <2>2
<1>3. CASE c <= a
  <2>1. a = 1 * c + (a - c) /\ a - c \in 0..c - 1 BY SMTT(30), Z3T(60), <1>3
  <2>2. (1 * c + (a - c)) % c = a - c BY <2>1, ModUnique, SMTT(30), Z3T(60)
  <2>. QED BY SMTT(30), Z3T(60), <1>3, <2>1, <2>2
<1>. QED BY SMTT(30), Z3T(60), <1>1, <1>2, <1>3

\* A whole number of rounds leads to the same place of the ring.
LEMMA ModShift ==
  ASSUME NEW c \in Nat \ {0}, NEW u \in Nat, u % c = 0, NEW a \in Int
  PROVE  (a + u) % c = a % c
<1>. DEFINE q == a \div c
            r == a % c
            t == u \div c
<1>1. a = q * c + r /\ r \in 0..c - 1 /\ q \in Int BY DivMod
<1>2. u = t * c + (u % c) /\ t \in Int BY DivMod, SMTT(30), Z3T(60)
<1>. HIDE DEF q, r, t
<1>3. u = t * c BY SMTT(30), Z3T(60), <1>2
<1>4. a + u = (q + t) * c + r BY SMTT(30), Z3T(60), <1>1, <1>2, <1>3
<1>5. q + t \in Int BY SMTT(30), Z3T(60), <1>1, <1>2
<1>6. ((q + t) * c + r) % c = r BY <1>1, <1>5, ModUnique
<1>. QED BY <1>4, <1>6 DEF r

\* Within one round all places of the ring are different.
LEMMA ModDistinct ==
  ASSUME NEW c \in Nat \ {0}, NEW a \in Int, NEW d \in 1..c - 1
  PROVE  (a + d) % c # a % c
<1>. DEFINE q == a \div c
            r == a % c
<1>1. a = q * c + r /\ r \in 0..c - 1 /\ q \in Int BY DivMod
<1>. HIDE DEF q, r
<1>2. CASE r + d < c
  <2>1. r + d \in 0..c - 1 /\ a + d = q * c + (r + d) BY SMTT(30), Z3T(60), <1>1, <1>2
  <2>2. (q * c + (r + d)) % c = r + d BY <1>1, <2>1, ModUnique
  <2>3. r + d # r BY SMTT(30), Z3T(60), <1>1
  <2>. QED BY <2>1, <2>2, <2>3 DEF r
<1>3. CASE c <= r + d
  <2>1. r + d - c \in 0..c - 1 /\ q + 1 \in Int BY SMTT(30), Z3T(60), <1>1, <1>3
  <2>2. a + d = (q + 1) * c + (r + d - c) BY SMTT(30), Z3T(60), <1>1
  <2>3. ((q + 1) * c + (r + d - c)) % c = r + d - c BY <2>1, ModUnique
  <2>4. r + d - c # r BY SMTT(30), Z3T(60), <1>1
  <2>. QED BY <2>2, <2>3, <2>4 DEF r
<1>. QED BY SMTT(30), Z3T(60), <1>1, <1>2, <1>3

\* A function on 1..d is a sequence of length d.
LEMMA SeqIs ==
  ASSUME NEW S, NEW d \in Nat, NEW f \in [1..d -> S]
  PROVE  f \in Seq(S) /\ Len(f) = d
<1>1. f \in Seq(S)
  <2>1. [k \in 1..d |-> f[k]] \in Seq(S) BY SMTT(30), Z3T(60)
  <2>2. f = [k \in 1..d |-> f[k]] BY SMTT(30), Z3T(60)
  <2>. QED BY <2>1, <2>2
<1>2. Len(f) \in Nat /\ DOMAIN f = 1..Len(f) BY <1>1, SMTT(30), Z3T(60)
<1>3. DOMAIN f = 1..d OBVIOUS
<1>. QED BY <1>1, <1>2, <1>3, SMTT(30), Z3T(60)

\* One element more at the end is Append.
LEMMA AppendIs ==
  ASSUME NEW S, NEW d \in Nat, NEW f \in [1..d -> S], NEW v \in S, NEW g \in [1..d + 1 -> S],
         \A k \in 1..d : g[k] = f[k], g[d + 1] = v
  PROVE  g = Append(f, v)
<1>1. f \in Seq(S) /\ Len(f) = d BY SeqIs
<1>2. g \in Seq(S) /\ Len(g) = d + 1
  <2>1. d + 1 \in Nat BY SMTT(30), Z3T(60)
  <2>. QED BY <2>1, SeqIs
<1>. QED BY SMTT(30), Z3T(60), <1>1, <1>2

\* One element less at the front is Tail.
LEMMA TailIs ==
  ASSUME NEW S, NEW d \in Nat \ {0}, NEW f \in [1..d -> S], NEW g \in [1..d - 1 -> S],
         \A k \in 1..d - 1 : g[k] = f[k + 1]
  PROVE  g = Tail(f) /\ Head(f) = f[1] /\ f # <<>>
<1>1. f \in Seq(S) /\ Len(f) = d BY SeqIs, SMTT(30), Z3T(60)
<1>2. g \in Seq(S) /\ Len(g) = d - 1
  <2>1. d - 1 \in Nat BY SMTT(30), Z3T(60)
  <2>. QED BY <2>1, SeqIs
<1>. QED BY SMTT(30), Z3T(60), <1>1, <1>2

-----------------------------------------------------------------------------
\* nread and nwrite wrap at UINT when they are advanced.
LEMMA Advance ==
  ASSUME NEW a \in 0..UINT - 1, NEW k \in 0..UINT
  PROVE  (a + k) % UINT = IF a + k < UINT THEN a + k ELSE a + k - UINT
<1>1. UINT \in Nat \ {0} BY SMTT(30), Z3T(60), PipeAssumption
<1>. DEFINE b == a + k
<1>2. b \in -UINT..UINT + UINT - 1 /\ ~(b < 0) BY SMTT(30), Z3T(60), <1>1
<1>3. b % UINT = IF b < 0 THEN b + UINT ELSE IF b < UINT THEN b ELSE b - UINT BY <1>1, <1>2, Wrap
<1>. QED BY SMTT(30), Z3T(60), <1>1, <1>2, <1>3

\* How far nwrite is ahead of nread, across the wrap.
LEMMA Distance ==
  ASSUME NEW a \in 0..UINT - 1, NEW z \in 0..UINT - 1
  PROVE  (z - a) % UINT = IF a <= z THEN z - a ELSE z - a + UINT
<1>1. UINT \in Nat \ {0} BY SMTT(30), Z3T(60), PipeAssumption
<1>. DEFINE b == z - a
<1>2. b \in -UINT..UINT + UINT - 1 /\ b < UINT /\ (b < 0 <=> ~(a <= z)) BY SMTT(30), Z3T(60), <1>1
<1>3. b % UINT = IF b < 0 THEN b + UINT ELSE IF b < UINT THEN b ELSE b - UINT BY <1>1, <1>2, Wrap
<1>. QED BY <1>2, <1>3

\* How many bytes are in the ring, which never exceeds its size.
RingSize == (nwrite - nread) % UINT
RingOK == RingSize <= PIPESIZE

\* What the code sees of the ring by comparing its counters.
LEMMA RingFacts ==
  ASSUME TypeOK
  PROVE  /\ RingSize = IF nread <= nwrite THEN nwrite - nread ELSE nwrite - nread + UINT
         /\ RingSize \in Nat
         /\ Empty <=> RingSize = 0
         /\ Full <=> RingSize = PIPESIZE
         /\ Index(nread + RingSize) = Index(nwrite)
<1>. USE PipeAssumption
<1>1. nread \in 0..UINT - 1 /\ nwrite \in 0..UINT - 1 /\ PIPESIZE \in 0..UINT BY SMTT(30), Z3T(60) DEF TypeOK
<1>2. RingSize = IF nread <= nwrite THEN nwrite - nread ELSE nwrite - nread + UINT BY <1>1, Distance DEF RingSize
<1>3. (nread + PIPESIZE) % UINT = IF nread + PIPESIZE < UINT THEN nread + PIPESIZE ELSE nread + PIPESIZE - UINT
  BY <1>1, Advance
<1>4. RingSize \in Nat /\ (Empty <=> RingSize = 0) BY SMTT(30), Z3T(60), <1>1, <1>2 DEF Empty
<1>5. Full <=> RingSize = PIPESIZE BY SMTT(30), Z3T(60), <1>1, <1>2, <1>3 DEF Full
<1>6. (nwrite + UINT) % PIPESIZE = nwrite % PIPESIZE
  <2>1. nwrite \in Int BY SMTT(30), Z3T(60), <1>1
  <2>. QED BY <2>1, ModShift
<1>7. nread + RingSize = nwrite \/ nread + RingSize = nwrite + UINT BY SMTT(30), Z3T(60), <1>1, <1>2
<1>. QED BY <1>2, <1>4, <1>5, <1>6, <1>7 DEF Index

\* A byte written into a ring that is not full makes it longer by one.
LEMMA RingGrows ==
  ASSUME TypeOK, TypeOK', RingOK, ~Full, nwrite' = (nwrite + 1) % UINT, nread' = nread
  PROVE  RingSize' = RingSize + 1 /\ RingSize < PIPESIZE
<1>. USE PipeAssumption
<1>1. /\ nread \in 0..UINT - 1 /\ nwrite \in 0..UINT - 1 /\ 1 \in 0..UINT
      /\ nread' \in 0..UINT - 1 /\ nwrite' \in 0..UINT - 1
  BY SMTT(30), Z3T(60) DEF TypeOK
<1>2. nwrite' = IF nwrite + 1 < UINT THEN nwrite + 1 ELSE nwrite + 1 - UINT BY <1>1, Advance
<1>3. RingSize < PIPESIZE BY SMTT(30), Z3T(60), RingFacts DEF RingOK
<1>4. RingSize = IF nread <= nwrite THEN nwrite - nread ELSE nwrite - nread + UINT BY RingFacts
<1>5. RingSize' = IF nread' <= nwrite' THEN nwrite' - nread' ELSE nwrite' - nread' + UINT
  BY <1>1, Distance DEF RingSize
<1>. QED BY SMTT(30), Z3T(60), <1>1, <1>2, <1>3, <1>4, <1>5

\* A byte read out of a ring that is not empty makes it shorter by one.
LEMMA RingShrinks ==
  ASSUME TypeOK, TypeOK', ~Empty, nread' = (nread + 1) % UINT, nwrite' = nwrite
  PROVE  RingSize' = RingSize - 1 /\ RingSize \in Nat \ {0}
<1>. USE PipeAssumption
<1>1. /\ nread \in 0..UINT - 1 /\ nwrite \in 0..UINT - 1 /\ 1 \in 0..UINT
      /\ nread' \in 0..UINT - 1 /\ nwrite' \in 0..UINT - 1
  BY SMTT(30), Z3T(60) DEF TypeOK
<1>2. nread' = IF nread + 1 < UINT THEN nread + 1 ELSE nread + 1 - UINT BY <1>1, Advance
<1>3. RingSize \in Nat /\ RingSize # 0 BY RingFacts
<1>4. RingSize = IF nread <= nwrite THEN nwrite - nread ELSE nwrite - nread + UINT BY RingFacts
<1>5. RingSize' = IF nread' <= nwrite' THEN nwrite' - nread' ELSE nwrite' - nread' + UINT
  BY <1>1, Distance DEF RingSize
<1>. QED BY SMTT(30), Z3T(60), <1>1, <1>2, <1>3, <1>4, <1>5

\* The bytes in the ring, as a function of their place in the queue.
ContentsOK ==
  /\ Contents \in [1..RingSize -> Bytes] /\ Len(Contents) = RingSize
  /\ \A k \in 1..RingSize : /\ Index(nread + k - 1) \in 0..PIPESIZE - 1
                            /\ Contents[k] = buf[Index(nread + k - 1)]
\* They are as many as the counters say, and lie at places inside the ring.
LEMMA ContentsIs == TypeOK => ContentsOK
<1>. SUFFICES ASSUME TypeOK PROVE ContentsOK OBVIOUS
<1>. USE PipeAssumption DEF ContentsOK
<1>1. RingSize \in Nat BY RingFacts
<1>2. \A k \in 1..RingSize : Index(nread + k - 1) \in 0..PIPESIZE - 1
  <2>1. ASSUME NEW k \in 1..RingSize PROVE nread + k - 1 \in Nat BY SMTT(30), Z3T(60), <1>1, <2>1 DEF TypeOK
  <2>. QED BY <2>1, Remainder DEF Index
<1>3. Contents = [k \in 1..RingSize |-> buf[Index(nread + k - 1)]] BY DEF Contents, RingSize
<1>4. Contents \in [1..RingSize -> Bytes] BY <1>2, <1>3 DEF TypeOK
<1>5. Len(Contents) = RingSize BY <1>1, <1>4, SeqIs
<1>. QED BY <1>2, <1>3, <1>4, <1>5

\* pipewrite puts a byte behind those in the ring and overwrites none of them.
LEMMA WriteByte ==
  ASSUME Inv, Inv', RingOK, NEW p \in Procs, NEW v \in Bytes, write_byte(p, v)
  PROVE  RingOK' /\ Channel!Put(v)
<1>. USE PipeAssumption
<1>0. TypeOK /\ TypeOK' BY DEF Inv
<1>1. /\ ~Full /\ buf' = [buf EXCEPT ![Index(nwrite)] = v] /\ nwrite' = (nwrite + 1) % UINT
      /\ UNCHANGED <<nread, open, last>> /\ pc[p] = "write"
  BY DEF write_byte
<1>2. RingSize' = RingSize + 1 /\ RingSize < PIPESIZE /\ RingSize \in Nat BY <1>0, <1>1, RingGrows, RingFacts
<1>3. RingOK' BY SMTT(30), Z3T(60), <1>2 DEF RingOK
<1>4. "w" \in open BY <1>1 DEF Inv, FdOK, InWrite, Ends
<1>5. Index(nread + RingSize) = Index(nwrite) /\ Index(nwrite) \in 0..PIPESIZE - 1 BY <1>0, RingFacts, Counters
<1>6. ASSUME NEW k \in 1..RingSize PROVE Index(nread + k - 1) # Index(nwrite)
  <2>. DEFINE a == nread + k - 1
              d == RingSize - k + 1
  <2>1. a \in Int /\ d \in 1..PIPESIZE - 1 /\ a + d = nread + RingSize
    <3>1. nread \in Nat BY SMTT(30), Z3T(60), <1>0 DEF TypeOK
    <3>. QED BY SMTT(30), Z3T(60), <1>2, <1>6, <3>1
  <2>. HIDE DEF d
  <2>2. (a + d) % PIPESIZE # a % PIPESIZE BY <2>1, ModDistinct
  <2>. QED BY <1>5, <2>1, <2>2 DEF Index
<1>. DEFINE f == Contents
            g == Contents'
            d == RingSize
<1>7. ContentsOK /\ ContentsOK'
  <2>1. TypeOK' => ContentsOK' BY ContentsIs, PTL
  <2>. QED BY <1>0, <2>1, ContentsIs
<1>8. f \in [1..d -> Bytes] /\ Len(f) = d /\ d \in Nat BY <1>2, <1>7 DEF ContentsOK
<1>9. g \in [1..d + 1 -> Bytes] BY <1>2, <1>7 DEF ContentsOK
<1>10. \A k \in 1..d + 1 : g[k] = buf'[Index(nread + k - 1)] BY <1>1, <1>2, <1>7 DEF ContentsOK
<1>11. ASSUME NEW k \in 1..d PROVE g[k] = f[k]
  <2>1. k \in 1..d + 1 BY SMTT(30), Z3T(60), <1>8
  <2>2. buf'[Index(nread + k - 1)] = buf[Index(nread + k - 1)] BY <1>0, <1>1, <1>5, <1>6, <1>7 DEF TypeOK, ContentsOK
  <2>. QED BY <1>7, <1>10, <2>1, <2>2 DEF ContentsOK
<1>12. g[d + 1] = v
  <2>1. d + 1 \in 1..d + 1 /\ nread + (d + 1) - 1 = nread + d
    <3>1. nread \in Nat BY SMTT(30), Z3T(60), <1>0 DEF TypeOK
    <3>. QED BY SMTT(30), Z3T(60), <1>8, <3>1
  <2>2. buf'[Index(nwrite)] = v BY <1>0, <1>1, <1>5 DEF TypeOK
  <2>. QED BY <1>5, <1>10, <2>1, <2>2
<1>. HIDE DEF f, g, d
<1>13. g = Append(f, v) BY SMTT(30), Z3T(60), <1>8, <1>9, <1>11, <1>12, AppendIs
<1>. QED BY <1>1, <1>2, <1>3, <1>4, <1>8, <1>13 DEF Channel!Put, f, g, d

\* piperead takes the byte that has been in the ring longest.
LEMMA ReadByte ==
  ASSUME Inv, Inv', RingOK, NEW p \in Procs, read_byte(p)
  PROVE  RingOK' /\ Channel!Get
<1>. USE PipeAssumption
<1>0. TypeOK /\ TypeOK' BY DEF Inv
<1>1. /\ ~Empty /\ last' = buf[Index(nread)] /\ nread' = (nread + 1) % UINT
      /\ UNCHANGED <<buf, nwrite, open>> /\ pc[p] = "copy"
  BY DEF read_byte
<1>2. RingSize' = RingSize - 1 /\ RingSize \in Nat \ {0} BY <1>0, <1>1, RingShrinks
<1>3. RingOK' BY SMTT(30), Z3T(60), <1>2 DEF RingOK
<1>4. "r" \in open BY <1>1 DEF Inv, FdOK, InRead, Ends
<1>. DEFINE f == Contents
            g == Contents'
            d == RingSize
<1>5. ContentsOK /\ ContentsOK'
  <2>1. TypeOK' => ContentsOK' BY ContentsIs, PTL
  <2>. QED BY <1>0, <2>1, ContentsIs
<1>6. f \in [1..d -> Bytes] /\ d \in Nat \ {0} BY <1>2, <1>5 DEF ContentsOK
<1>7. g \in [1..d - 1 -> Bytes] BY <1>2, <1>5 DEF ContentsOK
<1>8. nread \in 0..UINT - 1 BY <1>0 DEF TypeOK
<1>9. ASSUME NEW k \in 1..d - 1 PROVE g[k] = f[k + 1]
  <2>1. k + 1 \in 1..d BY SMTT(30), Z3T(60), <1>6
  <2>2. g[k] = buf[Index(nread' + k - 1)] BY <1>1, <1>2, <1>5 DEF ContentsOK
  <2>3. f[k + 1] = buf[Index(nread + (k + 1) - 1)] BY <1>5, <2>1 DEF ContentsOK
  <2>4. nread' = IF nread + 1 < UINT THEN nread + 1 ELSE nread + 1 - UINT
    <3>1. 1 \in 0..UINT BY SMTT(30), Z3T(60)
    <3>. QED BY <1>1, <1>8, <3>1, Advance
  <2>. DEFINE a == nread' + k - 1
              z == nread + (k + 1) - 1
  <2>5. a \in Int /\ (z = a \/ z = a + UINT) BY SMTT(30), Z3T(60), <1>6, <1>8, <2>4
  <2>. HIDE DEF a, z
  <2>6. (a + UINT) % PIPESIZE = a % PIPESIZE BY <2>5, ModShift
  <2>7. Index(a) = Index(z) BY <2>5, <2>6 DEF Index
  <2>. QED BY <2>2, <2>3, <2>7 DEF a, z
<1>10. f[1] = last'
  <2>1. 1 \in 1..d /\ nread + 1 - 1 = nread BY SMTT(30), Z3T(60), <1>6, <1>8
  <2>. QED BY <1>1, <1>5, <2>1 DEF ContentsOK
<1>. HIDE DEF f, g, d
<1>11. g = Tail(f) /\ Head(f) = f[1] /\ f # <<>> BY SMTT(30), Z3T(60), <1>6, <1>7, <1>9, TailIs
<1>. QED BY <1>1, <1>3, <1>4, <1>10, <1>11 DEF Channel!Get, f, g, d

\* The steps that move no byte: they change what the queue's reader sees only by closing
\* an end, which is open until then.
LEMMA OtherSteps ==
  ASSUME Inv, RingOK, [Next]_vars, ~(\E p \in Procs : read_byte(p) \/ \E v \in Bytes : write_byte(p, v))
  PROVE  RingOK' /\ [Channel!Next]_(Channel!vars)
<1>1. ASSUME UNCHANGED <<buf, nread, nwrite>> PROVE RingOK' /\ UNCHANGED Contents
  BY <1>1 DEF RingOK, RingSize, Contents
<1>2. ASSUME NEW p \in Procs, NEW e \in Ends, pipeclose(p, e) PROVE RingOK' /\ [Channel!Next]_(Channel!vars)
  <2>1. UNCHANGED <<buf, nread, nwrite, last>> /\ open' = open \ {e} /\ e \in open
    BY <1>2 DEF pipeclose, Inv, FdOK
  <2>. QED BY <1>1, <2>1 DEF Channel!Next, Channel!Close, Ends
<1>3. ASSUME NEW p \in Procs, Call(p) \/ KernelStep(p) \/ kill(p), ~\E e \in Ends : pipeclose(p, e)
      PROVE  UNCHANGED <<pipe, last>>
  <2>1. CASE Call(p) BY <2>1 DEF Call, pipewrite, piperead, fork, fileclose
  <2>2. CASE WriteStep(p) BY <2>2 DEF WriteStep, write_full, write_sleep, write_again, write_return
  <2>3. CASE ReadStep(p) BY <2>3 DEF ReadStep, read_empty, read_sleep, read_again, read_copy, read_return
  <2>4. CASE kill(p) BY <2>4 DEF kill
  <2>. QED BY <1>3, <2>1, <2>2, <2>3, <2>4 DEF KernelStep
<1>4. ASSUME UNCHANGED <<pipe, last>> PROVE RingOK' /\ [Channel!Next]_(Channel!vars)
  BY <1>1, <1>4 DEF pipe, Channel!vars
<1>5. CASE UNCHANGED vars BY <1>4, <1>5 DEF vars
<1>6. CASE Next BY <1>2, <1>3, <1>4, <1>6 DEF Next
<1>. QED BY <1>5, <1>6

\* For any number of processes, any size of the ring and any width of its counters the
\* ring is a bounded queue: bytes are read in the order in which they were written, none
\* is lost, overwritten or read twice, and none passes an end that is closed.
THEOREM PipeIsQueue == Spec => ImplementsChannel
<1>1. Init => RingOK /\ Channel!Init
  <2>. SUFFICES ASSUME Init PROVE RingOK /\ Channel!Init OBVIOUS
  <2>0. TypeOK BY InitInv DEF Inv
  <2>1. RingSize = 0 BY <2>0, RingFacts DEF Init, Empty
  <2>2. RingOK BY SMTT(30), Z3T(60), <2>1, PipeAssumption DEF RingOK
  <2>3. Contents = <<>>
    <3>1. Contents = [k \in 1..0 |-> buf[Index(nread + k - 1)]] BY <2>1 DEF Contents, RingSize
    <3>. QED BY SMTT(30), Z3T(60), <3>1
  <2>4. last \in Bytes BY <2>0 DEF TypeOK
  <2>. QED BY <2>2, <2>3, <2>4 DEF Channel!Init, Init, Ends
<1>2. Inv /\ RingOK /\ [Next]_vars => RingOK' /\ [Channel!Next]_(Channel!vars)
  <2>. SUFFICES ASSUME Inv, RingOK, [Next]_vars PROVE RingOK' /\ [Channel!Next]_(Channel!vars) OBVIOUS
  <2>1. Inv' BY StepInv
  <2>2. ASSUME NEW p \in Procs, NEW v \in Bytes, write_byte(p, v) PROVE RingOK' /\ [Channel!Next]_(Channel!vars)
    <3>1. RingOK' /\ Channel!Put(v) BY <2>1, <2>2, WriteByte
    <3>. QED BY <3>1 DEF Channel!Next
  <2>3. ASSUME NEW p \in Procs, read_byte(p) PROVE RingOK' /\ [Channel!Next]_(Channel!vars)
    <3>1. RingOK' /\ Channel!Get BY <2>1, <2>3, ReadByte
    <3>. QED BY <3>1 DEF Channel!Next
  <2>. QED BY <2>2, <2>3, OtherSteps
<1>. QED BY <1>1, <1>2, InitInv, StepInv, PTL DEF Spec, ImplementsChannel, Channel!Spec
=============================================================================
