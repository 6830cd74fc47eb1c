-------------------------------- MODULE XvPipe --------------------------------
(***************************************************************************)
(* A pipe of xv6 (pipe.c) and the processes that hold its two ends through *)
(* the file table (file.c).  fd[e] is the set of processes with an open    *)
(* descriptor of end e; its size is the reference count of the struct      *)
(* file.  The lock of the pipe is a variable, since a call keeps it over   *)
(* several steps during which others run up to their own acquire; the      *)
(* bytes of a call are copied one per step.                                *)
(***************************************************************************)
EXTENDS Integers, Sequences

CONSTANTS Procs, first,     \* the processes, and the one that called pipe()
          NoProc,
          Bytes, PIPESIZE,
          UINT,             \* nread and nwrite are unsigned: they wrap here
          MaxN              \* bound of the model: bytes in one call

ASSUME PipeAssumption ==
  /\ first \in Procs /\ NoProc \notin Procs
  /\ PIPESIZE \in Nat \ {0} /\ UINT \in Nat /\ PIPESIZE < UINT /\ UINT % PIPESIZE = 0
  /\ MaxN \in Nat \ {0}

Ends == {"r", "w"}

VARIABLES buf, nread, nwrite, open, freed, lock,   \* struct pipe; open: readopen, writeopen
          fd,                                      \* who has a descriptor of which end
          killed,                                  \* p->killed
          pc, n, i,                                \* control state; arguments and loop variables
          last                                     \* the byte that a read copied last

pipe == <<buf, nread, nwrite, open, freed>>
call == <<n, i>>
vars == <<pipe, lock, fd, killed, pc, call, last>>

Index(k) == k % PIPESIZE
Empty == nread = nwrite
Full_MutOne == nwrite = (nread + PIPESIZE + 1) % UINT
Full == nwrite = (nread + PIPESIZE) % UINT

\* pipealloc: one process has both ends.
Init ==
  /\ \E v \in Bytes : buf = [k \in 0..PIPESIZE - 1 |-> v] /\ last = v
  /\ nread = 0 /\ nwrite = 0
  /\ open = Ends /\ freed = FALSE /\ lock = NoProc
  /\ fd = [e \in Ends |-> {first}] /\ killed = {}
  /\ pc = [p \in Procs |-> "user"] /\ n = [p \in Procs |-> 0] /\ i = [p \in Procs |-> 0]

\* Where a process sleeps, and where it goes on: at its acquire of the lock.
Sleeping(e) == IF e = "r" THEN "sleep_read" ELSE "sleep_write"
Woken(s) == CASE s = "sleep_read" -> "wait_read" [] s = "sleep_write" -> "wait_write" [] OTHER -> s
Wakeup(e, q) == IF pc[q] = Sleeping(e) THEN Woken(pc[q]) ELSE pc[q]
\* p moves to s, in a step that wakes those who sleep at end e.
WakeupAndGo(e, p, s) == pc' = [q \in Procs |-> IF q = p THEN s ELSE Wakeup(e, q)]
Go(p, s) == pc' = [pc EXCEPT ![p] = s]
Acquire(p) == lock = NoProc /\ lock' = p
Release == lock' = NoProc
Return(p) == Release /\ n' = [n EXCEPT ![p] = 0] /\ i' = [i EXCEPT ![p] = 0]
-----------------------------------------------------------------------------
\* pipewrite.

pipewrite(p) ==
  /\ pc[p] = "user" /\ p \in fd["w"] \ killed /\ Acquire(p)
  /\ n' \in {[n EXCEPT ![p] = k] : k \in 1..MaxN} /\ Go(p, "write")
  /\ UNCHANGED <<pipe, fd, killed, i, last>>

write_byte(p, v) ==
  /\ pc[p] = "write" /\ i[p] < n[p] /\ ~Full
  /\ buf' = [buf EXCEPT ![Index(nwrite)] = v] /\ nwrite' = (nwrite + 1) % UINT
  /\ i' = [i EXCEPT ![p] = @ + 1]
  /\ UNCHANGED <<nread, open, freed, lock, fd, killed, pc, n, last>>

\* No room: return -1, or wake the readers and go to sleep.  A kill may come
\* after killed has been read and before the process sleeps.
write_full(p) ==
  /\ pc[p] = "write" /\ i[p] < n[p] /\ Full
  /\ IF "r" \notin open \/ p \in killed
       THEN Go(p, "user") /\ Return(p)
       ELSE WakeupAndGo("r", p, "full") /\ UNCHANGED <<lock, call>>
  /\ UNCHANGED <<pipe, fd, killed, last>>
write_sleep(p) ==
  /\ pc[p] = "full" /\ Go(p, "sleep_write") /\ Release
  /\ UNCHANGED <<pipe, fd, killed, call, last>>
write_again(p) ==
  /\ pc[p] = "wait_write" /\ Acquire(p) /\ Go(p, "write")
  /\ UNCHANGED <<pipe, fd, killed, call, last>>

write_return(p) ==
  /\ pc[p] = "write" /\ i[p] = n[p] /\ WakeupAndGo("r", p, "user") /\ Return(p)
  /\ UNCHANGED <<pipe, fd, killed, last>>
-----------------------------------------------------------------------------
\* piperead.

piperead(p) ==
  /\ pc[p] = "user" /\ p \in fd["r"] \ killed /\ Acquire(p)
  /\ n' \in {[n EXCEPT ![p] = k] : k \in 1..MaxN} /\ Go(p, "read")
  /\ UNCHANGED <<pipe, fd, killed, i, last>>

read_empty(p) ==
  /\ pc[p] = "read" /\ Empty /\ "w" \in open
  /\ IF p \in killed THEN Go(p, "user") /\ Return(p) ELSE Go(p, "empty") /\ UNCHANGED <<lock, call>>
  /\ UNCHANGED <<pipe, fd, killed, last>>
read_sleep(p) ==
  /\ pc[p] = "empty" /\ Go(p, "sleep_read") /\ Release
  /\ UNCHANGED <<pipe, fd, killed, call, last>>
read_again_MutIf(p) ==
  /\ pc[p] = "wait_read" /\ Acquire(p) /\ Go(p, "copy")
  /\ UNCHANGED <<pipe, fd, killed, call, last>>
read_again(p) ==
  /\ pc[p] = "wait_read" /\ Acquire(p) /\ Go(p, "read")
  /\ UNCHANGED <<pipe, fd, killed, call, last>>

\* The loop that copies, entered when the pipe is not empty or at its end.
read_copy(p) ==
  /\ pc[p] = "read" /\ (~Empty \/ "w" \notin open) /\ Go(p, "copy")
  /\ UNCHANGED <<pipe, lock, fd, killed, call, last>>
read_byte(p) ==
  /\ pc[p] = "copy" /\ i[p] < n[p] /\ ~Empty
  /\ last' = buf[Index(nread)] /\ nread' = (nread + 1) % UINT
  /\ i' = [i EXCEPT ![p] = @ + 1]
  /\ UNCHANGED <<buf, nwrite, open, freed, lock, fd, killed, pc, n>>
read_return(p) ==
  /\ pc[p] = "copy" /\ (i[p] = n[p] \/ Empty) /\ WakeupAndGo("w", p, "user") /\ Return(p)
  /\ UNCHANGED <<pipe, fd, killed, last>>
-----------------------------------------------------------------------------
\* Descriptors: fork duplicates them, close and exit give them up.  The one who
\* gives up the last reference to a struct file goes on to pipeclose.

fork(p, q) ==
  /\ pc[p] = "user" /\ p \notin killed /\ \E e \in Ends : p \in fd[e]
  /\ pc[q] = "user" /\ q \notin killed /\ \A e \in Ends : q \notin fd[e]
  /\ fd' = [e \in Ends |-> IF p \in fd[e] THEN fd[e] \cup {q} ELSE fd[e]]
  /\ UNCHANGED <<pipe, lock, killed, pc, call, last>>

Closing(e) == IF e = "r" THEN "close_read" ELSE "close_write"
fileclose_MutRef(p, e) ==
  /\ pc[p] = "user" /\ p \in fd[e]
  /\ fd' = [fd EXCEPT ![e] = @ \ {p}]
  /\ UNCHANGED <<pipe, lock, killed, pc, call, last>>
fileclose(p, e) ==
  /\ pc[p] = "user" /\ p \in fd[e]
  /\ fd' = [fd EXCEPT ![e] = @ \ {p}]
  /\ IF fd[e] = {p} THEN Go(p, Closing(e)) ELSE UNCHANGED pc
  /\ UNCHANGED <<pipe, lock, killed, call, last>>

pipeclose_MutWakeup(p, e) ==
  /\ pc[p] = Closing(e) /\ lock = NoProc
  /\ open' = open \ {e} /\ freed' = (open' = {}) /\ Go(p, "user")
  /\ UNCHANGED <<buf, nread, nwrite, lock, fd, killed, call, last>>
pipeclose_MutFree(p, e) ==
  /\ pc[p] = Closing(e) /\ lock = NoProc
  /\ open' = open \ {e} /\ freed' = (open' # Ends)
  /\ WakeupAndGo(IF e = "w" THEN "r" ELSE "w", p, "user")
  /\ UNCHANGED <<buf, nread, nwrite, lock, fd, killed, call, last>>
pipeclose(p, e) ==
  /\ pc[p] = Closing(e) /\ lock = NoProc
  /\ open' = open \ {e} /\ freed' = (open' = {})
  /\ WakeupAndGo(IF e = "w" THEN "r" ELSE "w", p, "user")
  /\ UNCHANGED <<buf, nread, nwrite, lock, fd, killed, call, last>>

\* A killed process finishes its call and then exits, closing what it has open.
kill(p) ==
  /\ p \notin killed /\ killed' = killed \cup {p}
  /\ Go(p, Woken(pc[p]))
  /\ UNCHANGED <<pipe, lock, fd, call, last>>
-----------------------------------------------------------------------------
Call(p) == pipewrite(p) \/ piperead(p) \/ (\E q \in Procs : fork(p, q)) \/ (\E e \in Ends : fileclose(p, e))
WriteStep(p) == (\E v \in Bytes : write_byte(p, v)) \/ write_full(p) \/ write_sleep(p) \/ write_again(p) \/ write_return(p)
ReadStep(p) == read_empty(p) \/ read_sleep(p) \/ read_again(p) \/ read_copy(p) \/ read_byte(p) \/ read_return(p)
KernelStep(p) == WriteStep(p) \/ ReadStep(p) \/ (\E e \in Ends : pipeclose(p, e))

Next == \E p \in Procs : Call(p) \/ KernelStep(p) \/ kill(p)

\* A process in the kernel keeps running, and one that spins on a lock which is
\* released again and again gets it; no process has to make or to end a call.
Spec == Init /\ [][Next]_vars /\ \A p \in Procs : SF_vars(KernelStep(p))
-----------------------------------------------------------------------------
InWrite(p) == pc[p] \in {"write", "full", "sleep_write", "wait_write"}
InRead(p) == pc[p] \in {"read", "empty", "copy", "sleep_read", "wait_read"}
InClose(p) == pc[p] \in {"close_read", "close_write"}
Holds(p) == pc[p] \in {"write", "full", "read", "empty", "copy"}

TypeOK ==
  /\ buf \in [0..PIPESIZE - 1 -> Bytes] /\ last \in Bytes
  /\ nread \in 0..UINT - 1 /\ nwrite \in 0..UINT - 1
  /\ open \subseteq Ends /\ freed \in BOOLEAN /\ lock \in Procs \cup {NoProc}
  /\ fd \in [Ends -> SUBSET Procs] /\ killed \subseteq Procs
  /\ \A p \in Procs : pc[p] = "user" \/ InWrite(p) \/ InRead(p) \/ InClose(p)
  /\ n \in [Procs -> 0..MaxN] /\ i \in [Procs -> 0..MaxN]

\* A reader sleeps only over an empty pipe with a writer left, a writer only over
\* a full pipe with a reader left, unless the process that changed this is still
\* in the critical section that ends with the wakeup.  For the reader this needs
\* that no writer was killed: one that is killed after it has filled the pipe
\* returns without the wakeup.
NoLostWakeup ==
  \A p \in Procs :
    /\ pc[p] = "sleep_read" => (Empty /\ "w" \in open) \/ (lock # NoProc /\ pc[lock] = "write") \/ killed # {}
    /\ pc[p] = "sleep_write" => (Full /\ "r" \in open) \/ (lock # NoProc /\ pc[lock] = "copy")

\* The pipe's page is freed only when no descriptor of it is left and no process
\* is inside pipewrite, piperead or pipeclose: the reference counts of the two
\* struct files keep it alive through every fork, close and kill.
NoUseAfterFree ==
  freed => \A p \in Procs : pc[p] = "user" /\ \A e \in Ends : p \notin fd[e]

\* What is in the ring, oldest first, across the wrap of nread and nwrite.
Contents == [k \in 1..(nwrite - nread) % UINT |-> buf[Index(nread + k - 1)]]
Channel == INSTANCE XvPipeSpec WITH chan <- Contents

\* The ring with its two wrapping counters is a bounded queue: bytes come out in
\* the order in which they went in, none is lost, overwritten or read twice, and
\* none passes through an end that is closed.
ImplementsChannel == Channel!Spec

\* A read returns 0 bytes only at the end: everything written was read and
\* nobody has the write end any more.
EofIsEnd ==
  [][\A p \in Procs : pc[p] = "copy" /\ pc'[p] = "user" /\ i[p] = 0 => Empty /\ fd["w"] = {}]_vars

\* When the last writer is gone every read returns, and when the last reader is
\* gone every write returns.
CallsEnd ==
  \A p \in Procs :
    /\ (InRead(p) /\ fd["w"] = {}) ~> ~InRead(p)
    /\ (InWrite(p) /\ fd["r"] = {}) ~> ~InWrite(p)
=============================================================================
