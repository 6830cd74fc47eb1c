-------------------------------- MODULE XvProc --------------------------------
(***************************************************************************)
(* Processes of hw3/xv6: the process table and the priority scheduler of   *)
(* proc.c, on several CPUs.  What is done between acquire(&ptable.lock)    *)
(* and the release is one action, unless the CPU changes hands in between: *)
(* scheduler() keeps the lock until the process it switches to releases    *)
(* it, and gets it back from a process that gives up the CPU.              *)
(***************************************************************************)
EXTENDS Integers, Sequences, FiniteSets

CONSTANTS NPROC, CPUs, Priorities,
          MaxPid     \* bound on the pids given out

ASSUME XvProcAssumption ==
  /\ NPROC \in Nat \ {0} /\ MaxPid \in Nat \ {0}
  /\ Priorities \subseteq Int /\ 0 \in Priorities /\ "none" \notin CPUs

Procs == 1..NPROC
None == 0
initproc == 1
NoCpu == "none"

VARIABLES state, pid, parent, chan, killed, priority,   \* ptable.proc
          nextpid,
          at,        \* where a process is in the kernel, or "user"
          np,        \* the local np of a process in fork
          lock,      \* the CPU that keeps ptable.lock from one action to the next
          proc,      \* c->proc
          queue,     \* queue[i], ..., queue[n - 1] of scheduler(): priorities still to serve
          pos        \* the last process of this pass of the inner loop

table == <<state, pid, parent, chan, killed, priority, nextpid>>
sched == <<proc, queue, pos>>
vars == <<table, at, np, lock, sched>>

\* The loops over the table stop at the first process that meets their condition.
IsFirst(p, S) == p \in S /\ \A q \in S : p <= q

\* After userinit, and with all CPUs in scheduler().
Init ==
  /\ state = [p \in Procs |-> IF p = initproc THEN "RUNNABLE" ELSE "UNUSED"]
  /\ pid = [p \in Procs |-> IF p = initproc THEN 1 ELSE 0] /\ nextpid = 2
  /\ parent = [p \in Procs |-> None] /\ chan = [p \in Procs |-> None]
  /\ killed = [p \in Procs |-> FALSE] /\ priority = [p \in Procs |-> 0]
  /\ at = [p \in Procs |-> "user"] /\ np = [p \in Procs |-> None]
  /\ lock = NoCpu /\ proc = [c \in CPUs |-> None]
  /\ queue = [c \in CPUs |-> <<>>] /\ pos = [c \in CPUs |-> 0]
-----------------------------------------------------------------------------
\* scheduler()

Swap(q, j) ==
  SubSeq(q, 1, j - 1)
    \o (IF q[j] < q[j + 1] THEN <<q[j + 1], q[j]>> ELSE <<q[j], q[j + 1]>>)
    \o SubSeq(q, j + 2, Len(q))
Pass(q, m) == LET f[j \in 0..m] == IF j = 0 THEN q ELSE Swap(f[j - 1], j) IN f[m]
BubbleSort(q) ==
  LET g[k \in 0..Len(q)] == IF k = 0 THEN q ELSE Pass(g[k - 1], Len(q) - k) IN g[Len(q)]

\* The priorities of the runnable processes, in the order of the table.
Runnable == {p \in Procs : state[p] = "RUNNABLE"}
Nth(S, n) == CHOOSE p \in S : Cardinality({q \in S : q < p}) = n - 1
Collected == [n \in 1..Cardinality(Runnable) |-> priority[Nth(Runnable, n)]]

snapshot(c) ==
  /\ lock = NoCpu /\ proc[c] = None /\ queue[c] = <<>>
  /\ queue' = [queue EXCEPT ![c] = BubbleSort(Collected)]
  /\ UNCHANGED <<table, at, np, lock, proc, pos>>

Served_MutAbove(c, p) == priority[p] > Head(queue[c])   \* mutant: as the comment has it
Served(c, p) == priority[p] >= Head(queue[c])

\* The scan of the table goes on behind the last process it ran, up to the next one to
\* run or to the end of the table.
Ready(c) == {p \in Runnable : p > pos[c] /\ Served(c, p)}
Scanning(c) == lock \in {NoCpu, c} /\ proc[c] = None /\ queue[c] # <<>>

\* A process in wait() keeps the lock; sleep() clears chan.
switch(c, p) ==
  /\ Scanning(c) /\ IsFirst(p, Ready(c))
  /\ proc' = [proc EXCEPT ![c] = p] /\ pos' = [pos EXCEPT ![c] = p]
  /\ state' = [state EXCEPT ![p] = "RUNNING"] /\ chan' = [chan EXCEPT ![p] = None]
  /\ lock' = IF at[p] = "wait" THEN c ELSE NoCpu
  /\ UNCHANGED <<pid, parent, killed, priority, nextpid, at, np, queue>>

pass_end(c) ==
  /\ Scanning(c) /\ Ready(c) = {}
  /\ lock' = NoCpu /\ queue' = [queue EXCEPT ![c] = Tail(@)] /\ pos' = [pos EXCEPT ![c] = 0]
  /\ UNCHANGED <<table, at, np, proc>>

\* sched(): the CPU goes back to its scheduler, which holds the lock then.
GiveUp(c) == lock' = c /\ proc' = [proc EXCEPT ![c] = None] /\ UNCHANGED <<queue, pos>>
-----------------------------------------------------------------------------
\* Processes.  p runs on c; a timer interrupt makes it yield anywhere outside of the lock.
Runs(c, p) == proc[c] = p /\ p # None
InUser(c, p) == Runs(c, p) /\ at[p] = "user" /\ lock = NoCpu
\* trap: a process that was killed enters exit and no other system call.  A call that the
\* kill overtakes after this check is as good as one made before the kill.
MayCall(c, p) == InUser(c, p) /\ ~killed[p]

yield(c, p) ==
  /\ Runs(c, p) /\ lock = NoCpu
  /\ state' = [state EXCEPT ![p] = "RUNNABLE"] /\ GiveUp(c)
  /\ UNCHANGED <<pid, parent, chan, killed, priority, nextpid, at, np>>

\* fork: allocproc takes q under the lock, ...
fork(c, p, q) ==
  /\ MayCall(c, p) /\ nextpid <= MaxPid /\ IsFirst(q, {r \in Procs : state[r] = "UNUSED"})
  /\ state' = [state EXCEPT ![q] = "EMBRYO"] /\ pid' = [pid EXCEPT ![q] = nextpid]
  /\ priority' = [priority EXCEPT ![q] = 0] /\ nextpid' = nextpid + 1
  /\ at' = [at EXCEPT ![p] = "fork"] /\ np' = [np EXCEPT ![p] = q]
  /\ UNCHANGED <<parent, chan, killed, lock, sched>>

\* ... kalloc or copyuvm fails, without the lock, ...
fork_fail(c, p) ==
  /\ Runs(c, p) /\ at[p] = "fork"
  /\ state' = [state EXCEPT ![np[p]] = "UNUSED"]
  /\ at' = [at EXCEPT ![p] = "user"] /\ np' = [np EXCEPT ![p] = None]
  /\ UNCHANGED <<pid, parent, chan, killed, priority, nextpid, lock, sched>>

\* ... or the process is filled in, without the lock, ...
fork_copy(c, p) ==
  /\ Runs(c, p) /\ at[p] = "fork"
  /\ parent' = [parent EXCEPT ![np[p]] = p] /\ at' = [at EXCEPT ![p] = "forked"]
  /\ UNCHANGED <<state, pid, chan, killed, priority, nextpid, np, lock, sched>>

\* ... and may run.
fork_run(c, p) ==
  /\ Runs(c, p) /\ lock = NoCpu /\ at[p] = "forked"
  /\ state' = [state EXCEPT ![np[p]] = "RUNNABLE"]
  /\ at' = [at EXCEPT ![p] = "user"] /\ np' = [np EXCEPT ![p] = None]
  /\ UNCHANGED <<pid, parent, chan, killed, priority, nextpid, lock, sched>>

Children(p) == {q \in Procs : parent[q] = p}
Zombies(p) == {q \in Children(p) : state[q] = "ZOMBIE"}
Sleepers(ch) == {q \in Procs : state[q] = "SLEEPING" /\ chan[q] = ch}
Woken_MutNoParent(p) ==   \* mutant: the parent is not woken
  IF Zombies(p) # {} THEN Sleepers(initproc) ELSE {}
\* What exit passes to wakeup1: the parent, and init if it gets a zombie.
Woken(p) == Sleepers(parent[p]) \cup IF Zombies(p) # {} THEN Sleepers(initproc) ELSE {}

NewParent_MutKept(p, q) == parent[q]   \* mutant: abandoned children are not passed on
NewParent(p, q) == IF q \in Children(p) THEN initproc ELSE parent[q]

\* init never exits.
exit(c, p) ==
  /\ InUser(c, p) /\ p # initproc
  /\ state' = [q \in Procs |-> IF q = p THEN "ZOMBIE"
                               ELSE IF q \in Woken(p) THEN "RUNNABLE" ELSE state[q]]
  /\ parent' = [q \in Procs |-> NewParent(p, q)]
  /\ GiveUp(c)
  /\ UNCHANGED <<pid, chan, killed, priority, nextpid, at, np>>

wait(c, p) ==
  /\ MayCall(c, p) /\ at' = [at EXCEPT ![p] = "wait"] /\ lock' = c
  /\ UNCHANGED <<table, np, sched>>

\* One turn of the loop in wait(), under the lock: q is reaped, or wait returns -1, or
\* the process sleeps.
Waiting(c, p) == Runs(c, p) /\ lock = c /\ at[p] = "wait"

reap_MutReturn(c, p, q) ==   \* mutant: wait returns the pid before it clears the entry
  /\ Waiting(c, p) /\ IsFirst(q, Zombies(p))
  /\ at' = [at EXCEPT ![p] = "user"] /\ lock' = NoCpu /\ UNCHANGED <<table, np, sched>>
KilledCleared_MutSelf(p, q) == [killed EXCEPT ![p] = FALSE]   \* mutant: clears its own flag
KilledCleared(p, q) == [killed EXCEPT ![q] = FALSE]
reap(c, p, q) ==
  /\ Waiting(c, p) /\ IsFirst(q, Zombies(p))
  /\ state' = [state EXCEPT ![q] = "UNUSED"] /\ pid' = [pid EXCEPT ![q] = 0]
  /\ parent' = [parent EXCEPT ![q] = None] /\ killed' = KilledCleared(p, q)
  /\ at' = [at EXCEPT ![p] = "user"] /\ lock' = NoCpu
  /\ UNCHANGED <<chan, priority, nextpid, np, sched>>

wait_fail(c, p) ==
  /\ Waiting(c, p) /\ Zombies(p) = {} /\ (Children(p) = {} \/ killed[p])
  /\ at' = [at EXCEPT ![p] = "user"] /\ lock' = NoCpu /\ UNCHANGED <<table, np, sched>>

wait_sleep(c, p) ==
  /\ Waiting(c, p) /\ Zombies(p) = {} /\ Children(p) # {} /\ ~killed[p]
  /\ state' = [state EXCEPT ![p] = "SLEEPING"] /\ chan' = [chan EXCEPT ![p] = p] /\ GiveUp(c)
  /\ UNCHANGED <<pid, parent, killed, priority, nextpid, at, np>>

Wakes_MutRunning(q) == state[q] \in {"SLEEPING", "RUNNING"}   \* mutant: woken while it runs
Wakes(q) == state[q] = "SLEEPING"

\* The first entry with this pid, whatever its state.  init is not killed: its exit
\* would end in a panic.
kill(c, p, q) ==
  /\ MayCall(c, p) /\ pid[q] \in 2..MaxPid /\ IsFirst(q, {r \in Procs : pid[r] = pid[q]})
  /\ killed' = [killed EXCEPT ![q] = TRUE]
  /\ state' = [state EXCEPT ![q] = IF Wakes(q) THEN "RUNNABLE" ELSE @]
  /\ UNCHANGED <<pid, parent, chan, priority, nextpid, at, np, lock, sched>>

set_prio(c, p, n) ==
  /\ MayCall(c, p) /\ priority' = [priority EXCEPT ![p] = n]
  /\ UNCHANGED <<state, pid, parent, chan, killed, nextpid, at, np, lock, sched>>
-----------------------------------------------------------------------------
SchedulerStep(c) == snapshot(c) \/ pass_end(c) \/ \E p \in Procs : switch(c, p)
CallStep(c, p) ==
  \/ exit(c, p) \/ wait(c, p)
  \/ \E q \in Procs : fork(c, p, q) \/ kill(c, p, q)
  \/ \E n \in Priorities : set_prio(c, p, n)
ForkStep(c, p) == fork_fail(c, p) \/ fork_copy(c, p) \/ fork_run(c, p)
WaitStep(c, p) == wait_fail(c, p) \/ wait_sleep(c, p) \/ \E q \in Procs : reap(c, p, q)

Next ==
  \E c \in CPUs :
    \/ SchedulerStep(c)
    \/ \E p \in Procs :
         yield(c, p) \/ CallStep(c, p) \/ ForkStep(c, p) \/ WaitStep(c, p)

\* Every CPU goes on, and its timer interrupts, which wait while the lock is held, come.
\* Between two of them processes in fork or killed come further, and init calls wait.
Fairness ==
  \A c \in CPUs :
    /\ WF_vars(SchedulerStep(c)) /\ WF_vars(\E p \in Procs : WaitStep(c, p))
    /\ SF_vars(\E p \in Procs : yield(c, p)) /\ SF_vars(\E p \in Procs : ForkStep(c, p))
    /\ SF_vars(\E p \in Procs : killed[p] /\ exit(c, p)) /\ SF_vars(wait(c, initproc))

Spec == Init /\ [][Next]_vars /\ Fairness
-----------------------------------------------------------------------------
TypeOK ==
  /\ state \in [Procs -> {"UNUSED", "EMBRYO", "SLEEPING", "RUNNABLE", "RUNNING", "ZOMBIE"}]
  /\ pid \in [Procs -> 0..MaxPid] /\ nextpid \in 2..MaxPid + 1
  /\ parent \in [Procs -> Procs \cup {None}] /\ chan \in [Procs -> Procs \cup {None}]
  /\ killed \in [Procs -> BOOLEAN] /\ priority \in [Procs -> Priorities]
  /\ at \in [Procs -> {"user", "fork", "forked", "wait"}] /\ np \in [Procs -> Procs \cup {None}]
  /\ lock \in CPUs \cup {NoCpu} /\ proc \in [CPUs -> Procs \cup {None}]
  /\ pos \in [CPUs -> 0..NPROC]

\* A process runs on one CPU, exactly while it is RUNNING, although the scheduler
\* decides on priorities it collected before it released the lock (proc.c:348-392).
RunsOnce ==
  /\ \A p \in Procs : state[p] = "RUNNING" <=> \E c \in CPUs : proc[c] = p
  /\ \A c, d \in CPUs : proc[c] = proc[d] /\ proc[c] # None => c = d

\* No wakeup is lost: nobody sleeps in wait() who has a child to reap, was killed, or
\* has no child at all (proc.c:261-268, 312-318).
WaitersHaveNoWork ==
  \A p \in Procs : state[p] = "SLEEPING" =>
    /\ chan[p] = p /\ ~killed[p]
    /\ \E q \in Procs : parent[q] = p
    /\ \A q \in Procs : parent[q] = p => state[q] # "ZOMBIE"

\* A process other than init has a parent that has not exited; get_proc_info relies on
\* it (proc.c:619), and so does wait: every zombie has someone to reap it.
ParentAlive ==
  \A p \in Procs \ {initproc} : state[p] \notin {"UNUSED", "EMBRYO"} =>
    /\ parent[p] # None /\ pid[p] # 0
    /\ state[parent[p]] \notin {"UNUSED", "EMBRYO", "ZOMBIE"}

\* The scheduler starves nobody: the last pass of a round serves the lowest priority.
NoStarvation == \A p \in Procs : state[p] = "RUNNABLE" ~> state[p] # "RUNNABLE"

\* A process that is killed exits, also one that sleeps.
KilledExits ==
  \A p \in Procs : (killed[p] /\ state[p] # "UNUSED") ~> (state[p] \in {"ZOMBIE", "UNUSED"})

\* init reaps the zombies whose parent has exited.
OrphansReaped ==
  \A p \in Procs : (state[p] = "ZOMBIE" /\ parent[p] = initproc) ~> (state[p] = "UNUSED")
=============================================================================
