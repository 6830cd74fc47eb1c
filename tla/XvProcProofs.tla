---------------------------- MODULE XvProcProofs ----------------------------
(***************************************************************************)
(* The safety of the process table for any number of CPUs and processes.   *)
(***************************************************************************)
EXTENDS XvProc, TLAPS

Dead == {"UNUSED", "EMBRYO", "ZOMBIE"}

\* The process in wait() is the one to which its CPU owes the lock.
LockOK ==
  \A c \in CPUs : proc[c] # None => (at[proc[c]] = "wait" <=> lock = c)

\* A process between the steps of fork owns one EMBRYO.
ForkOK ==
  \A p \in Procs :
    /\ state[p] \in Dead => at[p] = "user"
    /\ at[p] \in {"fork", "forked"} <=> np[p] # None
    /\ np[p] # None => state[np[p]] = "EMBRYO"
    /\ \A q \in Procs : np[p] = np[q] /\ np[p] # None => p = q
    /\ at[p] = "fork" => parent[np[p]] = None
    /\ at[p] = "forked" => parent[np[p]] = p

\* Whoever is somebody's parent has not exited, init above all.
FamilyOK ==
  /\ state[initproc] \notin Dead /\ parent[initproc] = None
  /\ \A p \in Procs :
       /\ parent[p] # p /\ (parent[p] # None => state[parent[p]] \notin Dead)
       /\ state[p] = "UNUSED" => parent[p] = None
       /\ state[p] # "UNUSED" => pid[p] # 0
       /\ state[p] = "SLEEPING" => at[p] = "wait"

Inv == TypeOK /\ RunsOnce /\ WaitersHaveNoWork /\ ParentAlive /\ LockOK /\ ForkOK /\ FamilyOK

\* Zenon proves the steps that do not name another prover.  Those that need arithmetic or
\* Boolean-valued variables name two, the second for when the first runs out of time.
USE ZenonT(60)

\* The process table is in order when all CPUs enter scheduler().
LEMMA InitInv == Init => Inv
BY SMTT(30), Z3T(60), XvProcAssumption DEF Init, Inv, TypeOK, RunsOnce, WaitersHaveNoWork, ParentAlive,
    LockOK, ForkOK, FamilyOK, Procs, None, initproc, NoCpu, Dead

\* Every step of the scheduler and of the system calls keeps it in order.
LEMMA StepInv == Inv /\ [Next]_vars => Inv'
<1> SUFFICES ASSUME Inv, [Next]_vars PROVE Inv' OBVIOUS
<1>1. ASSUME NEW c \in CPUs, snapshot(c) PROVE Inv'
  <2>1. TypeOK'
    BY <1>1 DEF Inv, TypeOK, snapshot, table
  <2>2. RunsOnce'
    BY <1>1 DEF Inv, RunsOnce, snapshot, table
  <2>3. WaitersHaveNoWork'
    BY <1>1 DEF Inv, WaitersHaveNoWork, snapshot, table
  <2>4. ParentAlive'
    BY <1>1 DEF Inv, ParentAlive, snapshot, table
  <2>5. LockOK'
    BY <1>1 DEF Inv, LockOK, snapshot, table
  <2>6. ForkOK'
    BY <1>1 DEF Inv, ForkOK, snapshot, table
  <2>7. FamilyOK'
    BY <1>1 DEF Inv, FamilyOK, snapshot, table
  <2> QED BY <2>1, <2>2, <2>3, <2>4, <2>5, <2>6, <2>7 DEF Inv
<1>2. ASSUME NEW c \in CPUs, pass_end(c) PROVE Inv'
  <2>1. TypeOK'
    BY SMTT(30), Z3T(60), <1>2, XvProcAssumption DEF Inv, TypeOK, pass_end, table, Procs, None, initproc,
        NoCpu, Dead
  <2>2. RunsOnce'
    BY <1>2 DEF Inv, RunsOnce, pass_end, table
  <2>3. WaitersHaveNoWork'
    BY <1>2 DEF Inv, WaitersHaveNoWork, pass_end, table
  <2>4. ParentAlive'
    BY <1>2 DEF Inv, ParentAlive, pass_end, table
  <2>5. LockOK'
    BY <1>2, XvProcAssumption DEF Inv, LockOK, TypeOK, pass_end, Scanning, NoCpu, None
  <2>6. ForkOK'
    BY <1>2 DEF Inv, ForkOK, pass_end, table
  <2>7. FamilyOK'
    BY <1>2 DEF Inv, FamilyOK, pass_end, table
  <2> QED BY <2>1, <2>2, <2>3, <2>4, <2>5, <2>6, <2>7 DEF Inv
<1>3. ASSUME NEW c \in CPUs, NEW p \in Procs, switch(c, p) PROVE Inv'
  <2>1. TypeOK'
    <3>1. /\ state' \in [Procs -> {"UNUSED", "EMBRYO", "SLEEPING", "RUNNABLE", "RUNNING", "ZOMBIE"}]
          /\ chan' \in [Procs -> Procs \cup {None}]
      BY <1>3 DEF Inv, TypeOK, switch
    <3>2. proc' \in [CPUs -> Procs \cup {None}] /\ lock' \in CPUs \cup {NoCpu}
      BY <1>3 DEF Inv, TypeOK, switch
    <3>3. pos' \in [CPUs -> 0..NPROC] BY SMTT(30), Z3T(60), <1>3, XvProcAssumption DEF Inv, TypeOK, switch, Procs
    <3> QED BY <1>3, <3>1, <3>2, <3>3 DEF Inv, TypeOK, switch
  <2>2. RunsOnce'
    <3>1. proc[c] = None /\ state[p] = "RUNNABLE" /\ \A d \in CPUs : proc[d] # p
      BY <1>3 DEF Inv, RunsOnce, switch, Scanning, IsFirst, Ready, Runnable
    <3>2. /\ proc'[c] = p /\ \A d \in CPUs : d # c => proc'[d] = proc[d]
          /\ state'[p] = "RUNNING" /\ \A r \in Procs : r # p => state'[r] = state[r]
      BY <1>3 DEF Inv, TypeOK, switch
    <3> QED BY SMTT(30), Z3T(60), <3>1, <3>2 DEF Inv, RunsOnce, None, Procs
  <2>3. WaitersHaveNoWork'
    BY SMTT(30), Z3T(60), <1>3 DEF Inv, TypeOK, WaitersHaveNoWork, switch
  <2>4. ParentAlive'
    BY SMTT(30), Z3T(60), <1>3, XvProcAssumption DEF Inv, TypeOK, ParentAlive, Procs, None, initproc, NoCpu,
        Dead, switch, Scanning, IsFirst, Ready, Runnable
  <2>5. LockOK'
    BY SMTT(30), Z3T(60), <1>3, XvProcAssumption DEF Inv, TypeOK, LockOK, Procs, None, initproc, NoCpu, Dead,
        switch, Scanning, IsFirst, Ready, Runnable
  <2>6. ForkOK'
    BY SMTT(30), Z3T(60), <1>3, XvProcAssumption DEF Inv, TypeOK, ForkOK, Procs, None, initproc, NoCpu, Dead,
        switch, Scanning, IsFirst, Ready, Runnable
  <2>7. FamilyOK'
    BY SMTT(30), Z3T(60), <1>3, XvProcAssumption DEF Inv, TypeOK, FamilyOK, Procs, None, initproc, NoCpu,
        Dead, switch, Scanning, IsFirst, Ready, Runnable
  <2> QED BY <2>1, <2>2, <2>3, <2>4, <2>5, <2>6, <2>7 DEF Inv
<1>4. ASSUME NEW c \in CPUs, NEW p \in Procs, yield(c, p) PROVE Inv'
  <2>0. state[p] = "RUNNING"
    BY <1>4 DEF Inv, RunsOnce, yield, Runs
  <2>1. TypeOK'
    BY <1>4 DEF Inv, TypeOK, yield, GiveUp
  <2>2. RunsOnce'
    BY SMTT(30), Z3T(60), <1>4, <2>0, XvProcAssumption DEF Inv, TypeOK, RunsOnce, Procs, None, initproc,
        NoCpu, Dead, yield, GiveUp, Runs
  <2>3. WaitersHaveNoWork'
    BY SMTT(30), Z3T(60), <1>4 DEF Inv, WaitersHaveNoWork, yield, GiveUp
  <2>4. ParentAlive'
    BY <1>4, <2>0 DEF Inv, TypeOK, ParentAlive, yield
  <2>5. LockOK'
    BY <1>4, <2>0, XvProcAssumption DEF Inv, TypeOK, LockOK, yield, GiveUp, Procs, None,
        initproc, NoCpu, Dead
  <2>6. ForkOK'
    BY <1>4, <2>0 DEF Inv, TypeOK, ForkOK, yield, Dead
  <2>7. FamilyOK'
    BY SMTT(30), Z3T(60), <1>4, <2>0, XvProcAssumption DEF Inv, TypeOK, FamilyOK, yield, Dead, Procs,
        initproc
  <2> QED BY <2>1, <2>2, <2>3, <2>4, <2>5, <2>6, <2>7 DEF Inv
<1>5. ASSUME NEW c \in CPUs, NEW p \in Procs, exit(c, p) PROVE Inv'
  <2>0. state[p] = "RUNNING" /\ at[p] = "user"
    BY <1>5 DEF Inv, RunsOnce, exit, InUser, Runs
  <2>1. TypeOK'
    <3>1. /\ state' \in [Procs -> {"UNUSED", "EMBRYO", "SLEEPING", "RUNNABLE", "RUNNING", "ZOMBIE"}]
          /\ parent' \in [Procs -> Procs \cup {None}]
      BY SMTT(30), Z3T(60), <1>5, XvProcAssumption DEF Inv, TypeOK, exit, NewParent, Procs, initproc
    <3> QED BY <1>5, <3>1 DEF Inv, TypeOK, exit, GiveUp
  <2>2. RunsOnce'
    BY SMTT(30), Z3T(60), <1>5, <2>0, XvProcAssumption DEF Inv, TypeOK, RunsOnce, Procs, None, initproc,
        NoCpu, Dead, exit, InUser, Runs, GiveUp, NewParent, Children, Zombies, Woken,
        Sleepers
  <2>3. WaitersHaveNoWork'
    <3> SUFFICES ASSUME NEW r \in Procs, state'[r] = "SLEEPING"
                 PROVE  /\ chan'[r] = r /\ ~killed'[r]
                        /\ \E q \in Procs : parent'[q] = r
                        /\ \A q \in Procs : parent'[q] = r => state'[q] # "ZOMBIE"
      BY DEF WaitersHaveNoWork
    <3>1. state[r] = "SLEEPING" /\ r # p /\ r \notin Woken(p) BY <1>5 DEF exit
    <3>2. chan[r] = r /\ ~killed[r] BY <3>1 DEF Inv, WaitersHaveNoWork
    <3>3. parent[p] # r /\ (r = initproc => Zombies(p) = {})
      BY <3>1, <3>2 DEF Woken, Sleepers
    <3>4. \E q \in Procs : parent'[q] = r
      BY <1>5, <3>1 DEF Inv, WaitersHaveNoWork, exit, NewParent, Children
    <3>5. ASSUME NEW q \in Procs, parent'[q] = r PROVE state'[q] # "ZOMBIE"
      <4>1. parent[q] = r \/ (parent[q] = p /\ r = initproc) BY <1>5, <3>5 DEF exit, NewParent, Children
      <4>2. q # p BY <3>3, <4>1 DEF Inv, FamilyOK
      <4>3. state[q] # "ZOMBIE"
        BY <3>1, <3>3, <4>1 DEF Inv, WaitersHaveNoWork, Zombies, Children
      <4> QED BY <1>5, <4>2, <4>3 DEF exit
    <3> QED BY <1>5, <3>2, <3>4, <3>5 DEF exit
  <2>4. ParentAlive'
    BY SMTT(30), Z3T(60), <1>5, <2>0, XvProcAssumption DEF Inv, TypeOK, FamilyOK, ParentAlive, Procs, None,
        initproc, NoCpu, Dead, exit, InUser, Runs, GiveUp, NewParent, Children, Zombies,
        Woken, Sleepers
  <2>5. LockOK'
    BY <1>5, <2>0, XvProcAssumption DEF Inv, TypeOK, LockOK, Procs, None, initproc, NoCpu,
        Dead, exit, InUser, Runs, GiveUp, NewParent, Children, Zombies, Woken, Sleepers
  <2>6. ForkOK'
    <3>1. \A r \in Procs :
            /\ state'[r] \in Dead => r = p \/ state[r] \in Dead
            /\ state[r] = "EMBRYO" => state'[r] = "EMBRYO"
      BY <1>5, <2>0 DEF exit, Woken, Sleepers, Dead
    <3>2. \A r \in Procs : parent[r] # p => parent'[r] = parent[r] BY <1>5 DEF exit, NewParent, Children
    <3>3. at' = at /\ np' = np BY <1>5 DEF exit
    <3>4. ASSUME NEW r \in Procs, np[r] # None
          PROVE  /\ state'[np[r]] = "EMBRYO"
                 /\ at[r] = "fork" => parent'[np[r]] = None
                 /\ at[r] = "forked" => parent'[np[r]] = r
      <4>1. np[r] \in Procs /\ state[np[r]] = "EMBRYO" BY <3>4 DEF Inv, TypeOK, ForkOK
      <4>2. /\ at[r] = "fork" => parent[np[r]] = None
            /\ at[r] = "forked" => parent[np[r]] = r
        BY DEF Inv, ForkOK
      <4>3. p # None BY SMTT(30), Z3T(60) DEF Procs, None
      <4> QED BY <2>0, <3>1, <3>2, <4>1, <4>2, <4>3
    <3>5. \A r \in Procs : state'[r] \in Dead => at[r] = "user" BY <2>0, <3>1 DEF Inv, ForkOK
    <3>6. \A r \in Procs : at[r] \in {"fork", "forked"} <=> np[r] # None BY DEF Inv, ForkOK
    <3>7. \A r, s \in Procs : np[r] = np[s] /\ np[r] # None => r = s BY DEF Inv, ForkOK
    <3> QED BY <3>3, <3>4, <3>5, <3>6, <3>7 DEF ForkOK
  <2>7. FamilyOK'
    BY SMTT(30), Z3T(60), <1>5, <2>0, XvProcAssumption DEF Inv, TypeOK, FamilyOK, Procs, None, initproc,
        NoCpu, Dead, exit, InUser, Runs, GiveUp, NewParent, Children, Zombies, Woken,
        Sleepers
  <2> QED BY <2>1, <2>2, <2>3, <2>4, <2>5, <2>6, <2>7 DEF Inv
<1>6. ASSUME NEW c \in CPUs, NEW p \in Procs, wait(c, p) PROVE Inv'
  <2>0. state[p] = "RUNNING" /\ at[p] = "user"
    BY <1>6 DEF Inv, RunsOnce, wait, MayCall, InUser, Runs
  <2>1. TypeOK'
    BY <1>6 DEF Inv, TypeOK, wait, table, sched
  <2>2. RunsOnce'
    BY <1>6 DEF Inv, RunsOnce, wait, table, sched
  <2>3. WaitersHaveNoWork'
    BY <1>6 DEF Inv, WaitersHaveNoWork, wait, table, sched
  <2>4. ParentAlive'
    BY <1>6 DEF Inv, ParentAlive, wait, table, sched
  <2>5. LockOK'
    BY SMTT(30), Z3T(60), <1>6, <2>0, XvProcAssumption DEF Inv, TypeOK, RunsOnce, LockOK, Procs, None,
        initproc, NoCpu, Dead, wait, MayCall, InUser, Runs, table, sched
  <2>6. ForkOK'
    BY <1>6, <2>0 DEF Inv, TypeOK, ForkOK, wait, table, Dead
  <2>7. FamilyOK'
    BY <1>6, <2>0 DEF Inv, TypeOK, FamilyOK, wait, table, sched
  <2> QED BY <2>1, <2>2, <2>3, <2>4, <2>5, <2>6, <2>7 DEF Inv
<1>7. ASSUME NEW c \in CPUs, NEW p \in Procs, NEW q \in Procs, fork(c, p, q) PROVE Inv'
  <2>0. state[p] = "RUNNING" /\ at[p] = "user"
    BY <1>7 DEF Inv, RunsOnce, fork, MayCall, InUser, Runs
  <2>1. TypeOK'
    <3>1. nextpid' \in 2..MaxPid + 1 /\ pid' \in [Procs -> 0..MaxPid]
      BY SMTT(30), Z3T(60), <1>7, XvProcAssumption DEF Inv, TypeOK, fork
    <3>2. state' \in [Procs -> {"UNUSED", "EMBRYO", "SLEEPING", "RUNNABLE", "RUNNING", "ZOMBIE"}]
      BY <1>7 DEF Inv, TypeOK, fork
    <3>3. /\ priority' \in [Procs -> Priorities] /\ np' \in [Procs -> Procs \cup {None}]
          /\ at' \in [Procs -> {"user", "fork", "forked", "wait"}]
      BY <1>7, XvProcAssumption DEF Inv, TypeOK, fork
    <3> QED BY <1>7, <3>1, <3>2, <3>3 DEF Inv, TypeOK, fork, sched
  <2>2. RunsOnce'
    BY SMTT(30), Z3T(60), <1>7, <2>0, XvProcAssumption DEF Inv, TypeOK, RunsOnce, Procs, None, initproc,
        NoCpu, Dead, fork, MayCall, InUser, Runs, IsFirst, sched
  <2>3. WaitersHaveNoWork'
    BY SMTT(30), Z3T(60), <1>7 DEF Inv, WaitersHaveNoWork, fork, sched
  <2>4. ParentAlive'
    BY <1>7, <2>0, XvProcAssumption DEF Inv, TypeOK, ParentAlive, Procs, None, initproc,
        NoCpu, Dead, fork, MayCall, InUser, Runs, IsFirst, sched
  <2>5. LockOK'
    BY <1>7, <2>0 DEF Inv, TypeOK, LockOK, fork, sched
  <2>6. ForkOK'
    <3>1. q \in Procs /\ state[q] = "UNUSED" /\ p # q /\ parent[q] = None /\ np[p] = None
      BY <1>7, <2>0 DEF Inv, FamilyOK, ForkOK, fork, IsFirst
    <3>2. \A r \in Procs : np[r] # q BY SMTT(30), Z3T(60), <3>1 DEF Inv, ForkOK, None, Procs
    <3>3. \A r \in Procs : r # p => at'[r] = at[r] /\ np'[r] = np[r]
      BY <1>7 DEF Inv, TypeOK, fork
    <3>4. at'[p] = "fork" /\ np'[p] = q /\ parent' = parent BY <1>7 DEF Inv, TypeOK, fork
    <3>5. state'[q] = "EMBRYO" /\ \A r \in Procs : r # q => state'[r] = state[r]
      BY <1>7 DEF Inv, TypeOK, fork
    <3>6. at[q] = "user" BY <3>1 DEF Inv, ForkOK, Dead
    <3> SUFFICES ASSUME NEW r \in Procs
                 PROVE  /\ state'[r] \in Dead => at'[r] = "user"
                        /\ at'[r] \in {"fork", "forked"} <=> np'[r] # None
                        /\ np'[r] # None => state'[np'[r]] = "EMBRYO"
                        /\ \A s \in Procs : np'[r] = np'[s] /\ np'[r] # None => r = s
                        /\ at'[r] = "fork" => parent'[np'[r]] = None
                        /\ at'[r] = "forked" => parent'[np'[r]] = r
      BY DEF ForkOK
    <3>7. CASE r = p
      BY <2>0, <3>1, <3>2, <3>3, <3>4, <3>5, <3>7 DEF Dead, None, Procs
    <3>8. CASE r # p
      BY SMTT(30), Z3T(60), <3>1, <3>2, <3>3, <3>4, <3>5, <3>6, <3>8 DEF Inv, TypeOK, ForkOK
    <3> QED BY <3>7, <3>8
  <2>7. FamilyOK'
    BY SMTT(30), Z3T(60), <1>7, <2>0, XvProcAssumption DEF Inv, TypeOK, FamilyOK, Procs, None, initproc,
        NoCpu, Dead, fork, MayCall, InUser, Runs, IsFirst, sched
  <2> QED BY <2>1, <2>2, <2>3, <2>4, <2>5, <2>6, <2>7 DEF Inv
<1>8. ASSUME NEW c \in CPUs, NEW p \in Procs, NEW q \in Procs, kill(c, p, q) PROVE Inv'
  <2>0. state[p] = "RUNNING" /\ at[p] = "user"
    BY <1>8 DEF Inv, RunsOnce, kill, MayCall, InUser, Runs
  <2>1. TypeOK'
    <3>1. killed' \in [Procs -> BOOLEAN] BY <1>8, Zenon DEF Inv, TypeOK, kill
    <3>2. state' \in [Procs -> {"UNUSED", "EMBRYO", "SLEEPING", "RUNNABLE", "RUNNING", "ZOMBIE"}]
      BY <1>8 DEF Inv, TypeOK, kill, Wakes
    <3> QED BY <1>8, <3>1, <3>2 DEF Inv, TypeOK, kill, sched
  <2>2. RunsOnce'
    BY <1>8, <2>0 DEF Inv, TypeOK, RunsOnce, kill, sched, Wakes
  <2>3. WaitersHaveNoWork'
    BY SMTT(30), Z3T(60), <1>8, <2>0 DEF Inv, TypeOK, WaitersHaveNoWork, kill, sched, Wakes
  <2>4. ParentAlive'
    BY SMTT(30), Z3T(60), <1>8 DEF Inv, ParentAlive, kill, sched, Wakes
  <2>5. LockOK'
    BY <1>8 DEF Inv, LockOK, kill, sched, Wakes
  <2>6. ForkOK'
    BY <1>8, <2>0, XvProcAssumption DEF Inv, TypeOK, ForkOK, kill, sched, Wakes, Procs,
        None, initproc, NoCpu, Dead
  <2>7. FamilyOK'
    BY SMTT(30), Z3T(60), <1>8, <2>0, XvProcAssumption DEF Inv, TypeOK, FamilyOK, kill, sched, Wakes, Procs,
        None, initproc, NoCpu, Dead
  <2> QED BY <2>1, <2>2, <2>3, <2>4, <2>5, <2>6, <2>7 DEF Inv
<1>9. ASSUME NEW c \in CPUs, NEW p \in Procs, NEW n \in Priorities, set_prio(c, p, n) PROVE Inv'
  <2>1. TypeOK'
    BY <1>9 DEF Inv, TypeOK, set_prio, sched
  <2>2. RunsOnce'
    BY <1>9 DEF Inv, RunsOnce, set_prio, sched
  <2>3. WaitersHaveNoWork'
    BY <1>9 DEF Inv, WaitersHaveNoWork, set_prio, sched
  <2>4. ParentAlive'
    BY <1>9 DEF Inv, ParentAlive, set_prio, sched
  <2>5. LockOK'
    BY <1>9 DEF Inv, LockOK, set_prio, sched
  <2>6. ForkOK'
    BY <1>9 DEF Inv, ForkOK, set_prio, sched
  <2>7. FamilyOK'
    BY <1>9 DEF Inv, FamilyOK, set_prio, sched
  <2> QED BY <2>1, <2>2, <2>3, <2>4, <2>5, <2>6, <2>7 DEF Inv
<1>10. ASSUME NEW c \in CPUs, NEW p \in Procs, fork_fail(c, p) PROVE Inv'
  <2>0. state[p] = "RUNNING" /\ np[p] \in Procs /\ np[p] # p
        /\ state[np[p]] = "EMBRYO" /\ parent[np[p]] = None
    BY SMTT(30), Z3T(60), <1>10 DEF Inv, RunsOnce, TypeOK, ForkOK, fork_fail, Runs, None
  <2>1. TypeOK'
    BY <1>10 DEF Inv, TypeOK, fork_fail, sched
  <2>2. RunsOnce'
    BY <1>10, <2>0 DEF Inv, TypeOK, RunsOnce, fork_fail, sched
  <2>3. WaitersHaveNoWork'
    BY <1>10, <2>0 DEF Inv, TypeOK, WaitersHaveNoWork, fork_fail, sched
  <2>4. ParentAlive'
    BY <1>10, <2>0 DEF Inv, TypeOK, ParentAlive, fork_fail, sched
  <2>5. LockOK'
    BY SMTT(30), Z3T(60), <1>10 DEF Inv, LockOK, fork_fail, sched
  <2>6. ForkOK'
    BY SMTT(30), Z3T(60), <1>10, <2>0, XvProcAssumption DEF Inv, TypeOK, ForkOK, fork_fail, sched, Procs,
        None, initproc, NoCpu, Dead
  <2>7. FamilyOK'
    BY SMTT(30), Z3T(60), <1>10, <2>0, XvProcAssumption DEF Inv, TypeOK, FamilyOK, fork_fail, sched, Procs,
        None, initproc, NoCpu, Dead
  <2> QED BY <2>1, <2>2, <2>3, <2>4, <2>5, <2>6, <2>7 DEF Inv
<1>11. ASSUME NEW c \in CPUs, NEW p \in Procs, fork_copy(c, p) PROVE Inv'
  <2>0. state[p] = "RUNNING" /\ np[p] \in Procs /\ np[p] # p
        /\ state[np[p]] = "EMBRYO" /\ parent[np[p]] = None
    BY SMTT(30), Z3T(60), <1>11 DEF Inv, RunsOnce, TypeOK, ForkOK, fork_copy, Runs, None
  <2>1. TypeOK'
    BY <1>11 DEF Inv, TypeOK, fork_copy, sched
  <2>2. RunsOnce'
    BY <1>11 DEF Inv, RunsOnce, fork_copy, sched
  <2>3. WaitersHaveNoWork'
    BY SMTT(30), Z3T(60), <1>11, <2>0, XvProcAssumption DEF Inv, TypeOK, WaitersHaveNoWork, fork_copy, sched,
        Procs, None, initproc, NoCpu, Dead
  <2>4. ParentAlive'
    BY <1>11, <2>0 DEF Inv, TypeOK, ParentAlive, fork_copy, sched
  <2>5. LockOK'
    BY SMTT(30), Z3T(60), <1>11 DEF Inv, LockOK, fork_copy, sched
  <2>6. ForkOK'
    BY <1>11, <2>0 DEF Inv, TypeOK, ForkOK, fork_copy, sched
  <2>7. FamilyOK'
    BY SMTT(30), Z3T(60), <1>11, <2>0, XvProcAssumption DEF Inv, TypeOK, FamilyOK, fork_copy, sched, Procs,
        None, initproc, NoCpu, Dead
  <2> QED BY <2>1, <2>2, <2>3, <2>4, <2>5, <2>6, <2>7 DEF Inv
<1>12. ASSUME NEW c \in CPUs, NEW p \in Procs, fork_run(c, p) PROVE Inv'
  <2>0. state[p] = "RUNNING" /\ np[p] \in Procs /\ np[p] # p
        /\ state[np[p]] = "EMBRYO" /\ parent[np[p]] = p
    BY SMTT(30), Z3T(60), <1>12 DEF Inv, RunsOnce, TypeOK, ForkOK, fork_run, Runs, None
  <2>1. TypeOK'
    BY <1>12 DEF Inv, TypeOK, fork_run, sched
  <2>2. RunsOnce'
    BY <1>12, <2>0 DEF Inv, TypeOK, RunsOnce, fork_run, sched
  <2>3. WaitersHaveNoWork'
    BY SMTT(30), Z3T(60), <1>12 DEF Inv, WaitersHaveNoWork, fork_run, sched
  <2>4. ParentAlive'
    BY SMTT(30), Z3T(60), <1>12, <2>0, XvProcAssumption DEF Inv, TypeOK, FamilyOK, ParentAlive, Procs, None,
        initproc, NoCpu, Dead, fork_run, Runs, sched
  <2>5. LockOK'
    BY SMTT(30), Z3T(60), <1>12 DEF Inv, LockOK, fork_run, sched
  <2>6. ForkOK'
    BY <1>12, <2>0, XvProcAssumption DEF Inv, TypeOK, ForkOK, fork_run, sched, Procs,
        None, initproc, NoCpu, Dead
  <2>7. FamilyOK'
    BY SMTT(30), Z3T(60), <1>12, <2>0, XvProcAssumption DEF Inv, TypeOK, FamilyOK, fork_run, sched, Procs,
        None, initproc, NoCpu, Dead
  <2> QED BY <2>1, <2>2, <2>3, <2>4, <2>5, <2>6, <2>7 DEF Inv
<1>13. ASSUME NEW c \in CPUs, NEW p \in Procs, wait_fail(c, p) PROVE Inv'
  <2>0. state[p] = "RUNNING" /\ at[p] = "wait"
    BY <1>13 DEF Inv, RunsOnce, wait_fail, Waiting, Runs
  <2>1. TypeOK'
    BY <1>13 DEF Inv, TypeOK, wait_fail, table, sched
  <2>2. RunsOnce'
    BY <1>13 DEF Inv, RunsOnce, wait_fail, table, sched
  <2>3. WaitersHaveNoWork'
    BY <1>13 DEF Inv, WaitersHaveNoWork, wait_fail, table, sched
  <2>4. ParentAlive'
    BY <1>13 DEF Inv, ParentAlive, wait_fail, table, sched
  <2>5. LockOK'
    BY <1>13, <2>0, XvProcAssumption DEF Inv, TypeOK, LockOK, Procs, None, initproc,
        NoCpu, Dead, wait_fail, Waiting, Runs, table, sched
  <2>6. ForkOK'
    BY <1>13, <2>0 DEF Inv, TypeOK, ForkOK, wait_fail, table, Dead
  <2>7. FamilyOK'
    BY <1>13, <2>0 DEF Inv, TypeOK, FamilyOK, wait_fail, table, Dead
  <2> QED BY <2>1, <2>2, <2>3, <2>4, <2>5, <2>6, <2>7 DEF Inv
<1>14. ASSUME NEW c \in CPUs, NEW p \in Procs, wait_sleep(c, p) PROVE Inv'
  <2>0. state[p] = "RUNNING" /\ at[p] = "wait"
    BY <1>14 DEF Inv, RunsOnce, wait_sleep, Waiting, Runs
  <2>1. TypeOK'
    BY <1>14 DEF Inv, TypeOK, wait_sleep, GiveUp
  <2>2. RunsOnce'
    BY SMTT(30), Z3T(60), <1>14, <2>0, XvProcAssumption DEF Inv, TypeOK, RunsOnce, Procs, None, initproc,
        NoCpu, Dead, wait_sleep, Waiting, Runs, GiveUp, Children, Zombies
  <2>3. WaitersHaveNoWork'
    <3> SUFFICES ASSUME NEW r \in Procs, state'[r] = "SLEEPING"
                 PROVE  /\ chan'[r] = r /\ ~killed'[r]
                        /\ \E q \in Procs : parent'[q] = r
                        /\ \A q \in Procs : parent'[q] = r => state'[q] # "ZOMBIE"
      BY DEF WaitersHaveNoWork
    <3>1. CASE r = p BY <1>14, <3>1 DEF Inv, TypeOK, wait_sleep, Children, Zombies
    <3>2. CASE r # p BY <1>14, <3>2 DEF Inv, TypeOK, WaitersHaveNoWork, wait_sleep
    <3> QED BY <3>1, <3>2
  <2>4. ParentAlive'
    BY <1>14, <2>0 DEF Inv, TypeOK, ParentAlive, wait_sleep, GiveUp
  <2>5. LockOK'
    BY <1>14, <2>0, XvProcAssumption DEF Inv, TypeOK, LockOK, Procs, None, initproc,
        NoCpu, Dead, wait_sleep, Waiting, Runs, GiveUp, Children, Zombies
  <2>6. ForkOK'
    BY <1>14, <2>0, XvProcAssumption DEF Inv, TypeOK, ForkOK, wait_sleep, GiveUp, Procs,
        None, initproc, NoCpu, Dead
  <2>7. FamilyOK'
    BY SMTT(30), Z3T(60), <1>14, <2>0, XvProcAssumption DEF Inv, TypeOK, FamilyOK, wait_sleep, GiveUp, Procs,
        None, initproc, NoCpu, Dead
  <2> QED BY <2>1, <2>2, <2>3, <2>4, <2>5, <2>6, <2>7 DEF Inv
<1>15. ASSUME NEW c \in CPUs, NEW p \in Procs, NEW q \in Procs, reap(c, p, q) PROVE Inv'
  <2>0. state[p] = "RUNNING" /\ at[p] = "wait"
    BY <1>15 DEF Inv, RunsOnce, reap, Waiting, Runs
  <2>1. TypeOK'
    <3>1. killed' \in [Procs -> BOOLEAN] BY <1>15, Zenon DEF Inv, TypeOK, reap, KilledCleared
    <3>2. /\ state' \in [Procs -> {"UNUSED", "EMBRYO", "SLEEPING", "RUNNABLE", "RUNNING", "ZOMBIE"}]
          /\ pid' \in [Procs -> 0..MaxPid] /\ parent' \in [Procs -> Procs \cup {None}]
          /\ at' \in [Procs -> {"user", "fork", "forked", "wait"}]
      BY SMTT(30), Z3T(60), <1>15, XvProcAssumption DEF Inv, TypeOK, reap
    <3> QED BY <1>15, <3>1, <3>2 DEF Inv, TypeOK, reap, sched
  <2>2. RunsOnce'
    BY SMTT(30), Z3T(60), <1>15, <2>0, XvProcAssumption DEF Inv, TypeOK, RunsOnce, Procs, None, initproc,
        NoCpu, Dead, reap, KilledCleared, Waiting, Runs, IsFirst, Children, Zombies, sched
  <2>3. WaitersHaveNoWork'
    BY SMTT(30), Z3T(60), <1>15, <2>0, XvProcAssumption DEF Inv, TypeOK, WaitersHaveNoWork, Procs, None,
        initproc, NoCpu, Dead, reap, KilledCleared, Waiting, Runs, IsFirst, Children,
        Zombies, sched
  <2>4. ParentAlive'
    BY <1>15, <2>0, XvProcAssumption DEF Inv, TypeOK, ParentAlive, Procs, None, initproc,
        NoCpu, Dead, reap, KilledCleared, Waiting, Runs, IsFirst, Children, Zombies, sched
  <2>5. LockOK'
    BY <1>15, <2>0, XvProcAssumption DEF Inv, TypeOK, LockOK, Procs, None, initproc,
        NoCpu, Dead, reap, KilledCleared, Waiting, Runs, IsFirst, Children, Zombies, sched
  <2>6. ForkOK'
    BY SMTT(30), Z3T(60), <1>15, <2>0, XvProcAssumption DEF Inv, TypeOK, ForkOK, Procs, None, initproc,
        NoCpu, Dead, reap, KilledCleared, Waiting, Runs, IsFirst, Children, Zombies, sched
  <2>7. FamilyOK'
    BY SMTT(30), Z3T(60), <1>15, <2>0, XvProcAssumption DEF Inv, TypeOK, FamilyOK, Procs, None, initproc,
        NoCpu, Dead, reap, KilledCleared, Waiting, Runs, IsFirst, Children, Zombies, sched
  <2> QED BY <2>1, <2>2, <2>3, <2>4, <2>5, <2>6, <2>7 DEF Inv
<1>16. CASE UNCHANGED vars
  <2>0. UNCHANGED <<table, at, np, lock, sched>> BY <1>16 DEF vars
  <2>1. TypeOK' BY <2>0 DEF Inv, TypeOK, table, sched
  <2>2. RunsOnce' BY <2>0 DEF Inv, RunsOnce, table, sched
  <2>3. WaitersHaveNoWork' BY <2>0 DEF Inv, WaitersHaveNoWork, table
  <2>4. ParentAlive' BY <2>0 DEF Inv, ParentAlive, table
  <2>5. LockOK' BY <2>0 DEF Inv, LockOK, table, sched
  <2>6. ForkOK' BY <2>0 DEF Inv, ForkOK, table
  <2>7. FamilyOK' BY <2>0 DEF Inv, FamilyOK, table
  <2> QED BY <2>1, <2>2, <2>3, <2>4, <2>5, <2>6, <2>7 DEF Inv
<1> QED BY <1>1, <1>2, <1>3, <1>4, <1>5, <1>6, <1>7, <1>8, <1>9, <1>10, <1>11, <1>12,
    <1>13, <1>14, <1>15, <1>16 DEF Next, SchedulerStep, CallStep, ForkStep, WaitStep

\* On any number of CPUs and with a table of any size the fields keep their types and a
\* process runs on one CPU at a time: no two schedulers pick the same entry.
THEOREM SchedulersExclude == Spec => [](TypeOK /\ RunsOnce)
<1>1. Inv => TypeOK /\ RunsOnce BY DEF Inv
<1> QED BY <1>1, InitInv, StepInv, PTL DEF Spec

\* No wakeup of a process in wait() is lost: exit() and kill() find it asleep or not yet
\* past its test, whatever the CPUs do between the scan and the sleep.
THEOREM WaitMissesNoExit == Spec => []WaitersHaveNoWork
<1>1. Inv => WaitersHaveNoWork BY DEF Inv
<1> QED BY <1>1, InitInv, StepInv, PTL DEF Spec

\* Every process but init has a parent that has not exited: exit() hands the children to
\* init in the critical section in which it becomes a zombie.
THEOREM NobodyIsOrphaned == Spec => []ParentAlive
<1>1. Inv => ParentAlive BY DEF Inv
<1> QED BY <1>1, InitInv, StepInv, PTL DEF Spec
=============================================================================
