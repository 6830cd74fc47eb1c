------------------------------ MODULE SemThreads ------------------------------
(***************************************************************************)
(* The threads of the two programs that use SSU_Sem (hw4/3): a main thread *)
(* that creates and joins children, all of them synchronised by the global *)
(* semaphores child and parent.  What a thread does is a sequence of       *)
(* operations; which program runs, Programs[program], is chosen in         *)
(* TestInit.                                                               *)
(***************************************************************************)
EXTENDS SemTests

VARIABLES program,    \* the program that runs
          pc,         \* pc[t]: index of t's next operation
          created,    \* threads that exist
          out,        \* lines on stdout, by the thread that printed
          parentValue, parentWaiters, parentWoken   \* SSU_Sem parent; child is value, waiters, woken

parentvars == <<parentValue, parentWaiters, parentWoken>>
parent == INSTANCE SSU_Sem
            WITH InitValue <- 0, value <- parentValue, waiters <- parentWaiters, woken <- parentWoken

\* Both semaphores are initialized with 0: SSU_Sem_init(&child, 0) and SSU_Sem_init(&parent, 0).
TestInit ==
  /\ program \in DOMAIN Programs
  /\ pc = [t \in Threads |-> 1]
  /\ created = {main}
  /\ spuriousCnt = 0
  /\ out = <<>>
  /\ value = 0 /\ cond!Init
  /\ parent!SSU_Sem_init

Ops(t) == Programs[program][t]
Blocked(t) == t \in waiters \cup woken \cup parentWaiters \cup parentWoken
Finished(t) == pc[t] > Len(Ops(t)) /\ ~Blocked(t)

\* Thread t is about to run operation op.
At(t, op) ==
  /\ t \in created /\ ~Blocked(t)
  /\ pc[t] <= Len(Ops(t)) /\ Ops(t)[pc[t]] = op
  /\ pc' = [pc EXCEPT ![t] = @ + 1]
  /\ UNCHANGED spuriousCnt

create(t) == \E u \in Children :
  /\ At(t, <<"create", u>>)
  /\ created' = created \cup {u}
  /\ UNCHANGED <<out, svars, parentvars>>

join(t) == \E u \in Children :
  /\ At(t, <<"join", u>>) /\ Finished(u)
  /\ UNCHANGED <<created, out, svars, parentvars>>

print(t) ==
  /\ At(t, <<"print">>)
  /\ out' = Append(out, t)
  /\ UNCHANGED <<created, svars, parentvars>>

down(t) ==
  \/ At(t, <<"down", "child">>) /\ SSU_Sem_down(t) /\ UNCHANGED <<created, out, parentvars>>
  \/ At(t, <<"down", "parent">>) /\ parent!SSU_Sem_down(t) /\ UNCHANGED <<created, out, svars>>

wake(t) ==
  /\ \/ down_return(t) /\ UNCHANGED parentvars
     \/ parent!down_return(t) /\ UNCHANGED svars
  /\ UNCHANGED <<pc, created, spuriousCnt, out>>

up(t) ==
  \/ At(t, <<"up", "child">>) /\ SSU_Sem_up /\ UNCHANGED <<created, out, parentvars>>
  \/ At(t, <<"up", "parent">>) /\ parent!SSU_Sem_up /\ UNCHANGED <<created, out, svars>>

wake_spurious(t) ==
  /\ spuriousCnt < MaxSpurious /\ spuriousCnt' = spuriousCnt + 1
  /\ \/ down_spurious(t) /\ UNCHANGED parentvars
     \/ parent!down_spurious(t) /\ UNCHANGED svars
  /\ UNCHANGED <<pc, created, out>>

TestStep(t) == create(t) \/ join(t) \/ print(t) \/ down(t) \/ wake(t) \/ up(t)
AllFinished == \A t \in Threads : Finished(t)
TestNext == (\E t \in Threads : TestStep(t) \/ wake_spurious(t)) /\ UNCHANGED program
-----------------------------------------------------------------------------
\* SSU_Sem_test.c: the lines of main and of the two threads alternate, main's
\* first ("this should print first", :39), so "One thread has printed" comes
\* after exactly one has, as long as pthread_cond_wait returns only when signalled.
LinesAlternate ==
  (program = "test" /\ spuriousCnt = 0) => \A i \in DOMAIN out : out[i] = main <=> i % 2 = 1

\* SSU_Sem_toggle_test.c: when main is about to start round k of its second loop,
\* all threads exist and exactly k lines are printed: no up(&parent) of a thread
\* that has just been created is taken for that of a thread that has printed, as
\* long as pthread_cond_wait returns only when signalled.
Lockstep ==
  LET k == pc[main] - 1 - 2 * NUM_THREADS
  IN  ( /\ program = "toggle" /\ spuriousCnt = 0 /\ ~Blocked(main)
        /\ k \in 0..2 * NUM_ITER * NUM_THREADS /\ k % 2 = 0 )
      => created = Threads /\ Len(out) = k \div 2
=============================================================================
