-------------------------------- MODULE MCSem --------------------------------
(***************************************************************************)
(* The semaphore child of the test programs, in each of its uses: by       *)
(* clients that call down and up in any order (program = "any"), in        *)
(* SSU_Sem_test.c and in SSU_Sem_toggle_test.c.                            *)
(***************************************************************************)
EXTENDS SemThreads

others == <<program, pc, created, out, parentValue, parentWaiters, parentWoken>>

MCInit ==
  \/ TestInit
  \/ /\ SemInit /\ program = "any" /\ pc = <<>> /\ created = {} /\ out = <<>>
     /\ parentValue = 0 /\ parentWaiters = {} /\ parentWoken = {}
MCNext ==
  \/ program = "any" /\ SemNext /\ UNCHANGED others
  \/ program # "any" /\ TestNext
MCSpec ==
  /\ MCInit /\ [][MCNext]_<<semvars, others>>
  /\ \A t \in Threads :
       WF_<<semvars, others>>(program # "any" /\ TestStep(t) /\ UNCHANGED program)

\* The output of the two programs is in order (SSU_Sem_test.c:39-48,
\* SSU_Sem_toggle_test.c:56-62) as long as no wakeup is spurious: nobody takes an up
\* that was meant for somebody else.
LinesInOrder == LinesAlternate /\ Lockstep

\* Both programs end, spurious wakeups or not: no up of either semaphore is lost
\* between a thread's decrement and its sleep, and main joins every thread.
TestsEnd == <>(program = "any" \/ AllFinished)
=============================================================================
