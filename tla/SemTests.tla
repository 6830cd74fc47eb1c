------------------------------ MODULE SemTests ------------------------------
(***************************************************************************)
(* The programs hw4/3/SSU_Sem_test.c ("test": two threads, 0 and 1) and    *)
(* hw4/3/SSU_Sem_toggle_test.c ("toggle": NUM_THREADS threads): what each  *)
(* thread does, as a sequence of operations.                               *)
(***************************************************************************)
EXTENDS SemClients, Sequences

CONSTANTS main, NUM_THREADS, NUM_ITER

\* The threads that main creates are numbers; SSU_Sem_test.c creates two.
Children == Threads \ {main}
ASSUME TestAssumption ==
  /\ NUM_THREADS \in Nat /\ NUM_THREADS >= 2 /\ NUM_ITER \in Nat
  /\ main \in Threads /\ Children = 0..NUM_THREADS - 1

down_print_up == << <<"down", "child">>, <<"print">>, <<"up", "parent">> >>

test_main == << <<"create", 0>>, <<"create", 1>>, <<"print">>,
                <<"up", "child">>, <<"down", "parent">>, <<"print">>,
                <<"up", "child">>, <<"down", "parent">>, <<"print">>,
                <<"join", 0>>, <<"join", 1>> >>

\* Mutants: up(&parent) before the line is printed; no up(&parent) at the start.
justprint_MutEarlyUp ==
  << <<"up", "parent">> >> \o
  [i \in 1..3 * NUM_ITER |-> << <<"down", "child">>, <<"up", "parent">>, <<"print">> >>[1 + ((i - 1) % 3)]]
justprint_MutNoUp == [i \in 1..3 * NUM_ITER |-> down_print_up[1 + ((i - 1) % 3)]]
justprint == << <<"up", "parent">> >> \o [i \in 1..3 * NUM_ITER |-> down_print_up[1 + ((i - 1) % 3)]]

CreateLoop ==
  [i \in 1..2 * NUM_THREADS |-> IF i % 2 = 1 THEN <<"create", (i - 1) \div 2>> ELSE <<"down", "parent">>]
PrintLoop ==
  [i \in 1..2 * NUM_ITER * NUM_THREADS |-> IF i % 2 = 1 THEN <<"up", "child">> ELSE <<"down", "parent">>]
JoinLoop == [i \in 1..NUM_THREADS |-> <<"join", i - 1>>]

\* Programs[p][t]: what thread t does in program p.
Programs ==
  [test   |-> [t \in Threads |-> CASE t = main -> test_main
                                   [] t \in {0, 1} -> down_print_up
                                   [] OTHER -> <<>>],
   toggle |-> [t \in Threads |-> IF t = main THEN CreateLoop \o PrintLoop \o JoinLoop ELSE justprint]]
=============================================================================
