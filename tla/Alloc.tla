-------------------------------- MODULE Alloc --------------------------------
(***************************************************************************)
(* The allocator hw5/alloc/alloc.c: one mmapped page, a table of NUM       *)
(* entries, first fit.  Sizes and addresses inside the table are counted   *)
(* in units of MINALLOC bytes from start: every size it stores and every   *)
(* address it returns is a multiple.  One step of the search loop is one   *)
(* action.                                                                 *)
(***************************************************************************)
EXTENDS Integers

CONSTANTS NUM, MINALLOC,
          Sizes   \* arguments of alloc, in bytes

ASSUME AllocAssumption == NUM \in Nat \ {0} /\ MINALLOC \in Nat \ {0} /\ Sizes \subseteq Int

VARIABLES mem,      \* the table: address, size and flag of the block that starts at a unit
          start,    \* what init_alloc and cleanup left: "none", "mapped" or "failed"
          size,     \* argument of the alloc that runs
          i,        \* its loop variable, -1 outside of alloc
          ret       \* what the last alloc returned

vars == <<mem, start, size, i, ret>>

NULL == -1
PAGESIZE == NUM * MINALLOC
Cells == 0..NUM - 1
FreeCell == [adr |-> NULL, size |-> 1, flag |-> 0]
Idle == i = -1

Init ==
  /\ mem = [k \in Cells |-> FreeCell] /\ start = "none"
  /\ size = 0 /\ i = -1 /\ ret = NULL

\* mmap may fail; the program then ends.
init_alloc ==
  /\ Idle /\ start = "none"
  /\ mem' = [k \in Cells |-> FreeCell]
  /\ start' \in {"mapped", "failed"}
  /\ UNCHANGED <<size, i, ret>>

cleanup ==
  /\ Idle /\ start = "mapped"
  /\ mem' = [k \in Cells |-> FreeCell]
  /\ start' = "none"
  /\ UNCHANGED <<size, i, ret>>

\* The number of turns after which the inner loop has size <= valid.
Units(bytes) == IF bytes <= MINALLOC THEN 1 ELSE (bytes + MINALLOC - 1) \div MINALLOC

\* The inner loop from unit k: it meets no block in use before size <= valid.
Fits(k, n) == k + n <= NUM /\ \A j \in k..k + n - 1 : mem[j].flag = 0

\* Lines 49-50 and the start of the search.
alloc ==
  /\ Idle /\ start = "mapped"
  /\ \E bytes \in Sizes :
       IF bytes > PAGESIZE \/ bytes % 8 # 0
         THEN ret' = NULL /\ UNCHANGED <<size, i>>
         ELSE size' = bytes /\ i' = 0 /\ UNCHANGED ret
  /\ UNCHANGED <<mem, start>>

\* One turn of the outer loop: take the block at i or go on.
Found ==
  /\ i < NUM /\ mem[i].flag = 0 /\ Fits(i, Units(size))
  /\ mem' = [mem EXCEPT ![i] = [adr |-> i, size |-> Units(size), flag |-> 1]]
  /\ ret' = i /\ i' = -1
  /\ UNCHANGED <<start, size>>
\* Mutants of the jump: none; none over a block of one unit.
GoOn_MutNoJump ==
  /\ i < NUM /\ (mem[i].flag = 0 => ~Fits(i, Units(size)))
  /\ i' = i + 1 /\ UNCHANGED <<mem, start, size, ret>>
GoOn_MutStay ==
  /\ i < NUM /\ (mem[i].flag = 0 => ~Fits(i, Units(size)))
  /\ i' = IF mem[i].flag = 1 /\ mem[i].size = 1 THEN i ELSE i + mem[i].size
  /\ UNCHANGED <<mem, start, size, ret>>
GoOn ==
  /\ i < NUM
  /\ \/ mem[i].flag = 0 /\ ~Fits(i, Units(size)) /\ i' = i + 1
     \/ mem[i].flag = 1 /\ i' = i + mem[i].size
  /\ UNCHANGED <<mem, start, size, ret>>
\* Mutant: the loop ends before the last unit.
NotFound_MutEarly == i >= NUM - 1 /\ ret' = NULL /\ i' = -1 /\ UNCHANGED <<mem, start, size>>
NotFound == i >= NUM /\ ret' = NULL /\ i' = -1 /\ UNCHANGED <<mem, start, size>>
search == ~Idle /\ (Found \/ GoOn \/ NotFound)

\* The first entry with this address, if there is one, becomes free.
dealloc ==
  /\ Idle /\ start = "mapped"
  /\ \E adr \in Cells \cup {NULL} :
       \/ \E k \in Cells :
            /\ mem[k].adr = adr /\ \A j \in 0..k - 1 : mem[j].adr # adr
            /\ mem' = [mem EXCEPT ![k] = FreeCell]
       \/ (\A k \in Cells : mem[k].adr # adr) /\ UNCHANGED mem
  /\ UNCHANGED <<start, size, i, ret>>

Next == init_alloc \/ cleanup \/ alloc \/ search \/ dealloc

\* A call of alloc runs to its end.
Spec == Init /\ [][Next]_vars /\ WF_vars(search)
-----------------------------------------------------------------------------
Entry == [adr : Cells \cup {NULL}, size : 1..NUM, flag : {0, 1}]
TypeOK == /\ mem \in [Cells -> Entry] /\ start \in {"none", "mapped", "failed"}
          /\ size \in Sizes \cup {0} /\ i \in -1..NUM /\ ret \in Cells \cup {NULL}

\* The blocks in use lie inside the page and apart from each other, although the
\* table marks only the first unit of a block as used and the search steps over
\* the rest by the stored size (alloc.c:79-84).
BlocksApart ==
  \A k \in Cells : mem[k].flag = 1 =>
    /\ k + mem[k].size <= NUM
    /\ \A j \in k + 1..k + mem[k].size - 1 : mem[j].flag = 0

\* alloc.c is a first-fit allocator: alloc returns the lowest free block that is
\* large enough, NULL only if there is none, whatever was freed before, with no
\* separate merging of free blocks (test 4 and 5 of test_alloc.c).
Blocks == {<<k, mem[k].size>> : k \in {j \in Cells : mem[j].flag = 1}}
Request == IF Idle THEN 0 ELSE Units(size)
Page == INSTANCE AllocSpec WITH blocks <- Blocks, request <- Request
ImplementsFirstFit == Page!Spec

\* Every call of alloc returns (the jump at alloc.c:81 never goes backwards).
AllocReturns == (i = 0) ~> Idle
=============================================================================
