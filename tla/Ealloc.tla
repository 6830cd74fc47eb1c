------------------------------- MODULE Ealloc -------------------------------
(***************************************************************************)
(* The allocator hw5/ealloc/ealloc.c: up to PNUM pages, each mapped when   *)
(* the search first reaches it, with a table of NUM entries per page.  As  *)
(* in Alloc, sizes are counted in units of MINALLOC bytes; an address is   *)
(* the page's start and the unit.  One turn of the search is one action.   *)
(***************************************************************************)
EXTENDS Integers

CONSTANTS PNUM, NUM, MINALLOC,
          Sizes   \* arguments of alloc, in bytes

VARIABLES mem,     \* mem[p][k]: address, size and flag of the block that starts there
          start,   \* start[p]: NULL, p once mapped, or MAP_FAILED
          size,    \* argument of the alloc that runs
          p, i,    \* its loop variables, p = -1 outside of alloc
          ret      \* what the last alloc returned

vars == <<mem, start, size, p, i, ret>>

\* An address is <<start of its page, unit>>; <<NULL, 0>> is the null pointer.
NULL == -1
MAP_FAILED == -2
NoAddr == <<NULL, 0>>
PAGESIZE == NUM * MINALLOC
Pages == 0..PNUM - 1
Cells == 0..NUM - 1
FreeCell == [adr |-> NoAddr, size |-> 1, flag |-> 0]
Idle == p = -1

EmptyTable == [q \in Pages |-> [k \in Cells |-> FreeCell]]
init_alloc == start = [q \in Pages |-> NULL] /\ mem = EmptyTable
Init == init_alloc /\ size = 0 /\ p = -1 /\ i = 0 /\ ret = NoAddr

\* The pages are forgotten, not unmapped; init_alloc, which may follow, does the
\* same once more.
cleanup ==
  /\ Idle
  /\ start' = [q \in Pages |-> NULL] /\ mem' = EmptyTable
  /\ UNCHANGED <<size, p, i, ret>>

\* The number of turns after which the inner loop has size <= valid.
Units(bytes) == IF bytes <= MINALLOC THEN 1 ELSE (bytes + MINALLOC - 1) \div MINALLOC

\* The inner loop from unit k of page q meets no block in use before size <= valid.
Fits(q, k, n) == k + n <= NUM /\ \A j \in k..k + n - 1 : mem[q][j].flag = 0

\* Mutant: the search goes on where the last one ended.
alloc_MutNextFit ==
  /\ Idle
  /\ \E bytes \in Sizes :
       IF bytes > PAGESIZE \/ bytes % 8 # 0
         THEN ret' = NoAddr /\ UNCHANGED <<size, p>>
         ELSE size' = bytes /\ p' = 0 /\ UNCHANGED ret
  /\ UNCHANGED <<mem, start, i>>
alloc ==
  /\ Idle
  /\ \E bytes \in Sizes :
       IF bytes > PAGESIZE \/ bytes % 8 # 0
         THEN ret' = NoAddr /\ UNCHANGED <<size, p, i>>
         ELSE size' = bytes /\ p' = 0 /\ i' = 0 /\ UNCHANGED ret
  /\ UNCHANGED <<mem, start>>

\* Lines 57-61.  After MAP_FAILED the page counts as there the next time.
MapPage ==
  /\ p < PNUM /\ start[p] = NULL
  /\ \/ start' = [start EXCEPT ![p] = p] /\ UNCHANGED <<p, ret>>
     \/ start' = [start EXCEPT ![p] = MAP_FAILED] /\ p' = -1 /\ ret' = NoAddr
  /\ UNCHANGED <<mem, size, i>>

\* One turn of the loop over a page: take the block at i, go on, or the next page.
InPage == p < PNUM /\ start[p] # NULL
\* Mutant: the address is computed from the first page.
Found_MutBase ==
  /\ InPage /\ i < NUM /\ mem[p][i].flag = 0 /\ Fits(p, i, Units(size))
  /\ mem' = [mem EXCEPT ![p][i] = [adr |-> <<start[0], i>>, size |-> Units(size), flag |-> 1]]
  /\ ret' = <<start[p], i>> /\ p' = -1
  /\ UNCHANGED <<start, size, i>>
Found ==
  /\ InPage /\ i < NUM /\ mem[p][i].flag = 0 /\ Fits(p, i, Units(size))
  /\ mem' = [mem EXCEPT ![p][i] = [adr |-> <<start[p], i>>, size |-> Units(size), flag |-> 1]]
  /\ ret' = <<start[p], i>> /\ p' = -1
  /\ UNCHANGED <<start, size, i>>
GoOn ==
  /\ InPage /\ i < NUM
  /\ \/ mem[p][i].flag = 0 /\ ~Fits(p, i, Units(size)) /\ i' = i + 1
     \/ mem[p][i].flag = 1 /\ i' = i + mem[p][i].size
  /\ UNCHANGED <<mem, start, size, p, ret>>
\* Mutant: the loop ends before the last unit.
NextPage_MutEarly == InPage /\ i >= NUM - 1 /\ p' = p + 1 /\ i' = 0 /\ UNCHANGED <<mem, start, size, ret>>
NextPage == InPage /\ i >= NUM /\ p' = p + 1 /\ i' = 0 /\ UNCHANGED <<mem, start, size, ret>>
NotFound == p >= PNUM /\ ret' = NoAddr /\ p' = -1 /\ UNCHANGED <<mem, start, size, i>>
search == ~Idle /\ (MapPage \/ Found \/ GoOn \/ NextPage \/ NotFound)

\* The first entry with this address on every page becomes free.
FirstWith(q, adr, k) == mem[q][k].adr = adr /\ \A j \in 0..k - 1 : mem[q][j].adr # adr
dealloc ==
  /\ Idle
  /\ \E adr \in {<<s, k>> : s \in Pages \cup {MAP_FAILED}, k \in Cells} \cup {NoAddr} :
       mem' = [q \in Pages |-> [k \in Cells |-> IF FirstWith(q, adr, k) THEN FreeCell ELSE mem[q][k]]]
  /\ UNCHANGED <<start, size, p, i, ret>>

Next == cleanup \/ alloc \/ search \/ dealloc
Spec == Init /\ [][Next]_vars
-----------------------------------------------------------------------------
Addr == ((Pages \cup {MAP_FAILED}) \X Cells) \cup {NoAddr}
Entry == [adr : Addr, size : 1..NUM, flag : {0, 1}]
TypeOK == /\ mem \in [Pages -> [Cells -> Entry]]
          /\ start \in [Pages -> Pages \cup {NULL, MAP_FAILED}]
          /\ size \in Sizes \cup {0} /\ p \in -1..PNUM /\ i \in 0..NUM /\ ret \in Addr

\* The n units from k of page q are outside of every block in use.
Unused(q, k, n) ==
  /\ k + n <= NUM
  /\ \A c \in Cells : mem[q][c].flag = 1 => c + mem[q][c].size <= k \/ k + n <= c
NoRoom(q, n) == \A k \in Cells : ~Unused(q, k, n)

\* The blocks of a page lie inside it and apart from each other, although the
\* table marks only the first unit of a block as used.
BlocksApart ==
  \A q \in Pages : \A k \in Cells : mem[q][k].flag = 1 =>
    /\ k + mem[q][k].size <= NUM
    /\ \A j \in k + 1..k + mem[q][k].size - 1 : mem[q][j].flag = 0

\* A page is mapped only when no earlier page has room for the request ("no new
\* memory should be used", test_ealloc.c:68), so the pages are mapped in order.
GrowsOnlyWhenFull ==
  [][\A q \in Pages : start[q] = NULL /\ start'[q] # NULL =>
       \A r \in 0..q - 1 : start[r] # NULL /\ NoRoom(r, Units(size))]_vars

\* A call of alloc ends with the lowest unused units of the first page that has
\* room, or with NULL when no page has room or the next one cannot be mapped.
FirstFit ==
  [][~Idle /\ Idle' =>
       IF ret' = NoAddr
       THEN \E q \in 0..PNUM :
              /\ \A r \in 0..q - 1 : NoRoom(r, Units(size))
              /\ q = PNUM \/ (start[q] = NULL /\ start'[q] = MAP_FAILED)
       ELSE /\ Unused(p, i, Units(size)) /\ ret' = <<start[p], i>>
            /\ \A k \in 0..i - 1 : ~Unused(p, k, Units(size))
            /\ \A r \in 0..p - 1 : NoRoom(r, Units(size))]_vars

\* An address identifies a block, so that dealloc frees the caller's block and no
\* other, except among pages whose mmap failed (ealloc.c:58-60 leaves MAP_FAILED
\* in start, and the next alloc uses it as an address).
AddressesDistinct ==
  \A q, r \in Pages : \A k, j \in Cells :
    (mem[q][k].flag = 1 /\ mem[r][j].flag = 1 /\ mem[q][k].adr = mem[r][j].adr)
      => k = j /\ (q = r \/ (start[q] = MAP_FAILED /\ start[r] = MAP_FAILED))
=============================================================================
