----------------------------- MODULE AllocProofs -----------------------------
(***************************************************************************)
(* Proofs about the allocators alloc.c and ealloc.c for every size of the  *)
(* table, of the unit and of the requests and every number of pages.       *)
(***************************************************************************)
EXTENDS MCAlloc, TLAPS

\* Zenon proves the steps that do not name another prover.  Those that need arithmetic or
\* Boolean-valued variables name two, the second for when the first runs out of time.
USE ZenonT(60)

\* The inner loop makes at least one turn (valid is MINALLOC after the first).
LEMMA UnitsType ==
  ASSUME NEW bytes \in Int
  PROVE  Units(bytes) \in Nat \ {0}
<1>. USE AllocAssumption
<1>1. CASE bytes <= MINALLOC BY SMTT(30), Z3T(60), <1>1 DEF Units
<1>2. CASE bytes > MINALLOC
  <2>1. (bytes + MINALLOC - 1) \div MINALLOC \in Int BY SMTT(30), Z3T(60)
  <2>2. (bytes + MINALLOC - 1) \div MINALLOC > 0 BY SMTT(30), Z3T(60), <1>2, <2>1
  <2>. QED BY SMTT(30), Z3T(60), <1>2, <2>1, <2>2 DEF Units
<1>. QED BY SMTT(30), Z3T(60), <1>1, <1>2

\* Page!Free in terms of the table: the n units from k are outside of every block.
Unused(k, n) ==
  /\ k + n <= NUM
  /\ \A c \in Cells : mem[c].flag = 1 => c + mem[c].size <= k \/ k + n <= c

\* The abstract allocator finds the same units free as the table does.
LEMMA FreeUnused ==
  ASSUME NEW k, NEW n
  PROVE  Page!Free(k, n) <=> Unused(k, n)
<1>1. ASSUME Page!Free(k, n) PROVE Unused(k, n)
  <2>. SUFFICES ASSUME NEW c \in Cells, mem[c].flag = 1
                PROVE  c + mem[c].size <= k \/ k + n <= c
    BY <1>1 DEF Unused, Page!Free
  <2>1. <<c, mem[c].size>> \in Blocks BY DEF Blocks
  <2>. QED BY <1>1, <2>1 DEF Page!Free
<1>2. ASSUME Unused(k, n) PROVE Page!Free(k, n)
  BY SMTT(30), Z3T(60), <1>2 DEF Unused, Page!Free, Blocks
<1>. QED BY <1>1, <1>2

\* A free entry is as init_alloc leaves it, and a used one holds its own address.
EntriesOK ==
  \A k \in Cells : /\ mem[k].flag = 0 => mem[k] = FreeCell
                   /\ mem[k].flag = 1 => mem[k].adr = k

\* The search stands between two blocks, and nothing below it is large enough.
CursorOK ==
  ~Idle => /\ \A k \in Cells : k < i /\ mem[k].flag = 1 => k + mem[k].size <= i
           /\ \A k \in 0..i - 1 : ~Unused(k, Units(size))

IInv == TypeOK /\ BlocksApart /\ EntriesOK /\ CursorOK

\* The table entries are records with the fields of struct mm.
LEMMA EntryType ==
  ASSUME TypeOK, NEW k \in Cells
  PROVE  /\ mem[k].adr \in Cells \cup {NULL} /\ mem[k].size \in 1..NUM
         /\ mem[k].flag \in {0, 1}
BY DEF TypeOK, Entry

\* init_alloc leaves an empty table.
LEMMA EmptyOK ==
  ASSUME mem' = [k \in Cells |-> FreeCell]
  PROVE  mem' \in [Cells -> Entry] /\ BlocksApart' /\ EntriesOK' /\ Blocks' = {}
<1>. USE AllocAssumption DEF FreeCell, NULL
<1>1. mem' \in [Cells -> Entry] BY SMTT(30), Z3T(60) DEF Entry
<1>2. BlocksApart' /\ EntriesOK' /\ Blocks' = {} BY SMTT(30), Z3T(60) DEF BlocksApart, EntriesOK, Blocks
<1>. QED BY <1>1, <1>2

\* Before the first call nothing is allocated.
LEMMA InitIInv == Init => IInv
<1>. SUFFICES ASSUME Init PROVE IInv
  OBVIOUS
<1>. USE AllocAssumption DEF Init, FreeCell, NULL
<1>1. TypeOK BY SMTT(30), Z3T(60) DEF TypeOK, Entry, Cells
<1>2. BlocksApart /\ EntriesOK /\ CursorOK BY SMTT(30), Z3T(60) DEF BlocksApart, EntriesOK, CursorOK, Idle
<1>. QED BY <1>1, <1>2 DEF IInv

\* Where the search stands, the inner loop succeeds exactly if the units are
\* outside of every block: it cannot run into the unmarked rest of one.
LEMMA FitsUnused ==
  ASSUME IInv, ~Idle, i < NUM, mem[i].flag = 0, NEW n \in Nat \ {0}
  PROVE  Fits(i, n) <=> Unused(i, n)
<1>. i \in Cells BY SMTT(30), Z3T(60), AllocAssumption DEF IInv, TypeOK, Idle, Cells
<1>1. ASSUME Fits(i, n), NEW c \in Cells, mem[c].flag = 1
      PROVE  c + mem[c].size <= i \/ i + n <= c
  <2>1. CASE c < i BY <1>1, <2>1 DEF IInv, CursorOK
  <2>2. CASE c >= i BY SMTT(30), Z3T(60), <1>1, <2>2, AllocAssumption DEF Fits, Cells
  <2>. QED BY SMTT(30), Z3T(60), <2>1, <2>2, AllocAssumption DEF Cells
<1>2. ASSUME Unused(i, n), NEW j \in i..i + n - 1
      PROVE  mem[j].flag = 0
  <2>1. j \in Cells BY SMTT(30), Z3T(60), <1>2, AllocAssumption DEF Unused, Cells
  <2>2. mem[j].size >= 1 /\ mem[j].size \in Int BY SMTT(30), Z3T(60), <2>1, EntryType, AllocAssumption DEF IInv
  <2>. QED BY SMTT(30), Z3T(60), <1>2, <2>1, <2>2, EntryType, AllocAssumption DEF Unused, IInv, Cells
<1>. QED BY <1>1, <1>2 DEF Fits, Unused

\* A used entry rules out its own units.
LEMMA UsedNotUnused ==
  ASSUME IInv, NEW c \in Cells, mem[c].flag = 1, NEW k \in c..c + mem[c].size - 1,
         NEW n \in Nat \ {0}
  PROVE  ~Unused(k, n)
BY SMTT(30), Z3T(60), EntryType, AllocAssumption DEF Unused, IInv, Cells

\* The block that alloc takes is new, inside the page and apart from the others.
LEMMA FoundStep ==
  ASSUME IInv, ~Idle, Found
  PROVE  /\ IInv' /\ Unused(i, Units(size)) /\ Units(size) \in 1..NUM
         /\ Blocks' = Blocks \cup {<<i, Units(size)>>} /\ Request' = 0
<1>. DEFINE n == Units(size)
<1>. USE AllocAssumption
<1>0. n \in Nat \ {0} BY SMTT(30), Z3T(60), UnitsType DEF IInv, TypeOK
<1>. HIDE DEF n
<1>1. i \in Cells /\ i \in Int BY SMTT(30), Z3T(60) DEF Found, IInv, TypeOK, Idle, Cells
<1>2. /\ mem[i].flag = 0 /\ Fits(i, n) /\ ret' = i /\ i' = -1 /\ UNCHANGED <<start, size>>
      /\ mem' = [mem EXCEPT ![i] = [adr |-> i, size |-> n, flag |-> 1]]
  BY DEF Found, n
<1>3. n \in 1..NUM BY SMTT(30), Z3T(60), <1>0, <1>1, <1>2 DEF Fits, Cells
<1>4. Unused(i, n) BY <1>0, <1>2, FitsUnused DEF Found
<1>5. TypeOK'
  BY SMTT(30), Z3T(60), <1>1, <1>2, <1>3 DEF IInv, TypeOK, Entry
<1>6. mem'[i].flag = 1 /\ mem'[i].size = n /\ mem'[i].adr = i
      /\ \A k \in Cells : k # i => mem'[k] = mem[k]
  BY <1>1, <1>2 DEF IInv, TypeOK
<1>7. EntriesOK' BY SMTT(30), Z3T(60), <1>1, <1>6 DEF IInv, EntriesOK, Cells
<1>8. BlocksApart'
  <2>. SUFFICES ASSUME NEW k \in Cells, mem'[k].flag = 1
                PROVE  /\ k + mem'[k].size <= NUM
                       /\ \A j \in k + 1..k + mem'[k].size - 1 : mem'[j].flag = 0
    BY DEF BlocksApart
  <2>1. CASE k = i
    BY SMTT(30), Z3T(60), <1>0, <1>1, <1>2, <1>6, <2>1 DEF Fits, Cells
  <2>2. CASE k # i
    <3>1. mem[k].flag = 1 /\ mem[k].size \in 1..NUM BY <1>6, <2>2, EntryType DEF IInv
    <3>2. i \notin k + 1..k + mem[k].size - 1
      BY SMTT(30), Z3T(60), <1>1, <3>1, <2>2 DEF IInv, CursorOK, Cells
    <3>3. k + mem[k].size <= NUM /\ \A j \in k + 1..k + mem[k].size - 1 : mem[j].flag = 0
      BY <3>1 DEF IInv, BlocksApart
    <3>. QED BY SMTT(30), Z3T(60), <1>6, <2>2, <3>1, <3>2, <3>3 DEF Cells
  <2>. QED BY <2>1, <2>2
<1>9. CursorOK' BY <1>2 DEF CursorOK, Idle
<1>10. Blocks' = Blocks \cup {<<i, n>>}
  BY SMTT(30), Z3T(60), <1>1, <1>2, <1>6 DEF Blocks
<1>. QED BY <1>2, <1>3, <1>4, <1>5, <1>7, <1>8, <1>9, <1>10 DEF IInv, n, Request, Idle

\* Going on, the search leaves behind no block that is large enough.
LEMMA GoOnStep ==
  ASSUME IInv, ~Idle, GoOn
  PROVE  IInv' /\ UNCHANGED <<Blocks, Request, ret>>
<1>. DEFINE n == Units(size)
<1>. USE AllocAssumption
<1>0. n \in Nat \ {0} BY SMTT(30), Z3T(60), UnitsType DEF IInv, TypeOK
<1>. HIDE DEF n
<1>1. i \in Cells /\ i \in Int BY SMTT(30), Z3T(60) DEF GoOn, IInv, TypeOK, Idle, Cells
<1>2. UNCHANGED <<mem, start, size, ret>> BY DEF GoOn
<1>3. \A k \in Cells : k < i /\ mem[k].flag = 1 => k + mem[k].size <= i
  BY DEF IInv, CursorOK
<1>4. \A k \in 0..i - 1 : ~Unused(k, n) BY DEF IInv, CursorOK, n
<1>5. \A k \in Cells : mem[k].size \in 1..NUM BY EntryType DEF IInv
<1>6. /\ i' \in 0..NUM /\ \A k \in 0..i' - 1 : ~Unused(k, n)
      /\ \A k \in Cells : k < i' /\ mem[k].flag = 1 => k + mem[k].size <= i'
  <2>1. CASE mem[i].flag = 0
    <3>1. ~Fits(i, n) /\ i' = i + 1 BY SMTT(30), Z3T(60), <2>1 DEF GoOn, n
    <3>2. ~Unused(i, n) BY <1>0, <2>1, <3>1, FitsUnused DEF GoOn
    <3>. QED BY SMTT(30), Z3T(60), <1>1, <1>3, <1>4, <1>5, <2>1, <3>1, <3>2 DEF Cells
  <2>2. CASE mem[i].flag = 1
    <3>1. i' = i + mem[i].size BY SMTT(30), Z3T(60), <2>2 DEF GoOn
    <3>2. i + mem[i].size <= NUM /\ \A j \in i + 1..i + mem[i].size - 1 : mem[j].flag = 0
      BY <1>1, <2>2 DEF IInv, BlocksApart
    <3>3. \A k \in i..i + mem[i].size - 1 : ~Unused(k, n)
      BY <1>0, <1>1, <2>2, UsedNotUnused
    <3>4. \A k \in Cells : k < i' /\ mem[k].flag = 1 => k <= i
      BY SMTT(30), Z3T(60), <1>1, <1>5, <3>1, <3>2 DEF Cells
    <3>. QED BY SMTT(30), Z3T(60), <1>1, <1>3, <1>4, <1>5, <3>1, <3>2, <3>3, <3>4 DEF Cells
  <2>. QED BY <1>1, <2>1, <2>2, EntryType DEF IInv
<1>7. TypeOK' BY SMTT(30), Z3T(60), <1>2, <1>6 DEF IInv, TypeOK
<1>8. CursorOK' BY <1>2, <1>6 DEF CursorOK, Unused, Units, n, Cells
<1>9. Request' = Request BY SMTT(30), Z3T(60), <1>1, <1>2, <1>6 DEF Request, Units, Idle, Cells
<1>. QED BY SMTT(30), Z3T(60), <1>2, <1>7, <1>8, <1>9 DEF IInv, BlocksApart, EntriesOK, Blocks

\* dealloc frees the block at the address, or does nothing: an entry with the
\* address NULL is free already.
LEMMA DeallocStep ==
  ASSUME IInv, dealloc
  PROVE  IInv' /\ ([Page!Next]_(Page!vars))
<1>. USE AllocAssumption
<1>0. Idle /\ UNCHANGED <<start, size, i, ret>> /\ Request = 0 /\ Request' = 0
  BY DEF dealloc, Request, Idle
<1>1. CASE UNCHANGED mem
  BY SMTT(30), Z3T(60), <1>0, <1>1
  DEF IInv, TypeOK, BlocksApart, EntriesOK, CursorOK, Idle, Page!vars, Blocks
<1>2. ASSUME NEW k \in Cells, mem' = [mem EXCEPT ![k] = FreeCell], mem[k].flag = 1
      PROVE  IInv' /\ [Page!Next]_(Page!vars)
  <2>1. mem'[k] = FreeCell /\ \A c \in Cells : c # k => mem'[c] = mem[c]
    BY <1>2 DEF IInv, TypeOK
  <2>2. TypeOK' BY SMTT(30), Z3T(60), <1>0, <1>2 DEF IInv, TypeOK, Entry, FreeCell, NULL
  <2>3. EntriesOK' BY SMTT(30), Z3T(60), <2>1 DEF IInv, EntriesOK, FreeCell
  <2>4. BlocksApart'
    <3>. SUFFICES ASSUME NEW c \in Cells, mem'[c].flag = 1
                  PROVE  /\ c + mem'[c].size <= NUM
                         /\ \A j \in c + 1..c + mem'[c].size - 1 : mem'[j].flag = 0
      BY DEF BlocksApart
    <3>1. c # k /\ mem'[c] = mem[c] BY SMTT(30), Z3T(60), <2>1 DEF FreeCell
    <3>2. mem[c].size \in 1..NUM BY EntryType DEF IInv
    <3>3. c + mem[c].size <= NUM /\ \A j \in c + 1..c + mem[c].size - 1 : mem[j].flag = 0
      BY <3>1 DEF IInv, BlocksApart
    <3>. QED BY SMTT(30), Z3T(60), <2>1, <3>1, <3>2, <3>3 DEF Cells, FreeCell
  <2>5. CursorOK' BY <1>0 DEF CursorOK, Idle
  <2>6. Blocks' = {b \in Blocks : b[1] # k}
    BY SMTT(30), Z3T(60), <2>1 DEF Blocks, FreeCell
  <2>7. Page!Next BY <1>0, <2>6 DEF Page!Next, Page!Dealloc, Cells
  <2>. QED BY <2>2, <2>3, <2>4, <2>5, <2>7 DEF IInv
<1>3. ASSUME NEW k \in Cells, mem' = [mem EXCEPT ![k] = FreeCell], mem[k].flag = 0
      PROVE  UNCHANGED mem
  BY <1>3 DEF IInv, EntriesOK, TypeOK
<1>4. \A k \in Cells : mem[k].flag \in {0, 1} BY EntryType DEF IInv
<1>. QED BY <1>1, <1>2, <1>3, <1>4 DEF dealloc

\* Every step preserves the invariant and is a step of the first-fit allocator or
\* a stutter.
LEMMA StepIInv ==
  ASSUME IInv, [Next]_vars
  PROVE  IInv' /\ [Page!Next]_(Page!vars)
<1>. USE AllocAssumption
<1>1. ASSUME Idle, mem' = [k \in Cells |-> FreeCell], UNCHANGED <<size, i, ret>>,
             start' \in {"none", "mapped", "failed"}
      PROVE  IInv' /\ [Page!Next]_(Page!vars)
  <2>1. TypeOK' /\ CursorOK' BY <1>1, EmptyOK DEF IInv, TypeOK, CursorOK, Idle
  <2>2. Page!Next BY <1>1, EmptyOK DEF Page!Next, Page!Reset, Request, Idle
  <2>. QED BY <1>1, <2>1, <2>2, EmptyOK DEF IInv
<1>2. CASE init_alloc \/ cleanup
  BY <1>1, <1>2 DEF init_alloc, cleanup
<1>3. CASE alloc
  <2>0. Idle BY <1>3 DEF alloc
  <2>1. UNCHANGED <<mem, start>> BY <1>3 DEF alloc
  <2>2. CASE ret' = NULL /\ UNCHANGED <<size, i>>
    <3>1. IInv' BY <2>1, <2>2
      DEF IInv, TypeOK, BlocksApart, EntriesOK, CursorOK, Unused, Idle, Units
    <3>2. Page!Next BY <2>0, <2>1, <2>2 DEF Page!Next, Page!Reject, Blocks, Request, Idle
    <3>. QED BY <3>1, <3>2
  <2>3. CASE size' \in Sizes /\ i' = 0 /\ UNCHANGED ret
    <3>1. TypeOK' BY SMTT(30), Z3T(60), <2>1, <2>3 DEF IInv, TypeOK
    <3>2. CursorOK' BY SMTT(30), Z3T(60), <2>1, <2>3 DEF CursorOK, Cells
    <3>3. Units(size') \in Nat \ {0} BY <2>3, UnitsType
    <3>4. Request = 0 /\ Request' = Units(size') BY SMTT(30), Z3T(60), <2>0, <2>3 DEF Request, Idle, Units
    <3>5. Page!Accept BY <2>1, <2>3, <3>3, <3>4 DEF Page!Accept, Blocks
    <3>. QED BY <2>1, <2>3, <3>1, <3>2, <3>5 DEF IInv, BlocksApart, EntriesOK, Page!Next
  <2>. QED BY <1>3, <2>2, <2>3 DEF alloc
<1>4. CASE search /\ Found
  <2>1. ~Idle /\ ret' = i /\ i \in 0..NUM - 1 BY SMTT(30), Z3T(60), <1>4 DEF search, Found, IInv, TypeOK, Idle
  <2>2. \A k \in 0..i - 1 : ~Page!Free(k, Units(size))
    BY <2>1, FreeUnused DEF IInv, CursorOK
  <2>3. Page!Free(i, Units(size)) BY <1>4, <2>1, FoundStep, FreeUnused
  <2>4. Request = Units(size) BY <2>1 DEF Request
  <2>5. Units(size) # 0 BY SMTT(30), Z3T(60), <1>4, <2>1, FoundStep, AllocAssumption
  <2>6. Page!Return BY <1>4, <2>1, <2>2, <2>3, <2>4, <2>5, FoundStep DEF Page!Return
  <2>. QED BY <1>4, <2>1, <2>6, FoundStep DEF Page!Next
<1>5. CASE search /\ GoOn
  BY <1>5, GoOnStep DEF search, Page!vars
<1>6. CASE search /\ NotFound
  <2>1. ~Idle /\ i = NUM /\ i' = -1 /\ ret' = NULL /\ UNCHANGED <<mem, start, size>>
    BY SMTT(30), Z3T(60), <1>6 DEF search, NotFound, IInv, TypeOK, Idle
  <2>2. IInv' BY SMTT(30), Z3T(60), <2>1 DEF IInv, TypeOK, BlocksApart, EntriesOK, CursorOK, Idle
  <2>3. \A k \in 0..NUM - 1 : ~Page!Free(k, Units(size))
    BY <2>1, FreeUnused DEF IInv, CursorOK
  <2>4. Units(size) \in Nat \ {0} BY SMTT(30), Z3T(60), UnitsType DEF IInv, TypeOK
  <2>5. Blocks' = Blocks BY <2>1 DEF Blocks
  <2>6. Request = Units(size) /\ Request' = 0 BY <2>1 DEF Request, Idle
  <2>7. Page!Return BY <2>1, <2>3, <2>4, <2>5, <2>6 DEF Page!Return
  <2>. QED BY <2>2, <2>7 DEF Page!Next
<1>7. CASE dealloc
  BY <1>7, DeallocStep
<1>8. CASE UNCHANGED vars
  BY SMTT(30), Z3T(60), <1>8
  DEF vars, IInv, TypeOK, BlocksApart, EntriesOK, CursorOK, Unused, Idle, Units, Page!vars, Blocks, Request
<1>. QED BY <1>2, <1>3, <1>4, <1>5, <1>6, <1>7, <1>8 DEF Next, search

\* Whatever is allocated and freed, the blocks in use lie inside the page and do
\* not overlap, for every table size and every sequence of requests.
THEOREM AllocSafe == Spec => [](TypeOK /\ BlocksApart)
<1>1. IInv /\ [Next]_vars => IInv' BY StepIInv
<1>. QED BY <1>1, InitIInv, PTL DEF Spec, IInv

\* alloc.c implements the first-fit allocator: it returns the lowest free block
\* that is large enough and NULL only if there is none.
THEOREM AllocFirstFit == Spec => ImplementsFirstFit
<1>1. Init => Page!Init BY SMTT(30), Z3T(60) DEF Init, Page!Init, Blocks, FreeCell, Request, Idle
<1>2. IInv /\ [Next]_vars => IInv' /\ [Page!Next]_(Page!vars) BY StepIInv
<1>. QED BY <1>1, <1>2, InitIInv, PTL DEF Spec, ImplementsFirstFit, Page!Spec
-----------------------------------------------------------------------------
(***************************************************************************)
(* ealloc.c.  The table of a page is kept as in alloc.c; in addition the   *)
(* address in a used entry tells the page.                                 *)
(***************************************************************************)

\* A page is not mapped, mapped at its own place, or its mmap failed; a free entry
\* is as init_alloc leaves it, and a used one has the address of its page and unit.
EEntriesOK ==
  \A q \in E!Pages :
    /\ estart[q] \in {q, E!NULL, E!MAP_FAILED}
    /\ \A k \in E!Cells :
         /\ emem[q][k].flag = 0 => emem[q][k] = E!FreeCell
         /\ emem[q][k].flag = 1 => estart[q] # E!NULL /\ emem[q][k].adr = <<estart[q], k>>

\* The pages before the one that is searched are mapped and have no room; in this
\* page the search stands between two blocks, and nothing below it is large enough.
ECursorOK ==
  ~E!Idle =>
    /\ \A r \in 0..epage - 1 : estart[r] # E!NULL /\ E!NoRoom(r, E!Units(esize))
    /\ epage < PNUM =>
         /\ \A k \in E!Cells : k < ei /\ emem[epage][k].flag = 1 => k + emem[epage][k].size <= ei
         /\ \A k \in 0..ei - 1 : ~E!Unused(epage, k, E!Units(esize))

EInv == E!TypeOK /\ E!BlocksApart /\ EEntriesOK /\ ECursorOK

\* The inner loop of ealloc.c makes at least one turn.
LEMMA EUnitsType ==
  ASSUME NEW bytes \in Int
  PROVE  E!Units(bytes) \in Nat \ {0}
<1>. USE EallocAssumption
<1>1. CASE bytes <= EMINALLOC BY SMTT(30), Z3T(60), <1>1 DEF E!Units
<1>2. CASE bytes > EMINALLOC
  <2>1. (bytes + EMINALLOC - 1) \div EMINALLOC \in Int BY SMTT(30), Z3T(60)
  <2>2. (bytes + EMINALLOC - 1) \div EMINALLOC > 0 BY SMTT(30), Z3T(60), <1>2, <2>1
  <2>. QED BY SMTT(30), Z3T(60), <1>2, <2>1, <2>2 DEF E!Units
<1>. QED BY SMTT(30), Z3T(60), <1>1, <1>2

\* The entries of every page are records with the fields of struct mm.
LEMMA EEntryType ==
  ASSUME E!TypeOK, NEW q \in E!Pages, NEW k \in E!Cells
  PROVE  emem[q][k].size \in 1..ENUM /\ emem[q][k].flag \in {0, 1}
BY DEF E!TypeOK, E!Entry

\* Addresses identify blocks, because a page is mapped at its own place.
LEMMA EDistinct ==
  ASSUME EEntriesOK
  PROVE  E!AddressesDistinct
BY SMTT(30), Z3T(60), EallocAssumption DEF EEntriesOK, E!AddressesDistinct, E!Pages, E!NULL, E!MAP_FAILED

\* cleanup leaves empty tables and no page.
LEMMA EEmptyOK ==
  ASSUME estart' = [q \in E!Pages |-> E!NULL], emem' = E!EmptyTable
  PROVE  /\ emem' \in [E!Pages -> [E!Cells -> E!Entry]]
         /\ estart' \in [E!Pages -> E!Pages \cup {E!NULL, E!MAP_FAILED}]
         /\ E!BlocksApart' /\ EEntriesOK'
<1>. USE EallocAssumption DEF E!FreeCell, E!EmptyTable
<1>1. emem' \in [E!Pages -> [E!Cells -> E!Entry]] BY SMTT(30), Z3T(60) DEF E!Entry, E!Addr
<1>2. E!BlocksApart' /\ EEntriesOK' BY SMTT(30), Z3T(60) DEF E!BlocksApart, EEntriesOK
<1>. QED BY <1>1, <1>2

\* Before the first call nothing is mapped and nothing is allocated.
LEMMA EInitInv == E!Init => EInv
<1>. SUFFICES ASSUME E!Init PROVE EInv
  OBVIOUS
<1>. USE EallocAssumption DEF E!FreeCell, E!EmptyTable
<1>1. estart = [q \in E!Pages |-> E!NULL] /\ emem = E!EmptyTable BY DEF E!Init, E!init_alloc
<1>2. esize = 0 /\ epage = -1 /\ ei = 0 /\ eret = E!NoAddr BY DEF E!Init
<1>3. emem \in [E!Pages -> [E!Cells -> E!Entry]] BY SMTT(30), Z3T(60), <1>1 DEF E!Entry, E!Addr
<1>4. E!TypeOK BY SMTT(30), Z3T(60), <1>1, <1>2, <1>3 DEF E!TypeOK, E!Addr
<1>5. E!BlocksApart /\ EEntriesOK BY SMTT(30), Z3T(60), <1>1 DEF E!BlocksApart, EEntriesOK
<1>6. ECursorOK BY <1>2 DEF ECursorOK, E!Idle
<1>. QED BY <1>4, <1>5, <1>6 DEF EInv

\* On the page that is searched the inner loop succeeds exactly if the units are
\* outside of every block of the page.
LEMMA EFitsUnused ==
  ASSUME EInv, ~E!Idle, epage < PNUM, ei < ENUM, emem[epage][ei].flag = 0, NEW n \in Nat \ {0}
  PROVE  E!Fits(epage, ei, n) <=> E!Unused(epage, ei, n)
<1>. USE EallocAssumption
<1>1. epage \in E!Pages /\ ei \in E!Cells
  BY SMTT(30), Z3T(60) DEF EInv, E!TypeOK, E!Idle, E!Pages, E!Cells
<1>. DEFINE tab == emem[epage]
<1>2. \A c \in E!Cells : tab[c].size \in 1..ENUM /\ tab[c].flag \in {0, 1}
  BY <1>1, EEntryType DEF EInv
<1>3. \A c \in E!Cells : c < ei /\ tab[c].flag = 1 => c + tab[c].size <= ei
  BY DEF EInv, ECursorOK
<1>4. E!Fits(epage, ei, n) <=> ei + n <= ENUM /\ \A j \in ei..ei + n - 1 : tab[j].flag = 0
  BY DEF E!Fits
<1>5. E!Unused(epage, ei, n) <=>
        /\ ei + n <= ENUM
        /\ \A c \in E!Cells : tab[c].flag = 1 => c + tab[c].size <= ei \/ ei + n <= c
  BY DEF E!Unused
<1>. HIDE DEF tab
<1>6. ASSUME \A j \in ei..ei + n - 1 : tab[j].flag = 0, NEW c \in E!Cells, tab[c].flag = 1
      PROVE  c + tab[c].size <= ei \/ ei + n <= c
  <2>1. CASE c < ei BY <1>3, <1>6, <2>1
  <2>2. CASE c >= ei BY SMTT(30), Z3T(60), <1>1, <1>6, <2>2 DEF E!Cells
  <2>. QED BY SMTT(30), Z3T(60), <1>1, <2>1, <2>2 DEF E!Cells
<1>7. ASSUME ei + n <= ENUM, NEW j \in ei..ei + n - 1,
             \A c \in E!Cells : tab[c].flag = 1 => c + tab[c].size <= ei \/ ei + n <= c
      PROVE  tab[j].flag = 0
  <2>1. j \in E!Cells BY SMTT(30), Z3T(60), <1>1, <1>7 DEF E!Cells
  <2>. QED BY SMTT(30), Z3T(60), <1>1, <1>2, <1>7, <2>1 DEF E!Cells
<1>. QED BY <1>4, <1>5, <1>6, <1>7

\* The block that alloc of ealloc.c takes is inside its page and apart from the others.
LEMMA EFoundStep ==
  ASSUME EInv, ~E!Idle, E!Found
  PROVE  /\ EInv' /\ E!Unused(epage, ei, E!Units(esize))
         /\ eret' = <<estart[epage], ei>> /\ eret' # E!NoAddr /\ UNCHANGED estart
<1>. DEFINE n == E!Units(esize)
            tab == emem[epage]
<1>. USE EallocAssumption
<1>0. n \in Nat \ {0} BY SMTT(30), Z3T(60), EUnitsType DEF EInv, E!TypeOK
<1>1. epage \in E!Pages /\ ei \in E!Cells /\ ei \in Int /\ estart[epage] # E!NULL
  BY SMTT(30), Z3T(60) DEF E!Found, E!InPage, EInv, E!TypeOK, E!Idle, E!Pages, E!Cells
<1>2. /\ tab[ei].flag = 0 /\ E!Fits(epage, ei, n) /\ eret' = <<estart[epage], ei>>
      /\ epage' = -1 /\ UNCHANGED <<estart, esize, ei>>
      /\ emem' = [emem EXCEPT ![epage][ei] = [adr |-> <<estart[epage], ei>>, size |-> n, flag |-> 1]]
  BY DEF E!Found
<1>3. E!Unused(epage, ei, n) BY <1>0, <1>2, EFitsUnused DEF E!Found, E!InPage
<1>4. ei + n <= ENUM /\ \A j \in ei..ei + n - 1 : tab[j].flag = 0 BY <1>2 DEF E!Fits
<1>5. \A c \in E!Cells : c < ei /\ tab[c].flag = 1 => c + tab[c].size <= ei
  BY <1>1 DEF EInv, ECursorOK, E!Pages, E!Found, E!InPage
<1>. HIDE DEF n
<1>6. n \in 1..ENUM BY SMTT(30), Z3T(60), <1>0, <1>1, <1>4 DEF E!Cells
<1>7. estart[epage] \in E!Pages \cup {E!MAP_FAILED} BY <1>1 DEF EInv, E!TypeOK
<1>8. E!TypeOK'
  <2>1. [adr |-> <<estart[epage], ei>>, size |-> n, flag |-> 1] \in E!Entry
    BY <1>1, <1>6, <1>7 DEF E!Entry, E!Addr
  <2>2. emem' \in [E!Pages -> [E!Cells -> E!Entry]] BY <1>1, <1>2, <2>1 DEF EInv, E!TypeOK
  <2>3. eret' \in E!Addr BY <1>1, <1>2, <1>7 DEF E!Addr
  <2>. QED BY SMTT(30), Z3T(60), <1>2, <2>2, <2>3 DEF EInv, E!TypeOK
<1>9. /\ emem'[epage][ei] = [adr |-> <<estart[epage], ei>>, size |-> n, flag |-> 1]
      /\ \A k \in E!Cells : k # ei => emem'[epage][k] = tab[k]
      /\ \A q \in E!Pages : q # epage => emem'[q] = emem[q]
  BY <1>1, <1>2 DEF EInv, E!TypeOK
<1>10. EEntriesOK' BY SMTT(30), Z3T(60), <1>1, <1>2, <1>9 DEF EInv, EEntriesOK
<1>11. E!BlocksApart'
  <2>. SUFFICES ASSUME NEW q \in E!Pages, NEW k \in E!Cells, emem'[q][k].flag = 1
                PROVE  /\ k + emem'[q][k].size <= ENUM
                       /\ \A j \in k + 1..k + emem'[q][k].size - 1 : emem'[q][j].flag = 0
    BY DEF E!BlocksApart
  <2>1. CASE q # epage BY SMTT(30), Z3T(60), <1>9, <2>1 DEF EInv, E!BlocksApart
  <2>2. CASE q = epage /\ k = ei BY SMTT(30), Z3T(60), <1>0, <1>1, <1>4, <1>9, <2>2 DEF E!Cells
  <2>3. CASE q = epage /\ k # ei
    <3>1. tab[k].flag = 1 /\ tab[k].size \in 1..ENUM BY <1>9, <2>3, EEntryType DEF EInv
    <3>2. k + tab[k].size <= ENUM /\ \A j \in k + 1..k + tab[k].size - 1 : tab[j].flag = 0
      BY <2>3, <3>1 DEF EInv, E!BlocksApart
    <3>3. ei \notin k + 1..k + tab[k].size - 1 BY SMTT(30), Z3T(60), <1>1, <1>5, <2>3, <3>1 DEF E!Cells
    <3>. HIDE DEF tab
    <3>. QED BY SMTT(30), Z3T(60), <1>9, <2>3, <3>1, <3>2, <3>3 DEF E!Cells
  <2>. QED BY <2>1, <2>2, <2>3
<1>12. ECursorOK' BY <1>2 DEF ECursorOK, E!Idle
<1>13. eret' # E!NoAddr BY <1>1, <1>2 DEF E!NoAddr
<1>. QED BY <1>2, <1>3, <1>8, <1>10, <1>11, <1>12, <1>13 DEF EInv, n

\* Going on in a page, the search leaves behind no block that is large enough.
LEMMA EGoOnStep ==
  ASSUME EInv, ~E!Idle, E!GoOn
  PROVE  EInv'
<1>. DEFINE n == E!Units(esize)
            tab == emem[epage]
<1>. USE EallocAssumption
<1>0. n \in Nat \ {0} BY SMTT(30), Z3T(60), EUnitsType DEF EInv, E!TypeOK
<1>1. /\ epage \in E!Pages /\ ei \in E!Cells /\ ei \in Int
      /\ epage < PNUM /\ ei < ENUM /\ UNCHANGED <<emem, estart, esize, epage, eret>>
  BY SMTT(30), Z3T(60) DEF E!GoOn, E!InPage, EInv, E!TypeOK, E!Idle, E!Pages, E!Cells
<1>2. \A k \in E!Cells : k < ei /\ tab[k].flag = 1 => k + tab[k].size <= ei
  BY <1>1 DEF EInv, ECursorOK
<1>3. \A k \in 0..ei - 1 : ~E!Unused(epage, k, n) BY <1>1 DEF EInv, ECursorOK
<1>4. \A k \in E!Cells : tab[k].size \in 1..ENUM /\ tab[k].flag \in {0, 1}
  BY <1>1, EEntryType DEF EInv
<1>5. /\ ei' \in 0..ENUM /\ \A k \in 0..ei' - 1 : ~E!Unused(epage, k, n)
      /\ \A k \in E!Cells : k < ei' /\ tab[k].flag = 1 => k + tab[k].size <= ei'
  <2>1. CASE tab[ei].flag = 0
    <3>1. ~E!Fits(epage, ei, n) /\ ei' = ei + 1 BY SMTT(30), Z3T(60), <2>1 DEF E!GoOn
    <3>2. ~E!Unused(epage, ei, n) BY <1>0, <1>1, <2>1, <3>1, EFitsUnused
    <3>. HIDE DEF tab, n
    <3>. QED BY SMTT(30), Z3T(60), <1>1, <1>2, <1>3, <1>4, <2>1, <3>1, <3>2 DEF E!Cells
  <2>2. CASE tab[ei].flag = 1
    <3>1. ei' = ei + tab[ei].size BY SMTT(30), Z3T(60), <2>2 DEF E!GoOn
    <3>2. ei + tab[ei].size <= ENUM /\ \A j \in ei + 1..ei + tab[ei].size - 1 : tab[j].flag = 0
      BY <1>1, <2>2 DEF EInv, E!BlocksApart
    <3>3. \A k \in ei..ei + tab[ei].size - 1 : ~E!Unused(epage, k, n)
      BY SMTT(30), Z3T(60), <1>0, <1>1, <1>4, <2>2 DEF E!Unused, E!Cells
    <3>. HIDE DEF tab, n
    <3>4. \A k \in E!Cells : k < ei' /\ tab[k].flag = 1 => k <= ei
      BY SMTT(30), Z3T(60), <1>1, <1>4, <3>1, <3>2 DEF E!Cells
    <3>. QED BY SMTT(30), Z3T(60), <1>1, <1>2, <1>3, <1>4, <3>1, <3>2, <3>3, <3>4 DEF E!Cells
  <2>. QED BY <1>1, <1>4, <2>1, <2>2
<1>6. E!TypeOK' BY <1>1, <1>5 DEF EInv, E!TypeOK
<1>7. ECursorOK'
  <2>1. \A r \in 0..epage - 1 : estart[r] # E!NULL /\ E!NoRoom(r, n) BY DEF EInv, ECursorOK
  <2>2. n' = n BY <1>1 DEF E!Units
  <2>3. \A r : E!NoRoom(r, n)' <=> E!NoRoom(r, n) BY <1>1, <2>2 DEF E!NoRoom, E!Unused
  <2>4. \A k : E!Unused(epage, k, n)' <=> E!Unused(epage, k, n) BY <1>1, <2>2 DEF E!Unused
  <2>. HIDE DEF n
  <2>. QED BY <1>1, <1>5, <2>1, <2>2, <2>3, <2>4 DEF ECursorOK, n
<1>. QED BY <1>1, <1>6, <1>7 DEF EInv, E!BlocksApart, EEntriesOK

\* What E!GrowsOnlyWhenFull and E!FirstFit say of a step.
EGrowsStep ==
  \A q \in E!Pages : estart[q] = E!NULL /\ estart'[q] # E!NULL =>
    \A r \in 0..q - 1 : estart[r] # E!NULL /\ E!NoRoom(r, E!Units(esize))
EFitStep ==
  ~E!Idle /\ E!Idle' =>
    IF eret' = E!NoAddr
    THEN \E q \in 0..PNUM :
           /\ \A r \in 0..q - 1 : E!NoRoom(r, E!Units(esize))
           /\ q = PNUM \/ (estart[q] = E!NULL /\ estart'[q] = E!MAP_FAILED)
    ELSE /\ E!Unused(epage, ei, E!Units(esize)) /\ eret' = <<estart[epage], ei>>
         /\ \A k \in 0..ei - 1 : ~E!Unused(epage, k, E!Units(esize))
         /\ \A r \in 0..epage - 1 : E!NoRoom(r, E!Units(esize))

\* A step that leaves start alone maps no page.
LEMMA ESameStart ==
  ASSUME estart' = estart
  PROVE  EGrowsStep
BY DEF EGrowsStep

\* mmap of the next page: the search has been through all earlier ones, and a page
\* without a mapping has an empty table.
LEMMA EMapPageStep ==
  ASSUME EInv, ~E!Idle, E!MapPage
  PROVE  EInv' /\ EGrowsStep /\ EFitStep
<1>. USE EallocAssumption
<1>1. epage \in E!Pages /\ epage \in 0..PNUM /\ UNCHANGED <<emem, esize, ei>> /\ estart[epage] = E!NULL
  BY SMTT(30), Z3T(60) DEF E!MapPage, EInv, E!TypeOK, E!Idle, E!Pages
<1>2. PICK s \in {epage, E!MAP_FAILED} :
        /\ estart' = [estart EXCEPT ![epage] = s]
        /\ \/ s = epage /\ UNCHANGED <<epage, eret>>
           \/ s = E!MAP_FAILED /\ epage' = -1 /\ eret' = E!NoAddr
  BY DEF E!MapPage
<1>3. /\ estart'[epage] = s /\ s # E!NULL
      /\ \A q \in E!Pages : q # epage => estart'[q] = estart[q]
  BY SMTT(30), Z3T(60), <1>1, <1>2 DEF EInv, E!TypeOK, E!NULL, E!MAP_FAILED, E!Pages
<1>4. E!TypeOK' BY SMTT(30), Z3T(60), <1>1, <1>2 DEF EInv, E!TypeOK, E!Addr
<1>5. EEntriesOK'
  <2>1. \A k \in E!Cells : emem[epage][k].flag = 0
    BY <1>1, EEntryType DEF EInv, EEntriesOK
  <2>2. ASSUME NEW q \in E!Pages PROVE estart'[q] \in {q, E!NULL, E!MAP_FAILED}
    BY <1>3 DEF EInv, EEntriesOK
  <2>3. ASSUME NEW q \in E!Pages, NEW k \in E!Cells
        PROVE  /\ emem[q][k].flag = 0 => emem[q][k] = E!FreeCell
               /\ emem[q][k].flag = 1 => estart'[q] # E!NULL /\ emem[q][k].adr = <<estart'[q], k>>
    <3>1. CASE q = epage BY <1>1, <2>1, <3>1 DEF EInv, EEntriesOK
    <3>2. CASE q # epage BY SMTT(30), Z3T(60), <1>3, <3>2 DEF EInv, EEntriesOK
    <3>. QED BY <3>1, <3>2
  <2>. QED BY <1>1, <2>2, <2>3 DEF EEntriesOK
<1>6. \A r \in 0..epage - 1 : estart[r] # E!NULL /\ E!NoRoom(r, E!Units(esize))
  BY DEF EInv, ECursorOK
<1>7. ECursorOK'
  <2>1. CASE s = E!MAP_FAILED BY SMTT(30), Z3T(60), <1>1, <1>2, <2>1 DEF ECursorOK, E!Idle, E!Pages, E!MAP_FAILED
  <2>2. CASE epage' = epage
    <3>1. \A r \in 0..epage - 1 : r \in E!Pages /\ r # epage BY SMTT(30), Z3T(60), <1>1 DEF E!Pages
    <3>2. \A r, k : E!Unused(r, k, E!Units(esize))' <=> E!Unused(r, k, E!Units(esize))
      BY <1>1 DEF E!Unused, E!Units
    <3>3. \A r : E!NoRoom(r, E!Units(esize))' <=> E!NoRoom(r, E!Units(esize))
      BY <1>1, <3>2 DEF E!NoRoom, E!Unused, E!Units
    <3>4. \A r \in 0..epage - 1 : estart'[r] # E!NULL /\ E!NoRoom(r, E!Units(esize))'
      BY <1>3, <1>6, <3>1, <3>3
    <3>. QED BY <1>1, <2>2, <3>2, <3>4 DEF EInv, ECursorOK, E!Idle
  <2>. QED BY <1>2, <2>1, <2>2
<1>8. EGrowsStep BY <1>3, <1>6 DEF EGrowsStep
<1>9. EFitStep
  <2>1. CASE s = epage /\ UNCHANGED epage BY <2>1 DEF EFitStep, E!Idle
  <2>2. CASE s = E!MAP_FAILED /\ eret' = E!NoAddr BY <1>1, <1>3, <1>6, <2>2 DEF EFitStep
  <2>. QED BY <1>2, <2>1, <2>2
<1>. QED BY <1>1, <1>4, <1>5, <1>7, <1>8, <1>9 DEF EInv, E!BlocksApart

\* Behind the last unit of a page the page has no room, and the next one is searched.
LEMMA ENextPageStep ==
  ASSUME EInv, ~E!Idle, E!NextPage
  PROVE  EInv'
<1>. USE EallocAssumption
<1>1. /\ epage \in E!Pages /\ epage \in Int /\ ei = ENUM /\ epage' = epage + 1 /\ ei' = 0
      /\ epage < PNUM /\ estart[epage] # E!NULL /\ UNCHANGED <<emem, estart, esize, eret>>
  BY SMTT(30), Z3T(60) DEF E!NextPage, E!InPage, EInv, E!TypeOK, E!Idle, E!Pages
<1>2. E!TypeOK' BY SMTT(30), Z3T(60), <1>1 DEF EInv, E!TypeOK, E!Pages
<1>3. E!NoRoom(epage, E!Units(esize)) BY <1>1 DEF EInv, ECursorOK, E!NoRoom, E!Cells
<1>4. \A r \in 0..epage : estart[r] # E!NULL /\ E!NoRoom(r, E!Units(esize))
  BY SMTT(30), Z3T(60), <1>1, <1>3 DEF EInv, ECursorOK, E!Pages
<1>5. \A r : E!NoRoom(r, E!Units(esize))' <=> E!NoRoom(r, E!Units(esize))
  BY <1>1 DEF E!NoRoom, E!Unused, E!Units
<1>6. ECursorOK' BY SMTT(30), Z3T(60), <1>1, <1>4, <1>5 DEF ECursorOK, E!Pages, E!Cells
<1>. QED BY <1>1, <1>2, <1>6 DEF EInv, E!BlocksApart, EEntriesOK

\* dealloc frees on every page at most the block with the address.
LEMMA EDeallocStep ==
  ASSUME EInv, E!dealloc
  PROVE  EInv'
<1>. USE EallocAssumption
<1>1. E!Idle /\ UNCHANGED <<estart, esize, epage, ei, eret>> BY SMTT(30), Z3T(60) DEF E!dealloc
<1>2. PICK adr \in {<<s, k>> : s \in E!Pages \cup {E!MAP_FAILED}, k \in E!Cells} \cup {E!NoAddr} :
        emem' = [q \in E!Pages |-> [k \in E!Cells |->
                   IF E!FirstWith(q, adr, k) THEN E!FreeCell ELSE emem[q][k]]]
  BY SMTT(30), Z3T(60) DEF E!dealloc
<1>3. \A q \in E!Pages : \A k \in E!Cells : emem'[q][k] \in {E!FreeCell, emem[q][k]}
  BY SMTT(30), Z3T(60), <1>2
<1>4. E!FreeCell \in E!Entry BY SMTT(30), Z3T(60) DEF E!FreeCell, E!Entry, E!Addr
<1>5. emem' \in [E!Pages -> [E!Cells -> E!Entry]]
  <2>1. \A q \in E!Pages : \A k \in E!Cells : emem[q][k] \in E!Entry BY SMTT(30), Z3T(60) DEF EInv, E!TypeOK
  <2>. QED BY SMTT(30), Z3T(60), <1>2, <1>4, <2>1
<1>6. EEntriesOK' BY SMTT(30), Z3T(60), <1>1, <1>3 DEF EInv, EEntriesOK, E!FreeCell
<1>7. E!BlocksApart'
  <2>. SUFFICES ASSUME NEW q \in E!Pages, NEW k \in E!Cells, emem'[q][k].flag = 1
                PROVE  /\ k + emem'[q][k].size <= ENUM
                       /\ \A j \in k + 1..k + emem'[q][k].size - 1 : emem'[q][j].flag = 0
    BY SMTT(30), Z3T(60) DEF E!BlocksApart
  <2>1. emem'[q][k] = emem[q][k] BY SMTT(30), Z3T(60), <1>3 DEF E!FreeCell
  <2>2. emem[q][k].size \in 1..ENUM BY SMTT(30), Z3T(60), EEntryType DEF EInv
  <2>3. /\ k + emem[q][k].size <= ENUM
        /\ \A j \in k + 1..k + emem[q][k].size - 1 : emem[q][j].flag = 0
    BY SMTT(30), Z3T(60), <2>1 DEF EInv, E!BlocksApart
  <2>4. \A j \in k + 1..k + emem[q][k].size - 1 : j \in E!Cells BY SMTT(30), Z3T(60), <2>2, <2>3 DEF E!Cells
  <2>5. \A j \in E!Cells : emem[q][j].flag = 0 => emem'[q][j].flag = 0 BY SMTT(30), Z3T(60), <1>3 DEF E!FreeCell
  <2>. QED BY SMTT(30), Z3T(60), <2>1, <2>3, <2>4, <2>5
<1>8. E!TypeOK' BY SMTT(30), Z3T(60), <1>1, <1>5 DEF EInv, E!TypeOK
<1>9. ECursorOK' BY SMTT(30), Z3T(60), <1>1 DEF ECursorOK, E!Idle
<1>. QED BY SMTT(30), Z3T(60), <1>6, <1>7, <1>8, <1>9 DEF EInv

\* Every step of ealloc.c preserves the invariant, maps a page only when no earlier
\* one has room, and ends a search with the first block that fits.
LEMMA EStep ==
  ASSUME EInv, [E!Next]_(E!vars)
  PROVE  EInv' /\ EGrowsStep /\ EFitStep
<1>. USE EallocAssumption
<1>1. ASSUME E!Idle PROVE EFitStep BY <1>1 DEF EFitStep
<1>2. CASE E!cleanup
  <2>1. E!Idle /\ UNCHANGED <<esize, epage, ei, eret>> BY <1>2 DEF E!cleanup
  <2>2. estart' = [q \in E!Pages |-> E!NULL] /\ emem' = E!EmptyTable BY <1>2 DEF E!cleanup
  <2>3. /\ emem' \in [E!Pages -> [E!Cells -> E!Entry]]
        /\ estart' \in [E!Pages -> E!Pages \cup {E!NULL, E!MAP_FAILED}]
        /\ E!BlocksApart' /\ EEntriesOK'
    BY <2>2, EEmptyOK
  <2>4. E!TypeOK' /\ ECursorOK' BY <2>1, <2>3 DEF EInv, E!TypeOK, ECursorOK, E!Idle
  <2>5. EGrowsStep BY <2>2 DEF EGrowsStep
  <2>. QED BY <1>1, <2>1, <2>3, <2>4, <2>5 DEF EInv
<1>3. CASE E!alloc
  <2>1. E!Idle /\ UNCHANGED <<emem, estart>> BY <1>3 DEF E!alloc
  <2>2. \/ eret' = E!NoAddr /\ UNCHANGED <<esize, epage, ei>>
        \/ esize' \in ESizes /\ epage' = 0 /\ ei' = 0 /\ UNCHANGED eret
    BY <1>3 DEF E!alloc
  <2>3. E!TypeOK' BY SMTT(30), Z3T(60), <2>1, <2>2 DEF EInv, E!TypeOK, E!Addr
  <2>4. ECursorOK' BY SMTT(30), Z3T(60), <2>1, <2>2 DEF ECursorOK, E!Idle, E!Cells
  <2>. QED BY <1>1, <2>1, <2>3, <2>4, ESameStart DEF EInv, E!BlocksApart, EEntriesOK
<1>4. CASE E!search /\ E!MapPage BY <1>4, EMapPageStep DEF E!search
<1>5. CASE E!search /\ E!Found
  <2>1. ~E!Idle /\ epage \in 0..PNUM - 1 /\ epage < PNUM
    BY SMTT(30), Z3T(60), <1>5 DEF E!search, E!Found, E!InPage, EInv, E!TypeOK, E!Idle
  <2>2. EFitStep BY <1>5, <2>1, EFoundStep DEF EFitStep, EInv, ECursorOK
  <2>. QED BY <1>5, <2>1, <2>2, EFoundStep, ESameStart
<1>6. CASE E!search /\ E!GoOn
  <2>1. ~E!Idle /\ ~E!Idle' /\ estart' = estart BY <1>6 DEF E!search, E!GoOn, E!Idle
  <2>. QED BY <1>6, <2>1, EGoOnStep, ESameStart DEF EFitStep
<1>7. CASE E!search /\ E!NextPage
  <2>1. ~E!Idle /\ ~E!Idle' /\ estart' = estart
    BY SMTT(30), Z3T(60), <1>7 DEF E!search, E!NextPage, E!Idle, EInv, E!TypeOK
  <2>. QED BY <1>7, <2>1, ENextPageStep, ESameStart DEF EFitStep
<1>8. CASE E!search /\ E!NotFound
  <2>1. ~E!Idle /\ epage = PNUM /\ epage' = -1 /\ eret' = E!NoAddr /\ UNCHANGED <<emem, estart, esize, ei>>
    BY SMTT(30), Z3T(60), <1>8 DEF E!search, E!NotFound, EInv, E!TypeOK, E!Idle
  <2>2. E!TypeOK' /\ ECursorOK' BY SMTT(30), Z3T(60), <2>1 DEF EInv, E!TypeOK, E!Addr, ECursorOK, E!Idle
  <2>3. \A r \in 0..PNUM - 1 : E!NoRoom(r, E!Units(esize)) BY <2>1 DEF EInv, ECursorOK
  <2>4. EFitStep BY SMTT(30), Z3T(60), <2>1, <2>3 DEF EFitStep
  <2>. QED BY <2>1, <2>2, <2>4, ESameStart DEF EInv, E!BlocksApart, EEntriesOK
<1>9. CASE E!dealloc BY SMTT(30), Z3T(60), <1>1, <1>9, EDeallocStep, ESameStart DEF E!dealloc
<1>10. CASE UNCHANGED E!vars
  <2>1. UNCHANGED <<emem, estart, esize, epage, ei, eret>> BY <1>10 DEF E!vars
  <2>2. \A r : E!NoRoom(r, E!Units(esize))' <=> E!NoRoom(r, E!Units(esize))
    BY <2>1 DEF E!NoRoom, E!Unused, E!Units
  <2>3. \A r, k : E!Unused(r, k, E!Units(esize))' <=> E!Unused(r, k, E!Units(esize))
    BY <2>1 DEF E!Unused, E!Units
  <2>4. ECursorOK' BY <2>1, <2>2, <2>3 DEF EInv, ECursorOK, E!Idle
  <2>5. EFitStep BY <2>1 DEF EFitStep, E!Idle
  <2>. QED BY <2>1, <2>4, <2>5, ESameStart DEF EInv, E!TypeOK, E!BlocksApart, EEntriesOK
<1>. QED BY <1>2, <1>3, <1>4, <1>5, <1>6, <1>7, <1>8, <1>9, <1>10 DEF E!Next, E!search

\* Of a program that is linked with either allocator, what ealloc.c does.
LEMMA EInvariant == MCSpec => []EInv /\ ([][E!Next]_(E!vars))
<1>1. MCInit => EInv BY EInitInv DEF MCInit
<1>2. [MCNext]_allvars => [E!Next]_(E!vars)
  BY DEF MCNext, AllocStep, EallocStep, allvars, evars, E!vars
<1>3. EInv /\ [E!Next]_(E!vars) => EInv' BY EStep
<1>. QED BY <1>1, <1>2, <1>3, PTL DEF MCSpec

\* The blocks of every page of ealloc.c lie inside the page and do not overlap, and
\* an address identifies a block, for every number and size of pages, whichever of
\* the calls of mmap fail.
THEOREM EallocSafe == MCSpec => []EallocBlocks
<1>1. EInv => EallocBlocks BY EDistinct DEF EInv, EallocBlocks
<1>. QED BY <1>1, EInvariant, PTL

\* ealloc.c maps a page only when no earlier page has room for the request.
THEOREM EallocGrowsWhenFull == MCSpec => EallocGrows
<1>1. EInv /\ [E!Next]_(E!vars) => [EGrowsStep]_(E!vars) BY EStep
<1>. QED BY <1>1, EInvariant, PTL DEF EallocGrows, E!GrowsOnlyWhenFull, EGrowsStep

\* alloc of ealloc.c returns the lowest free block that is large enough on the first
\* page that has one, and NULL only if there is none or the next page cannot be mapped.
THEOREM EallocReturnsFirstFit == MCSpec => EallocFirstFit
<1>1. EInv /\ [E!Next]_(E!vars) => [EFitStep]_(E!vars) BY EStep
<1>. QED BY <1>1, EInvariant, PTL DEF EallocFirstFit, E!FirstFit, EFitStep
=============================================================================
