----------------------------- MODULE ShellProofs -----------------------------
(***************************************************************************)
(* Proofs about the descriptors of the shell of hw2 for any number of      *)
(* commands on a line, any number of lines and pipes of any size.          *)
(***************************************************************************)
EXTENDS Shell, FiniteSetTheorems, TLAPS

\* Zenon proves the steps that do not name another prover.  Those that need arithmetic or
\* Boolean-valued variables name two, the second for when the first runs out of time.
USE ZenonT(60)

(***************************************************************************)
(* The inductive invariant                                                 *)
(***************************************************************************)

\* A session has at most one descriptor e above 2 besides the pipes of the line: the batch
\* file, or the pipe that wait_and_close missed.  No descriptor is NoExtra.
NoExtra == MaxCmds + 6
Extras == 3..NoExtra

\* The descriptors above 2 other than e, and their numbers from 0 on.
Slot(e, k) == IF 3 + k < e THEN 3 + k ELSE 4 + k
Index(e, f) == IF f < e THEN f - 3 ELSE f - 4

\* A table with x at e, the read ends of n pipes in the first slots, and behind them, if w
\* holds, the write end of the last one.
InSlot(e, n, w, f) ==
  IF Index(e, f) < n THEN R(Index(e, f)) ELSE IF w /\ Index(e, f) = n THEN W(n - 1) ELSE None
Table(e, x, n, w) ==
  [f \in FDs |-> IF f <= 2 THEN Tty ELSE IF f = e THEN x ELSE InSlot(e, n, w, f)]

\* A line of one command makes no pipe.
Pipes(n) == IF cmd_cnt > 1 THEN n ELSE 0
Prev(e, k) == IF cmd_cnt > 1 /\ k > 0 THEN Slot(e, k - 1) ELSE 0
Shared(e, x, n) == IF cmd_cnt > 1 THEN Table(e, x, n, TRUE) ELSE Table(e, x, 0, FALSE)
Made(e, k) == cmd_cnt > 1 => fd = <<Slot(e, k), Slot(e, k + 1)>>

\* The shell between two lines, and in each step of its loop over the commands.
ShellOK(e, x) ==
  /\ pc \in {"prompt", "exit"} => table = Table(e, x, 0, FALSE)
  /\ pc \in {"pipe", "fork", "parent"} => i \in 0..cmd_cnt - 1 /\ fd_prev = Prev(e, i)
  /\ pc = "pipe" => table = Table(e, x, Pipes(i), FALSE)
  /\ pc \in {"fork", "parent"} => table = Shared(e, x, i + 1) /\ Made(e, i)
  /\ pc = "wait" => cmd_cnt > 0 /\ table = Table(e, x, Pipes(cmd_cnt), FALSE)

\* What a child has before it has plumbed its descriptors, and after that.
Forked(e, x, j) ==
  /\ ctable[j] = Shared(e, x, j + 1)
  /\ mem[j].prev = Prev(e, j) /\ (cmd_cnt > 1 => mem[j].fd = <<Slot(e, j), Slot(e, j + 1)>>)
Plumbed(j) ==
  /\ In(j) = IF j = 0 THEN Tty ELSE R(j - 1)
  /\ Out(j) = IF j = cmd_cnt - 1 THEN Tty ELSE W(j)
  /\ \A k \in Cmds : Has(ctable[j], W(k)) => k = j
ChildOK(e, x, j) ==
  /\ st[j] # "none" => j < cmd_cnt /\ pc \notin {"prompt", "exit"}
  /\ st[j] = "new" => Forked(e, x, j)
  /\ st[j] \in {"run", "failed"} => Plumbed(j)
  /\ st[j] \in {"none", "done"} => ctable[j] = Closed
ChildrenOK(e, x) == \A j \in Cmds : ChildOK(e, x, j)

Types ==
  /\ batch \in BOOLEAN /\ pc \in {"prompt", "exit", "pipe", "fork", "parent", "wait"}
  /\ cmd_cnt \in 0..MaxCmds
  /\ st \in [Cmds -> {"none", "new", "run", "failed", "done"}]
  /\ DOMAIN ctable = Cmds /\ DOMAIN mem = Cmds

Shape(e, x) == (e \in FDs => batch) /\ ShellOK(e, x) /\ ChildrenOK(e, x)
Inv == Types /\ \E e \in Extras, x \in {File, Old} : Shape(e, x)

(***************************************************************************)
(* Tables of descriptors                                                   *)
(***************************************************************************)
\* A line may have a command.
LEMMA SizesType == MaxCmds \in Nat \ {0} /\ MaxOut \in Nat
BY ShellAssumption

\* What a descriptor refers to is one thing.
LEMMA Objects ==
  /\ \A k, m : R(k) # W(m) /\ (R(k) = R(m) => k = m) /\ (W(k) = W(m) => k = m)
  /\ \A k : {R(k), W(k)} \cap {None, Tty, File, Old} = {} /\ R(k)[1] = "r" /\ W(k)[1] = "w"
  /\ None \notin {Tty, File, Old} /\ Tty \notin {File, Old}
  /\ \A o \in {None, Tty, File, Old} : o[1] # "r" /\ o[1] # "w"
BY SMTT(30), Z3T(60) DEF None, Tty, File, Old, R, W

\* The slots are the descriptors above 2 other than e.
LEMMA SlotOf ==
  ASSUME NEW e \in Extras, NEW k \in 0..MaxCmds
  PROVE  /\ Slot(e, k) \in FDs /\ ~(Slot(e, k) <= 2) /\ Slot(e, k) # e /\ Index(e, Slot(e, k)) = k
         /\ Slot(e, k) # 0 /\ Slot(e, k) # 1
BY SMTT(30), Z3T(60), SizesType DEF Slot, Index, Extras, NoExtra, FDs

\* Every such descriptor is a slot.
LEMMA IndexOf ==
  ASSUME NEW e \in Extras, NEW f \in FDs, ~(f <= 2), f # e
  PROVE  Index(e, f) \in Nat /\ Slot(e, Index(e, f)) = f
BY SMTT(30), Z3T(60), SizesType DEF Slot, Index, Extras, NoExtra, FDs

\* The least element of a set.
LEMMA MinIs ==
  ASSUME NEW S \in SUBSET Int, NEW m \in S, \A y \in S : m <= y
  PROVE  Min(S) = m
<1>1. \A z \in S : (\A y \in S : z <= y) => z = m BY SMTT(30), Z3T(60)
<1>. QED BY <1>1 DEF Min

\* A table is known by its descriptors.
Agrees(t, e, x, n, w) ==
  /\ t = [f \in FDs |-> t[f]] /\ (\A f \in 0..2 : t[f] = Tty) /\ (e \in FDs => t[e] = x)
  /\ \A f \in FDs : ~(f <= 2) /\ f # e => t[f] = InSlot(e, n, w, f)
\* Two tables that agree are the same.
LEMMA SameTable ==
  \A t, e, x, n, w : Agrees(t, e, x, n, w) => t = Table(e, x, n, w)
<1>. SUFFICES ASSUME NEW t, NEW e, NEW x, NEW n, NEW w, Agrees(t, e, x, n, w)
              PROVE  t = Table(e, x, n, w)
  OBVIOUS
<1>1. \A f \in FDs : f <= 2 => f \in 0..2 BY SMTT(30), Z3T(60), SizesType DEF FDs
<1>2. ASSUME NEW f \in FDs PROVE t[f] = Table(e, x, n, w)[f]
  <2>1. CASE f <= 2 BY <1>1, <2>1 DEF Table, Agrees
  <2>2. CASE ~(f <= 2) /\ f = e BY <2>2 DEF Table, Agrees
  <2>3. CASE ~(f <= 2) /\ f # e BY <2>3 DEF Table, Agrees
  <2>. QED BY <2>1, <2>2, <2>3
<1>3. Table(e, x, n, w) = [f \in FDs |-> Table(e, x, n, w)[f]] BY DEF Table
<1>. QED BY <1>2, <1>3 DEF Agrees

\* pipe takes the next two slots.
Makes(t, e, x, n) ==
  /\ Lowest(t) = Slot(e, n) /\ Min(Free(t) \ {Slot(e, n)}) = Slot(e, n + 1)
  /\ [t EXCEPT ![Slot(e, n)] = R(n), ![Slot(e, n + 1)] = W(n)] = Table(e, x, n + 1, TRUE)
LEMMA PipeTable ==
  ASSUME NEW t, NEW e \in Extras, NEW x \in {File, Old}, NEW n \in 0..MaxCmds - 1,
         t = Table(e, x, n, FALSE)
  PROVE  Makes(t, e, x, n)
<1>1. n \in 0..MaxCmds /\ n + 1 \in 0..MaxCmds /\ n \in Nat /\ ~(n < n) /\ ~(n + 1 < n) /\ n < n + 1
      /\ ~(n + 1 < n + 1) /\ (n + 1) - 1 = n
  BY SMTT(30), Z3T(60), SizesType
<1>2. Free(t) \subseteq FDs /\ FDs \subseteq Int
  <2>1. Free(t) \subseteq FDs BY DEF Free
  <2>2. FDs \subseteq Int BY SMTT(30), Z3T(60), SizesType DEF FDs
  <2>. QED BY <2>1, <2>2
<1>3. Slot(e, n) \in Free(t) /\ Slot(e, n + 1) \in Free(t)
  <2>1. ASSUME NEW k \in {n, n + 1} PROVE Slot(e, k) \in Free(t)
    <3>1. /\ Slot(e, k) \in FDs /\ ~(Slot(e, k) <= 2) /\ Slot(e, k) # e /\ Index(e, Slot(e, k)) = k
      BY <1>1, SlotOf
    <3>2. t[Slot(e, k)] = None BY <1>1, <3>1 DEF Table, InSlot
    <3>. QED BY <3>1, <3>2 DEF Free
  <2>. QED BY <2>1
<1>4. Slot(e, n) # Slot(e, n + 1) /\ Slot(e, n) < Slot(e, n + 1)
  BY SMTT(30), Z3T(60), <1>1 DEF Slot, Extras
<1>5. ASSUME NEW f \in Free(t)
      PROVE  Slot(e, n) <= f /\ (f # Slot(e, n) => Slot(e, n + 1) <= f)
  <2>1. f \in FDs /\ ~(f <= 2) /\ f # e
    BY <1>5, Objects DEF Free, Table
  <2>2. Index(e, f) \in Nat /\ Slot(e, Index(e, f)) = f BY <2>1, IndexOf
  <2>3. ~(Index(e, f) < n) BY <1>5, <2>1, Objects DEF Free, Table, InSlot
  <2>4. Index(e, f) = n \/ n + 1 <= Index(e, f) BY SMTT(30), Z3T(60), <1>1, <2>2, <2>3
  <2>5. \A k, m \in Nat : k <= m => Slot(e, k) <= Slot(e, m) BY SMTT(30), Z3T(60) DEF Slot, Extras
  <2>6. n <= Index(e, f) BY SMTT(30), Z3T(60), <1>1, <2>2, <2>3
  <2>7. n \in Nat /\ n + 1 \in Nat BY SMTT(30), Z3T(60), <1>1
  <2>. QED BY <2>2, <2>4, <2>5, <2>6, <2>7
<1>6. Lowest(t) = Slot(e, n)
  <2>1. Free(t) \in SUBSET Int BY <1>2
  <2>. QED BY <2>1, <1>3, <1>5, MinIs DEF Lowest
<1>7. Min(Free(t) \ {Slot(e, n)}) = Slot(e, n + 1)
  <2>1. Free(t) \ {Slot(e, n)} \in SUBSET Int BY <1>2
  <2>2. Slot(e, n + 1) \in Free(t) \ {Slot(e, n)} BY <1>3, <1>4
  <2>3. \A f \in Free(t) \ {Slot(e, n)} : Slot(e, n + 1) <= f BY <1>5
  <2>. QED BY <2>1, <2>2, <2>3, MinIs
<1>8. [t EXCEPT ![Slot(e, n)] = R(n), ![Slot(e, n + 1)] = W(n)] = Table(e, x, n + 1, TRUE)
  <2>. DEFINE u == [t EXCEPT ![Slot(e, n)] = R(n), ![Slot(e, n + 1)] = W(n)]
  <2>1. t = [f \in FDs |-> t[f]] BY DEF Table
  <2>2. /\ u = [f \in FDs |-> u[f]]
        /\ \A f \in FDs : u[f] = IF f = Slot(e, n + 1) THEN W(n)
                                 ELSE IF f = Slot(e, n) THEN R(n) ELSE t[f]
    BY <2>1, <1>1, SlotOf
  <2>. HIDE DEF u
  <2>3. \A f \in 0..2 : f \in FDs /\ f <= 2 BY SMTT(30), Z3T(60), SizesType DEF FDs
  <2>4. /\ ~(Slot(e, n) <= 2) /\ ~(Slot(e, n + 1) <= 2) /\ Slot(e, n) # e /\ Slot(e, n + 1) # e
        /\ Index(e, Slot(e, n)) = n /\ Index(e, Slot(e, n + 1)) = n + 1
    BY <1>1, SlotOf
  <2>5. \A f \in 0..2 : u[f] = Tty BY <2>2, <2>3, <2>4 DEF Table
  <2>6. e \in FDs => u[e] = x
    <3>1. e > 2 /\ ~(e <= 2) BY SMTT(30), Z3T(60) DEF Extras
    <3>. QED BY <2>2, <2>4, <3>1 DEF Table
  <2>7. ASSUME NEW f \in FDs, ~(f <= 2), f # e
        PROVE  u[f] = InSlot(e, n + 1, TRUE, f)
    <3>1. CASE f = Slot(e, n + 1) BY <3>1, <1>1, <2>2, <2>4 DEF InSlot
    <3>2. CASE f = Slot(e, n) BY <3>2, <1>1, <1>4, <2>2, <2>4 DEF InSlot
    <3>3. CASE f # Slot(e, n) /\ f # Slot(e, n + 1)
      <4>1. Index(e, f) \in Nat /\ Slot(e, Index(e, f)) = f BY <2>7, IndexOf
      <4>2. Index(e, f) # n /\ Index(e, f) # n + 1 BY <4>1, <3>3
      <4>3. Index(e, f) < n <=> Index(e, f) < n + 1 BY SMTT(30), Z3T(60), <4>1, <4>2, <1>1
      <4>4. u[f] = t[f] BY <2>2, <3>3
      <4>5. t[f] = InSlot(e, n, FALSE, f) BY <2>7 DEF Table
      <4>. QED BY <4>2, <4>3, <4>4, <4>5 DEF InSlot
    <3>. QED BY <3>1, <3>2, <3>3
  <2>8. Agrees(u, e, x, n + 1, TRUE) BY <2>2, <2>5, <2>6, <2>7 DEF Agrees
  <2>9. u = Table(e, x, n + 1, TRUE) BY <2>8, SameTable
  <2>. QED BY <2>9 DEF u
<1>. QED BY <1>6, <1>7, <1>8 DEF Makes

\* The parent closes the write end.
LEMMA CloseTable ==
  ASSUME NEW e \in Extras, NEW x \in {File, Old}, NEW n \in 0..MaxCmds,
         NEW t, t = Table(e, x, n, TRUE)
  PROVE  [t EXCEPT ![Slot(e, n)] = None] = Table(e, x, n, FALSE)
<1>. DEFINE u == [t EXCEPT ![Slot(e, n)] = None]
<1>1. t = [f \in FDs |-> t[f]] BY DEF Table
<1>2. /\ u = [f \in FDs |-> u[f]]
      /\ \A f \in FDs : u[f] = IF f = Slot(e, n) THEN None ELSE t[f]
  BY <1>1, SlotOf
<1>. HIDE DEF u
<1>3. \A f \in 0..2 : f \in FDs /\ f <= 2 /\ f # Slot(e, n) BY SMTT(30), Z3T(60), SizesType, SlotOf DEF FDs
<1>4. \A f \in 0..2 : u[f] = Tty BY <1>2, <1>3 DEF Table
<1>5. e \in FDs => u[e] = x
  <2>1. ~(e <= 2) BY SMTT(30), Z3T(60) DEF Extras
  <2>. QED BY <1>2, <2>1, SlotOf DEF Table
<1>6. ASSUME NEW f \in FDs, ~(f <= 2), f # e
      PROVE  u[f] = InSlot(e, n, FALSE, f)
  <2>1. CASE f = Slot(e, n)
    <3>1. Index(e, f) = n /\ ~(n < n) BY SMTT(30), Z3T(60), <2>1, SlotOf
    <3>. QED BY <1>2, <2>1, <3>1 DEF InSlot
  <2>2. CASE f # Slot(e, n)
    <3>1. Index(e, f) # n BY <1>6, <2>2, IndexOf
    <3>. QED BY <1>2, <1>6, <2>2, <3>1 DEF Table, InSlot
  <2>. QED BY <2>1, <2>2
<1>7. Agrees(u, e, x, n, FALSE) BY <1>2, <1>4, <1>5, <1>6 DEF Agrees
<1>8. u = Table(e, x, n, FALSE) BY <1>7, SameTable
<1>. QED BY <1>8 DEF u

\* What wait_and_close leaves open when the slots hold n read ends: x at its place, or the
\* last read end, or nothing.
CloseAll(t, c) ==
  [f \in FDs |-> CASE f \in 3..2 + c -> None
                   [] t[f][1] = "r" /\ f \notin 3..2 + c -> Old
                   [] OTHER -> t[f]]
Leaves(t, e, c) ==
  \E g \in Extras, y \in {File, Old} :
    (g \in FDs => e \in FDs) /\ CloseAll(t, c) = Table(g, y, 0, FALSE)
LEMMA WaitTable ==
  ASSUME NEW t, NEW e \in Extras, NEW x \in {File, Old}, NEW c \in 1..MaxCmds, NEW n,
         n = (IF c > 1 THEN c ELSE 0), t = Table(e, x, n, FALSE)
  PROVE  Leaves(t, e, c)
<1>. DEFINE u == CloseAll(t, c)
            Empty(g, y) == \A f \in FDs : u[f] = IF f <= 2 THEN Tty ELSE IF f = g THEN y ELSE None
<1>. SUFFICES \E g \in Extras, y \in {File, Old} : (g \in FDs => e \in FDs) /\ u = Table(g, y, 0, FALSE)
  BY DEF Leaves
<1>1. /\ n \in Nat /\ n <= c /\ c \in Nat /\ c <= MaxCmds /\ c > 0 /\ (n = 0 \/ n = c)
      /\ e \in Int /\ e > 2 /\ e <= MaxCmds + 6 /\ MaxCmds \in Nat
      /\ FDs \subseteq Int /\ \A f \in FDs : f >= 0 /\ f <= MaxCmds + 5
  BY SMTT(30), Z3T(60), SizesType DEF Extras, NoExtra, FDs
<1>2. ASSUME NEW g \in Extras, NEW y, Empty(g, y) PROVE u = Table(g, y, 0, FALSE)
  <2>1. \A f \in FDs : ~(f <= 2) /\ f # g => None = InSlot(g, 0, FALSE, f)
    <3>. SUFFICES ASSUME NEW f \in FDs, ~(f <= 2), f # g PROVE ~(Index(g, f) < 0) BY DEF InSlot
    <3>1. Index(g, f) \in Nat BY IndexOf
    <3>. QED BY SMTT(30), Z3T(60), <3>1
  <2>2. \A f \in FDs : u[f] = Table(g, y, 0, FALSE)[f] BY <1>2, <2>1 DEF Table
  <2>3. u = [f \in FDs |-> u[f]] BY DEF CloseAll
  <2>4. Table(g, y, 0, FALSE) = [f \in FDs |-> Table(g, y, 0, FALSE)[f]] BY DEF Table
  <2>. QED BY <2>2, <2>3, <2>4
<1>3. ASSUME NEW f \in FDs
      PROVE  u[f] = IF f <= 2 THEN Tty
                    ELSE IF f <= 2 + c THEN None
                    ELSE IF f = e THEN x
                    ELSE IF Index(e, f) < n THEN Old ELSE None
  <2>1. f \in 3..2 + c <=> ~(f <= 2) /\ f <= 2 + c BY SMTT(30), Z3T(60), <1>1
  <2>2. f <= 2 => f <= 2 + c BY SMTT(30), Z3T(60), <1>1
  <2>3. t[f] = IF f <= 2 THEN Tty ELSE IF f = e THEN x
               ELSE IF Index(e, f) < n THEN R(Index(e, f)) ELSE None
    BY DEF Table, InSlot
  <2>4. t[f][1] = "r" <=> ~(f <= 2) /\ f # e /\ Index(e, f) < n BY <2>3, Objects
  <2>5. u[f] = CASE f \in 3..2 + c -> None
                 [] t[f][1] = "r" /\ f \notin 3..2 + c -> Old
                 [] OTHER -> t[f]
    BY DEF CloseAll
  <2>. QED BY <2>1, <2>2, <2>3, <2>4, <2>5
<1>. HIDE DEF u
<1>4. CASE e <= 2 + c /\ n = 0
  <2>1. \A f \in FDs : ~(f <= 2) /\ ~(f <= 2 + c) => f # e /\ f # NoExtra /\ ~(Index(e, f) < n)
    BY SMTT(30), Z3T(60), <1>1, <1>4 DEF Index, NoExtra
  <2>2. NoExtra \in Extras /\ NoExtra \notin FDs /\ \A f \in FDs : f # NoExtra
    BY SMTT(30), Z3T(60), <1>1 DEF Extras, NoExtra
  <2>3. Empty(NoExtra, Old) BY <1>3, <2>1, <2>2
  <2>. QED BY <1>2, <2>2, <2>3
<1>5. CASE e <= 2 + c /\ n = c
  <2>1. /\ 3 + c \in Extras /\ e \in FDs /\ ~(3 + c <= 2) /\ ~(3 + c <= 2 + c) /\ 3 + c # e
        /\ Index(e, 3 + c) < n
    BY SMTT(30), Z3T(60), <1>1, <1>5 DEF Index, NoExtra, Extras, FDs
  <2>2. \A f \in FDs : ~(f <= 2) /\ ~(f <= 2 + c) /\ f # 3 + c => f # e /\ ~(Index(e, f) < n)
    BY SMTT(30), Z3T(60), <1>1, <1>5 DEF Index, NoExtra
  <2>3. Empty(3 + c, Old) BY <1>3, <2>1, <2>2
  <2>. QED BY <1>2, <2>1, <2>3
<1>6. CASE ~(e <= 2 + c)
  <2>1. \A f \in FDs : ~(f <= 2) /\ ~(f <= 2 + c) /\ f # e => ~(Index(e, f) < n)
    BY SMTT(30), Z3T(60), <1>1, <1>6 DEF Index
  <2>2. \A f \in FDs : f = e => ~(f <= 2) /\ ~(f <= 2 + c) BY SMTT(30), Z3T(60), <1>1, <1>6
  <2>3. Empty(e, x) BY <1>3, <2>1, <2>2
  <2>. QED BY <1>2, <2>3
<1>. QED BY <1>1, <1>4, <1>5, <1>6

\* The first descriptors of a table, and its write ends.
LEMMA TableHas ==
  ASSUME NEW e \in Extras, NEW x \in {File, Old}, NEW n, NEW w \in BOOLEAN
  PROVE  /\ Table(e, x, n, w)[0] = Tty /\ Table(e, x, n, w)[1] = Tty
         /\ \A k : Has(Table(e, x, n, w), W(k)) => w /\ k = n - 1
<1>1. 0 \in FDs /\ 1 \in FDs /\ 0 <= 2 /\ 1 <= 2 BY SMTT(30), Z3T(60), SizesType DEF FDs
<1>2. Table(e, x, n, w)[0] = Tty /\ Table(e, x, n, w)[1] = Tty BY <1>1 DEF Table
<1>3. ASSUME NEW k, NEW f \in FDs, Table(e, x, n, w)[f] = W(k) PROVE w /\ k = n - 1
  BY <1>3, Objects DEF Table, InSlot
<1>. QED BY <1>2, <1>3 DEF Has

\* A process that has ended has nothing open.
LEMMA ClosedHas == \A o : Has(Closed, o) => o = None
BY DEF Has, Closed

\* The child's dup2 and close calls give it the ends of its pipes.
LEMMA PlumbOK ==
  ASSUME Types, NEW e \in Extras, NEW x \in {File, Old}, NEW j \in Cmds, j < cmd_cnt, Forked(e, x, j)
  PROVE  /\ Plumb(j)[0] = IF j = 0 THEN Tty ELSE R(j - 1)
         /\ Plumb(j)[1] = IF j = cmd_cnt - 1 THEN Tty ELSE W(j)
         /\ \A k \in Cmds : Has(Plumb(j), W(k)) => k = j
<1>1. /\ j \in Nat /\ j \in 0..MaxCmds /\ j + 1 \in 0..MaxCmds /\ j < j + 1 /\ (j + 1) - 1 = j
      /\ ~(j + 1 < j + 1) /\ (j + 1 < cmd_cnt <=> j # cmd_cnt - 1)
      /\ (~(cmd_cnt > 1) => j = 0 /\ j = cmd_cnt - 1)
  BY SMTT(30), Z3T(60), SizesType DEF Types, Cmds
<1>2. CASE ~(cmd_cnt > 1)
  <2>1. Plumb(j) = Table(e, x, 0, FALSE) BY <1>2 DEF Plumb, Forked, Shared
  <2>2. Plumb(j)[0] = Tty /\ Plumb(j)[1] = Tty /\ \A k : ~Has(Plumb(j), W(k)) BY <2>1, TableHas
  <2>. QED BY <1>1, <1>2, <2>2
<1>3. CASE cmd_cnt > 1
  <2>. DEFINE T == ctable[j]
              r == mem[j].fd[1]
              w == mem[j].fd[2]
              p == mem[j].prev
              t == [T EXCEPT ![0] = T[p]]
              u == IF j + 1 < cmd_cnt THEN [t EXCEPT ![1] = t[w]] ELSE t
              v == [u EXCEPT ![r] = None]
  <2>1. Plumb(j) = v BY <1>3 DEF Plumb, Dup2
  <2>2. /\ T = Table(e, x, j + 1, TRUE) /\ p = Prev(e, j)
        /\ r = Slot(e, j) /\ w = Slot(e, j + 1)
    <3>1. /\ ctable[j] = Table(e, x, j + 1, TRUE) /\ mem[j].prev = Prev(e, j)
          /\ mem[j].fd = <<Slot(e, j), Slot(e, j + 1)>>
      BY <1>3 DEF Forked, Shared
    <3>2. mem[j].fd[1] = Slot(e, j) /\ mem[j].fd[2] = Slot(e, j + 1) BY SMTT(30), Z3T(60), <3>1
    <3>. QED BY <3>1, <3>2
  <2>. HIDE DEF T, p, r, w
  <2>3. T = [f \in FDs |-> T[f]] BY <2>2 DEF Table
  <2>4. 0 \in FDs /\ 1 \in FDs /\ 0 # 1 BY SMTT(30), Z3T(60), SizesType DEF FDs
  <2>5. /\ r \in FDs /\ w \in FDs /\ r # 0 /\ r # 1 /\ w # 0 /\ w # 1
        /\ ~(r <= 2) /\ ~(w <= 2) /\ r # e /\ w # e /\ Index(e, r) = j /\ Index(e, w) = j + 1
    BY <1>1, <2>2, SlotOf
  <2>6. T[0] = Tty /\ T[1] = Tty /\ T[w] = W(j)
    <3>1. T[0] = Tty /\ T[1] = Tty BY <2>2, TableHas
    <3>2. T[w] = InSlot(e, j + 1, TRUE, w) BY <2>2, <2>5 DEF Table
    <3>3. InSlot(e, j + 1, TRUE, w) = W((j + 1) - 1) BY <1>1, <2>5 DEF InSlot
    <3>. QED BY <1>1, <3>1, <3>2, <3>3
  <2>7. T[p] = IF j = 0 THEN Tty ELSE R(j - 1)
    <3>1. CASE j = 0
      <4>1. p = 0 BY SMTT(30), Z3T(60), <2>2, <3>1 DEF Prev
      <4>. QED BY <3>1, <4>1, <2>6
    <3>2. CASE j # 0
      <4>1. j > 0 /\ j - 1 \in 0..MaxCmds /\ j - 1 < j + 1 BY SMTT(30), Z3T(60), <3>2, <1>1, SizesType
      <4>2. p = Slot(e, j - 1) BY <1>3, <2>2, <4>1 DEF Prev
      <4>3. p \in FDs /\ ~(p <= 2) /\ p # e /\ Index(e, p) = j - 1 BY <4>1, <4>2, SlotOf
      <4>. QED BY <2>2, <3>2, <4>1, <4>3 DEF Table, InSlot
    <3>. QED BY <3>1, <3>2
  <2>8. \A k : Has(T, W(k)) => k = j BY <1>1, <2>2, TableHas
  <2>9. /\ t = [f \in FDs |-> t[f]] /\ t[0] = T[p] /\ \A f \in FDs : f # 0 => t[f] = T[f]
    BY <2>3, <2>4
  <2>. HIDE DEF t
  <2>10. /\ u = [f \in FDs |-> u[f]] /\ u[0] = t[0] /\ u[1] = IF j + 1 < cmd_cnt THEN t[w] ELSE t[1]
        /\ \A f \in FDs : f # 1 => u[f] = t[f]
    BY <2>4, <2>9
  <2>. HIDE DEF u
  <2>11. v[0] = u[0] /\ v[1] = u[1] /\ v[r] = None /\ \A f \in FDs : f # r => v[f] = u[f]
    BY <2>4, <2>5, <2>10
  <2>. HIDE DEF v
  <2>12. v[0] = IF j = 0 THEN Tty ELSE R(j - 1) BY <2>7, <2>9, <2>10, <2>11
  <2>13. v[1] = IF j = cmd_cnt - 1 THEN Tty ELSE W(j) BY <1>1, <2>4, <2>5, <2>6, <2>9, <2>10, <2>11
  <2>14. ASSUME NEW k \in Cmds, NEW f \in FDs, v[f] = W(k) PROVE k = j
    <3>1. CASE f = 0 BY <3>1, <2>12, <2>14, Objects
    <3>2. CASE f = 1 BY <3>2, <2>13, <2>14, Objects
    <3>3. CASE f = r BY <3>3, <2>11, <2>14, Objects
    <3>4. CASE f # 0 /\ f # 1 /\ f # r
      <4>1. T[f] = W(k) BY <3>4, <2>9, <2>10, <2>11, <2>14
      <4>2. Has(T, W(k)) BY <4>1 DEF Has
      <4>. QED BY <4>2, <2>8
    <3>. QED BY <3>1, <3>2, <3>3, <3>4
  <2>. QED BY <2>1, <2>12, <2>13, <2>14 DEF Has
<1>. QED BY <1>2, <1>3

(***************************************************************************)
(* The steps                                                               *)
(***************************************************************************)

\* A step of child j: it leaves the shell and the other children alone.
ChildTypes ==
  /\ st \in [Cmds -> {"none", "new", "run", "failed", "done"}]
  /\ DOMAIN ctable = Cmds /\ DOMAIN mem = Cmds
Moves(j) ==
  /\ UNCHANGED <<batch, shell>> /\ ChildTypes'
  /\ \A q \in Cmds : q # j => st'[q] = st[q] /\ ctable'[q] = ctable[q] /\ mem'[q] = mem[q]

\* It keeps the invariant if it leaves the child in order.
LEMMA ChildStep ==
  ASSUME Types, NEW e \in Extras, NEW x \in {File, Old}, Shape(e, x),
         NEW j \in Cmds, Moves(j), ChildOK(e, x, j)'
  PROVE  Inv'
<1>1. /\ batch' = batch /\ pc' = pc /\ cmd_cnt' = cmd_cnt /\ i' = i /\ fd' = fd /\ fd_prev' = fd_prev
      /\ table' = table
  BY DEF shell, Moves
<1>2. Types' BY <1>1 DEF Types, Moves, ChildTypes
<1>3. ShellOK(e, x)' BY <1>1 DEF Shape, ShellOK, Prev, Pipes, Shared, Made
<1>4. ASSUME NEW q \in Cmds, q # j PROVE ChildOK(e, x, q)'
  <2>1. st'[q] = st[q] /\ ctable'[q] = ctable[q] /\ mem'[q] = mem[q] BY <1>4 DEF Moves
  <2>2. ChildOK(e, x, q) BY DEF Shape, ChildrenOK
  <2>. QED BY <1>1, <2>1, <2>2 DEF ChildOK, Forked, Shared, Prev, Plumbed, In, Out
<1>5. \A q \in Cmds : ChildOK(e, x, q)' BY <1>4
<1>6. e \in FDs => batch BY DEF Shape
<1>7. e \in FDs => batch' BY SMTT(30), Z3T(60), <1>1, <1>6
<1>8. Shape(e, x)' BY <1>3, <1>5, <1>7 DEF Shape, ChildrenOK
<1>. QED BY <1>2, <1>8 DEF Inv

\* A child that ends.
LEMMA EndStep ==
  ASSUME Types, NEW e \in Extras, NEW x \in {File, Old}, Shape(e, x), UNCHANGED <<batch, shell, mem>>,
         NEW j \in Cmds, st[j] \in {"run", "failed"}, End(j)
  PROVE  Inv'
<1>1. ChildOK(e, x, j) BY DEF Shape, ChildrenOK
<1>2. /\ st' = [st EXCEPT ![j] = "done"] /\ ctable' = [ctable EXCEPT ![j] = Closed]
      /\ pc' = pc /\ cmd_cnt' = cmd_cnt /\ mem' = mem /\ UNCHANGED <<batch, shell>>
  BY DEF End, shell
<1>3. /\ st' \in [Cmds -> {"none", "new", "run", "failed", "done"}] /\ st'[j] = "done"
      /\ DOMAIN ctable' = Cmds /\ ctable'[j] = Closed /\ DOMAIN mem' = Cmds
      /\ \A q \in Cmds : q # j => st'[q] = st[q] /\ ctable'[q] = ctable[q] /\ mem'[q] = mem[q]
  BY SMTT(30), Z3T(60), <1>2 DEF Types
<1>4. ChildOK(e, x, j)' BY <1>1, <1>2, <1>3 DEF ChildOK
<1>5. Moves(j) BY <1>2, <1>3 DEF Moves, ChildTypes
<1>. QED BY <1>4, <1>5, ChildStep

\* read, write, exit and quit: a child goes on, or ends.
LEMMA RunStep ==
  ASSUME Types, NEW e \in Extras, NEW x \in {File, Old}, Shape(e, x), NEW j \in Cmds,
         read(j) \/ write(j) \/ exit(j) \/ quit(j)
  PROVE  Inv'
<1>1. UNCHANGED <<batch, shell, mem>> BY DEF read, write, exit, quit, input
<1>2. st[j] \in {"run", "failed"} BY DEF read, write, exit, quit
<1>3. CASE UNCHANGED <<st, ctable>>
  <2>1. ChildOK(e, x, j) BY DEF Shape, ChildrenOK
  <2>2. pc' = pc /\ cmd_cnt' = cmd_cnt /\ st' = st /\ ctable' = ctable /\ mem' = mem
    BY <1>1, <1>3 DEF shell
  <2>3. ChildOK(e, x, j)' BY <2>1, <2>2 DEF ChildOK, Forked, Shared, Prev, Plumbed, In, Out
  <2>4. UNCHANGED <<batch, shell>> BY <1>1
  <2>5. Moves(j) BY <2>2, <2>4 DEF Moves, Types, ChildTypes
  <2>. QED BY <2>3, <2>5, ChildStep
<1>4. CASE End(j) BY <1>1, <1>2, <1>4, EndStep
<1>. QED BY <1>3, <1>4 DEF read, write, exit, quit

\* A child on its way to execvp.
LEMMA ExecStep ==
  ASSUME Types, NEW e \in Extras, NEW x \in {File, Old}, Shape(e, x), NEW j \in Cmds,
         NEW ok, execvp(j, ok)
  PROVE  Inv'
<1>1. st[j] = "new" /\ ChildOK(e, x, j) BY DEF Shape, ChildrenOK, execvp
<1>2. j < cmd_cnt /\ Forked(e, x, j) /\ pc \notin {"prompt", "exit"} BY <1>1 DEF ChildOK
<1>3. /\ ctable' = [ctable EXCEPT ![j] = Plumb(j)] /\ mem' = [mem EXCEPT ![j] = NoMem]
      /\ UNCHANGED <<batch, shell>> /\ pc' = pc /\ cmd_cnt' = cmd_cnt
  BY DEF execvp, input, shell
<1>4. PICK s \in {"run", "failed"} : st' = [st EXCEPT ![j] = s] BY DEF execvp
<1>5. /\ st' \in [Cmds -> {"none", "new", "run", "failed", "done"}] /\ st'[j] = s
      /\ DOMAIN ctable' = Cmds /\ ctable'[j] = Plumb(j) /\ DOMAIN mem' = Cmds
      /\ \A q \in Cmds : q # j => st'[q] = st[q] /\ ctable'[q] = ctable[q] /\ mem'[q] = mem[q]
  BY SMTT(30), Z3T(60), <1>3, <1>4 DEF Types
<1>6. Plumbed(j)'
  <2>1. /\ Plumb(j)[0] = IF j = 0 THEN Tty ELSE R(j - 1)
        /\ Plumb(j)[1] = IF j = cmd_cnt - 1 THEN Tty ELSE W(j)
        /\ \A k \in Cmds : Has(Plumb(j), W(k)) => k = j
    BY <1>2, PlumbOK
  <2>2. PICK p : p = Plumb(j) OBVIOUS
  <2>3. \A k \in Cmds : Has(p, W(k)) => k = j BY <2>1, <2>2
  <2>4. ctable'[j] = p BY <1>5, <2>2
  <2>5. In(j)' = p[0] /\ Out(j)' = p[1] /\ \A k \in Cmds : Has(ctable[j], W(k))' => Has(p, W(k))
    BY <2>4 DEF In, Out, Has
  <2>. QED BY <1>3, <2>1, <2>2, <2>3, <2>5 DEF Plumbed
<1>7. s # "none" /\ s # "new" /\ s # "done" OBVIOUS
<1>8. ChildOK(e, x, j)' BY <1>2, <1>3, <1>5, <1>6, <1>7 DEF ChildOK
<1>9. Moves(j) BY <1>3, <1>5 DEF Moves, ChildTypes
<1>. QED BY <1>8, <1>9, ChildStep

\* A step of the shell keeps the children, if it makes none, and the number of commands,
\* or there are no children.
LEMMA ShellStepOK ==
  ASSUME Types, NEW e \in Extras, NEW x \in {File, Old}, Shape(e, x),
         NEW g \in Extras, NEW y \in {File, Old}, g \in FDs => e \in FDs, UNCHANGED batch,
         pc' \in {"prompt", "exit", "pipe", "fork", "parent", "wait"}, cmd_cnt' \in 0..MaxCmds,
         UNCHANGED <<st, ctable, mem>>, ShellOK(g, y)',
         \/ \A j \in Cmds : st[j] = "none"
         \/ g = e /\ y = x /\ cmd_cnt' = cmd_cnt /\ pc' \notin {"prompt", "exit"}
  PROVE  Inv'
<1>1. batch' = batch /\ st' = st /\ ctable' = ctable /\ mem' = mem OBVIOUS
<1>2. Types' BY <1>1 DEF Types
<1>3. g \in FDs => batch' BY SMTT(30), Z3T(60), <1>1 DEF Shape
<1>4. ASSUME NEW j \in Cmds PROVE ChildOK(g, y, j)'
  <2>1. ChildOK(e, x, j) BY DEF Shape, ChildrenOK
  <2>2. CASE st[j] = "none" BY <1>1, <2>1, <2>2 DEF ChildOK
  <2>3. CASE g = e /\ y = x /\ cmd_cnt' = cmd_cnt /\ pc' \notin {"prompt", "exit"}
    <3>1. Forked(e, x, j)' <=> Forked(e, x, j) BY <1>1, <2>3 DEF Forked, Shared, Prev
    <3>2. Plumbed(j)' <=> Plumbed(j) BY <1>1, <2>3 DEF Plumbed, In, Out
    <3>3. ChildOK(e, x, j)' BY <1>1, <2>1, <2>3, <3>1, <3>2 DEF ChildOK
    <3>. QED BY <2>3, <3>3
  <2>. QED BY <2>2, <2>3
<1>5. Shape(g, y)' BY <1>3, <1>4 DEF Shape, ChildrenOK
<1>. QED BY <1>2, <1>5 DEF Inv

\* A line is taken while there is no child.
LEMMA LineStep ==
  ASSUME Types, NEW e \in Extras, NEW x \in {File, Old}, Shape(e, x), pc = "prompt",
         NEW c \in 0..MaxCmds, Line(c)
  PROVE  Inv'
<1>1. \A j \in Cmds : st[j] = "none" BY DEF Shape, ChildrenOK, ChildOK
<1>2. /\ cmd_cnt' = c /\ i' = 0 /\ fd_prev' = 0 /\ table' = table /\ fd' = fd
      /\ pc' = (IF c = 0 THEN "prompt" ELSE "pipe")
      /\ UNCHANGED batch /\ UNCHANGED <<st, ctable, mem>>
  BY DEF Line
<1>3. table = Table(e, x, 0, FALSE) BY DEF Shape, ShellOK
<1>4. ShellOK(e, x)'
  <2>1. CASE c = 0 BY <1>2, <1>3, <2>1 DEF ShellOK
  <2>2. CASE c # 0
    <3>1. i' \in 0..cmd_cnt' - 1 /\ ~(i' > 0) BY SMTT(30), Z3T(60), <1>2, <2>2, SizesType
    <3>2. Prev(e, i)' = 0 /\ Pipes(i)' = 0 BY <1>2, <3>1 DEF Prev, Pipes
    <3>3. pc' = "pipe" BY <1>2, <2>2
    <3>. QED BY <1>2, <1>3, <3>1, <3>2, <3>3 DEF ShellOK
  <2>. QED BY <2>1, <2>2
<1>5. pc' \in {"prompt", "exit", "pipe", "fork", "parent", "wait"} BY <1>2
<1>. QED BY <1>1, <1>2, <1>4, <1>5, ShellStepOK

\* The end of the batch file.
LEMMA NullStep ==
  ASSUME Types, NEW e \in Extras, NEW x \in {File, Old}, Shape(e, x), fgets_null
  PROVE  Inv'
<1>1. \A j \in Cmds : st[j] = "none" BY DEF Shape, ChildrenOK, ChildOK, fgets_null
<1>2. /\ cmd_cnt' = cmd_cnt /\ table' = table /\ pc = "prompt" /\ pc' = "exit"
      /\ UNCHANGED batch /\ UNCHANGED <<st, ctable, mem>>
  BY DEF fgets_null, input, children
<1>3. ShellOK(e, x)' BY <1>2 DEF Shape, ShellOK
<1>4. pc' \in {"prompt", "exit", "pipe", "fork", "parent", "wait"} /\ cmd_cnt' \in 0..MaxCmds
  BY <1>2 DEF Types
<1>. QED BY <1>1, <1>2, <1>3, <1>4, ShellStepOK

\* pipe, for a line of several commands, takes the next two slots.
LEMMA PipeStep ==
  ASSUME Types, NEW e \in Extras, NEW x \in {File, Old}, Shape(e, x), pipe
  PROVE  Inv'
<1>1. /\ pc = "pipe" /\ pc' = "fork" /\ cmd_cnt' = cmd_cnt /\ i' = i /\ fd_prev' = fd_prev
      /\ UNCHANGED batch /\ UNCHANGED <<st, ctable, mem>>
  BY DEF pipe, input
<1>2. i \in 0..cmd_cnt - 1 /\ fd_prev = Prev(e, i) /\ table = Table(e, x, Pipes(i), FALSE)
  BY <1>1 DEF Shape, ShellOK
<1>3. table' = Shared(e, x, i + 1) /\ Made(e, i)'
  <2>1. CASE ~(cmd_cnt > 1)
    <3>1. table' = Table(e, x, 0, FALSE) BY <1>2, <2>1 DEF pipe, Pipes
    <3>. QED BY <1>1, <2>1, <3>1 DEF Shared, Made
  <2>2. CASE cmd_cnt > 1
    <3>1. PICK n \in 0..MaxCmds - 1 : n = i
      <4>1. i \in 0..MaxCmds - 1 BY SMTT(30), Z3T(60), <1>2, SizesType DEF Types
      <4>. QED BY <4>1
    <3>2. table = Table(e, x, n, FALSE) BY <1>2, <2>2, <3>1 DEF Pipes
    <3>3. Makes(table, e, x, n) BY <3>2, PipeTable
    <3>4. /\ fd' = <<Slot(e, n), Slot(e, n + 1)>>
          /\ table' = [table EXCEPT ![Slot(e, n)] = R(n), ![Slot(e, n + 1)] = W(n)]
      BY <2>2, <3>1, <3>3 DEF pipe, Makes
    <3>. QED BY <1>1, <2>2, <3>1, <3>3, <3>4 DEF Shared, Made, Makes
  <2>. QED BY <2>1, <2>2
<1>4. ShellOK(e, x)' BY <1>1, <1>2, <1>3 DEF ShellOK, Prev, Shared
<1>5. pc' \in {"prompt", "exit", "pipe", "fork", "parent", "wait"} /\ cmd_cnt' \in 0..MaxCmds
      /\ pc' \notin {"prompt", "exit"}
  BY <1>1 DEF Types
<1>. QED BY <1>1, <1>4, <1>5, ShellStepOK

\* The child has the descriptors of the shell, and copies of fd and fd_prev.
LEMMA ForkStep ==
  ASSUME Types, NEW e \in Extras, NEW x \in {File, Old}, Shape(e, x), NEW ok, fork(ok)
  PROVE  Inv'
<1>1. /\ pc = "fork" /\ pc' = "parent" /\ cmd_cnt' = cmd_cnt /\ i' = i /\ fd_prev' = fd_prev
      /\ fd' = fd /\ table' = table /\ batch' = batch
  BY DEF fork, input
<1>2. /\ i \in 0..cmd_cnt - 1 /\ fd_prev = Prev(e, i) /\ table = Shared(e, x, i + 1) /\ Made(e, i)
      /\ e \in FDs => batch
  BY <1>1 DEF Shape, ShellOK
<1>3. ShellOK(e, x)' BY <1>1, <1>2 DEF ShellOK, Prev, Shared, Made
<1>4. /\ pc' \in {"prompt", "exit", "pipe", "fork", "parent", "wait"} /\ cmd_cnt' \in 0..MaxCmds
      /\ pc' \notin {"prompt", "exit"}
  BY <1>1 DEF Types
<1>5. CASE UNCHANGED <<st, ctable, mem>> BY <1>1, <1>3, <1>4, <1>5, ShellStepOK
<1>6. CASE /\ st' = [st EXCEPT ![i] = "new"] /\ ctable' = [ctable EXCEPT ![i] = table]
           /\ mem' = [mem EXCEPT ![i] = [fd |-> fd, prev |-> fd_prev]]
  <2>1. PICK j \in Cmds : j = i /\ j < cmd_cnt
    <3>1. i \in Cmds /\ i < cmd_cnt BY SMTT(30), Z3T(60), <1>2, SizesType DEF Types, Cmds
    <3>. QED BY <3>1
  <2>2. /\ st' \in [Cmds -> {"none", "new", "run", "failed", "done"}] /\ st'[j] = "new"
        /\ DOMAIN ctable' = Cmds /\ ctable'[j] = table /\ DOMAIN mem' = Cmds
        /\ mem'[j].fd = fd /\ mem'[j].prev = fd_prev
        /\ \A q \in Cmds : q # j => st'[q] = st[q] /\ ctable'[q] = ctable[q] /\ mem'[q] = mem[q]
    BY SMTT(30), Z3T(60), <1>6, <2>1 DEF Types
  <2>3. Forked(e, x, j)' BY <1>1, <1>2, <2>1, <2>2 DEF Forked, Shared, Prev, Made
  <2>4. ChildOK(e, x, j)' BY <1>1, <2>1, <2>2, <2>3 DEF ChildOK
  <2>5. ASSUME NEW q \in Cmds, q # j PROVE ChildOK(e, x, q)'
    <3>1. st'[q] = st[q] /\ ctable'[q] = ctable[q] /\ mem'[q] = mem[q] BY <2>2, <2>5
    <3>2. ChildOK(e, x, q) BY DEF Shape, ChildrenOK
    <3>. QED BY <1>1, <1>4, <3>1, <3>2 DEF ChildOK, Forked, Shared, Prev, Plumbed, In, Out
  <2>6. \A q \in Cmds : ChildOK(e, x, q)' BY <2>4, <2>5
  <2>7. e \in FDs => batch' BY SMTT(30), Z3T(60), <1>1, <1>2
  <2>8. Shape(e, x)' BY <1>3, <2>6, <2>7 DEF Shape, ChildrenOK
  <2>9. Types' BY SMTT(30), Z3T(60), <1>1, <1>4, <2>2 DEF Types
  <2>. QED BY <2>8, <2>9 DEF Inv
<1>. QED BY <1>5, <1>6 DEF fork

\* The parent closes the write end and keeps the read end for the next child.
LEMMA ParentStep ==
  ASSUME Types, NEW e \in Extras, NEW x \in {File, Old}, Shape(e, x), parent
  PROVE  Inv'
<1>1. /\ pc = "parent" /\ cmd_cnt' = cmd_cnt /\ i' = i + 1
      /\ pc' = IF i + 1 < cmd_cnt THEN "pipe" ELSE "wait"
      /\ UNCHANGED batch /\ UNCHANGED <<st, ctable, mem>>
  BY DEF parent, input, children
<1>2. i \in 0..cmd_cnt - 1 /\ fd_prev = Prev(e, i) /\ table = Shared(e, x, i + 1) /\ Made(e, i)
  BY <1>1 DEF Shape, ShellOK
<1>3. /\ i + 1 > 0 /\ (i + 1) - 1 = i /\ cmd_cnt > 0
      /\ (i + 1 < cmd_cnt => i + 1 \in 0..cmd_cnt - 1 /\ cmd_cnt > 1)
      /\ (~(i + 1 < cmd_cnt) => i + 1 = cmd_cnt)
  BY SMTT(30), Z3T(60), <1>2 DEF Types
<1>4. table' = Table(e, x, Pipes(i + 1), FALSE) /\ (cmd_cnt > 1 => fd_prev' = Slot(e, i))
  <2>1. CASE ~(cmd_cnt > 1) BY <1>2, <2>1 DEF parent, Shared, Pipes
  <2>2. CASE cmd_cnt > 1
    <3>1. PICK n \in 0..MaxCmds : n = i + 1
      <4>1. i + 1 \in 0..MaxCmds BY SMTT(30), Z3T(60), <1>2, SizesType DEF Types
      <4>. QED BY <4>1
    <3>2. table = Table(e, x, n, TRUE) /\ fd = <<Slot(e, i), Slot(e, n)>>
      BY <1>2, <2>2, <3>1 DEF Shared, Made
    <3>3. fd[1] = Slot(e, i) /\ fd[2] = Slot(e, n) BY SMTT(30), Z3T(60), <3>2
    <3>4. table' = [table EXCEPT ![Slot(e, n)] = None] /\ fd_prev' = Slot(e, i) BY <2>2, <3>3 DEF parent
    <3>5. table' = Table(e, x, n, FALSE) BY <3>2, <3>4, CloseTable
    <3>. QED BY <2>2, <3>1, <3>4, <3>5 DEF Pipes
  <2>. QED BY <2>1, <2>2
<1>5. CASE i + 1 < cmd_cnt
  <2>1. pc' = "pipe" /\ Prev(e, i)' = Slot(e, i) /\ Pipes(i)' = Pipes(i + 1)
    BY <1>1, <1>3, <1>5 DEF Prev, Pipes
  <2>2. ShellOK(e, x)' BY <1>1, <1>3, <1>4, <1>5, <2>1 DEF ShellOK
  <2>3. /\ pc' \in {"prompt", "exit", "pipe", "fork", "parent", "wait"} /\ cmd_cnt' \in 0..MaxCmds
        /\ pc' \notin {"prompt", "exit"}
    BY <1>1, <2>1 DEF Types
  <2>. QED BY <1>1, <2>2, <2>3, ShellStepOK
<1>6. CASE ~(i + 1 < cmd_cnt)
  <2>1. pc' = "wait" /\ Pipes(cmd_cnt)' = Pipes(i + 1) BY <1>1, <1>3, <1>6 DEF Pipes
  <2>2. ShellOK(e, x)' BY <1>1, <1>3, <1>4, <2>1 DEF ShellOK
  <2>3. /\ pc' \in {"prompt", "exit", "pipe", "fork", "parent", "wait"} /\ cmd_cnt' \in 0..MaxCmds
        /\ pc' \notin {"prompt", "exit"}
    BY <1>1, <2>1 DEF Types
  <2>. QED BY <1>1, <2>2, <2>3, ShellStepOK
<1>. QED BY <1>5, <1>6

\* wait_and_close leaves at most one descriptor behind, and no child.
LEMMA WaitStep ==
  ASSUME Types, NEW e \in Extras, NEW x \in {File, Old}, Shape(e, x), wait_and_close
  PROVE  Inv'
<1>1. /\ pc = "wait" /\ pc' = "prompt" /\ st' = [j \in Cmds |-> "none"] /\ cmd_cnt' = 0
      /\ batch' = batch /\ mem' = mem /\ ctable' = ctable /\ \A j \in Cmds : st[j] \in {"none", "done"}
      /\ table' = CloseAll(table, cmd_cnt)
  BY DEF wait_and_close, input, CloseAll
<1>2. cmd_cnt > 0 /\ table = Table(e, x, Pipes(cmd_cnt), FALSE) /\ (e \in FDs => batch)
  BY <1>1 DEF Shape, ShellOK
<1>3. PICK c \in 1..MaxCmds : c = cmd_cnt
  <2>1. cmd_cnt \in 1..MaxCmds BY SMTT(30), Z3T(60), <1>2, SizesType DEF Types
  <2>. QED BY <2>1
<1>4. Pipes(cmd_cnt) = (IF c > 1 THEN c ELSE 0) BY <1>3 DEF Pipes
<1>5. PICK g \in Extras, y \in {File, Old} :
        (g \in FDs => e \in FDs) /\ CloseAll(table, c) = Table(g, y, 0, FALSE)
  <2>1. Leaves(table, e, c) BY <1>2, <1>4, WaitTable
  <2>. QED BY <2>1 DEF Leaves
<1>6. ShellOK(g, y)' BY <1>1, <1>3, <1>5 DEF ShellOK
<1>7. \A j \in Cmds : ChildOK(g, y, j)'
  <2>. SUFFICES ASSUME NEW j \in Cmds PROVE ChildOK(g, y, j)' OBVIOUS
  <2>1. ctable[j] = Closed BY <1>1 DEF Shape, ChildrenOK, ChildOK
  <2>2. st'[j] = "none" BY <1>1
  <2>. QED BY <1>1, <2>1, <2>2 DEF ChildOK
<1>8. g \in FDs => batch' BY SMTT(30), Z3T(60), <1>1, <1>2, <1>5
<1>9. Shape(g, y)' BY <1>6, <1>7, <1>8 DEF Shape, ChildrenOK
<1>10. Types' BY SMTT(30), Z3T(60), <1>1, SizesType DEF Types
<1>. QED BY <1>9, <1>10 DEF Inv

\* At the start the batch file, if there is one, has descriptor 3.
LEMMA InitInv == Init => Inv
<1>. SUFFICES ASSUME Init PROVE Inv OBVIOUS
<1>1. Types
  <2>1. /\ pc \in {"prompt", "exit", "pipe", "fork", "parent", "wait"} /\ cmd_cnt \in 0..MaxCmds
    BY SMTT(30), Z3T(60), SizesType DEF Init
  <2>2. batch \in BOOLEAN BY DEF Init
  <2>3. st \in [Cmds -> {"none", "new", "run", "failed", "done"}] BY DEF Init
  <2>4. DOMAIN ctable = Cmds /\ DOMAIN mem = Cmds BY DEF Init
  <2>. QED BY <2>1, <2>2, <2>3, <2>4 DEF Types
<1>2. \A e, x : ChildrenOK(e, x) BY DEF Init, ChildrenOK, ChildOK
<1>3. /\ 3 \in Extras /\ NoExtra \in Extras /\ NoExtra \notin FDs /\ 3 # NoExtra
      /\ \A f \in FDs : f # NoExtra /\ (f = 3 => ~(f <= 2))
  BY SMTT(30), Z3T(60), SizesType DEF Extras, NoExtra, FDs
<1>4. ASSUME NEW e \in Extras, NEW x,
             table = [f \in FDs |-> IF f <= 2 THEN Tty ELSE IF f = e THEN x ELSE None]
      PROVE  ShellOK(e, x)
  <2>1. \A f \in FDs : ~(f <= 2) /\ f # e => InSlot(e, 0, FALSE, f) = None
    <3>. SUFFICES ASSUME NEW f \in FDs, ~(f <= 2), f # e PROVE ~(Index(e, f) < 0) BY DEF InSlot
    <3>1. Index(e, f) \in Nat BY IndexOf
    <3>. QED BY SMTT(30), Z3T(60), <3>1
  <2>2. table = Table(e, x, 0, FALSE)
    <3>1. \A f \in FDs : table[f] = Table(e, x, 0, FALSE)[f] BY <1>4, <2>1 DEF Table
    <3>2. table = [f \in FDs |-> table[f]] BY <1>4
    <3>3. Table(e, x, 0, FALSE) = [f \in FDs |-> Table(e, x, 0, FALSE)[f]] BY DEF Table
    <3>. QED BY <3>1, <3>2, <3>3
  <2>. QED BY <2>2 DEF Init, ShellOK
<1>5. CASE batch
  <2>1. table = [f \in FDs |-> IF f <= 2 THEN Tty ELSE IF f = 3 THEN File ELSE None] BY <1>5 DEF Init
  <2>2. Shape(3, File) BY <1>2, <1>3, <1>4, <1>5, <2>1 DEF Shape
  <2>. QED BY <1>1, <1>3, <2>2 DEF Inv
<1>6. CASE ~batch
  <2>1. table = [f \in FDs |-> IF f <= 2 THEN Tty ELSE IF f = NoExtra THEN Old ELSE None]
    <3>1. table = [f \in FDs |-> IF f <= 2 THEN Tty ELSE None] BY <1>6 DEF Init
    <3>2. \A f \in FDs : table[f] = IF f <= 2 THEN Tty ELSE IF f = NoExtra THEN Old ELSE None
      BY <1>3, <3>1
    <3>3. table = [f \in FDs |-> table[f]] BY <3>1
    <3>. QED BY <3>2, <3>3
  <2>2. Shape(NoExtra, Old) BY <1>2, <1>3, <1>4, <2>1 DEF Shape
  <2>. QED BY <1>1, <1>3, <2>2 DEF Inv
<1>. QED BY <1>5, <1>6

\* Every step keeps the invariant.
LEMMA NextInv == Inv /\ [Next]_vars => Inv'
<1>. SUFFICES ASSUME Inv, [Next]_vars PROVE Inv' OBVIOUS
<1>1. Types BY DEF Inv
<1>2. PICK e \in Extras, x \in {File, Old} : Shape(e, x) BY DEF Inv
<1>3. ASSUME NEW c \in 0..MaxCmds, scanf(c) \/ fgets(c) PROVE Inv'
  <2>1. pc = "prompt" /\ Line(c) BY <1>3 DEF scanf, fgets
  <2>. QED BY <1>1, <1>2, <2>1, LineStep
<1>4. CASE fgets_null BY <1>1, <1>2, <1>4, NullStep
<1>5. CASE pipe BY <1>1, <1>2, <1>5, PipeStep
<1>6. CASE parent BY <1>1, <1>2, <1>6, ParentStep
<1>7. CASE wait_and_close BY <1>1, <1>2, <1>7, WaitStep
<1>8. ASSUME NEW ok \in BOOLEAN, fork(ok) PROVE Inv' BY <1>1, <1>2, <1>8, ForkStep
<1>9. ASSUME NEW j \in Cmds, read(j) \/ write(j) \/ exit(j) \/ quit(j) PROVE Inv'
  BY <1>1, <1>2, <1>9, RunStep
<1>10. ASSUME NEW j \in Cmds, NEW ok \in BOOLEAN, execvp(j, ok) PROVE Inv'
  BY <1>1, <1>2, <1>10, ExecStep
<1>11. CASE UNCHANGED vars
  <2>1. /\ batch' = batch /\ pc' = pc /\ cmd_cnt' = cmd_cnt /\ i' = i /\ fd' = fd /\ fd_prev' = fd_prev
        /\ table' = table /\ st' = st /\ mem' = mem /\ ctable' = ctable
    BY <1>11 DEF vars, input, shell, children
  <2>2. Types' BY <1>1, <2>1 DEF Types
  <2>3. ShellOK(e, x)' BY <1>2, <2>1 DEF Shape, ShellOK, Prev, Pipes, Shared, Made
  <2>4. ChildrenOK(e, x)'
    BY <1>2, <2>1 DEF Shape, ChildrenOK, ChildOK, Forked, Plumbed, In, Out, Prev, Shared
  <2>5. e \in FDs => batch' BY SMTT(30), Z3T(60), <1>2, <2>1 DEF Shape
  <2>6. Shape(e, x)' BY <2>3, <2>4, <2>5 DEF Shape
  <2>. QED BY <2>2, <2>6 DEF Inv
<1>. QED BY <1>3, <1>4, <1>5, <1>6, <1>7, <1>8, <1>9, <1>10, <1>11 DEF Next, ShellStep, Child

(***************************************************************************)
(* The theorems                                                            *)
(***************************************************************************)
\* The invariant holds throughout a session.
LEMMA Invariant == Spec => []Inv
BY InitInv, NextInv, PTL DEF Spec

\* The write ends that the invariant allows.
LEMMA InvWriter == Inv => OnlyOwnWriter
<1>. SUFFICES ASSUME Inv, pc = "wait", NEW k \in Cmds
              PROVE  ~Has(table, W(k)) /\ \A j \in Cmds : Has(ctable[j], W(k)) => j = k
  BY DEF OnlyOwnWriter
<1>1. PICK e \in Extras, x \in {File, Old} : Shape(e, x) BY DEF Inv
<1>2. ~Has(table, W(k))
  <2>1. table = Table(e, x, Pipes(cmd_cnt), FALSE) BY <1>1 DEF Shape, ShellOK
  <2>. QED BY <2>1, TableHas
<1>3. ASSUME NEW j \in Cmds, Has(ctable[j], W(k)) PROVE j = k
  <2>1. ChildOK(e, x, j) /\ st[j] \in {"none", "new", "run", "failed", "done"}
    BY <1>1 DEF Shape, ChildrenOK, Inv, Types
  <2>2. CASE st[j] \in {"none", "done"} BY <1>3, <2>1, <2>2, ClosedHas, Objects DEF ChildOK
  <2>3. CASE st[j] = "new"
    <3>1. ctable[j] = Shared(e, x, j + 1) BY <2>1, <2>3 DEF ChildOK, Forked
    <3>2. (j + 1) - 1 = j BY SMTT(30), Z3T(60) DEF Cmds
    <3>3. CASE cmd_cnt > 1
      <4>1. ctable[j] = Table(e, x, j + 1, TRUE) BY <3>1, <3>3 DEF Shared
      <4>2. k = (j + 1) - 1 BY <1>3, <4>1, TableHas
      <4>. QED BY <3>2, <4>2
    <3>4. CASE ~(cmd_cnt > 1)
      <4>1. ctable[j] = Table(e, x, 0, FALSE) BY <3>1, <3>4 DEF Shared
      <4>. QED BY <1>3, <4>1, TableHas
    <3>. QED BY <3>3, <3>4
  <2>4. CASE st[j] \in {"run", "failed"} BY <1>3, <2>1, <2>4 DEF ChildOK, Plumbed
  <2>. QED BY <2>1, <2>2, <2>3, <2>4
<1>. QED BY <1>2, <1>3

\* The descriptors that the invariant allows at the prompt.
LEMMA InvLeak == Inv => NoLeak
<1>. SUFFICES ASSUME Inv, pc = "prompt"
              PROVE  Cardinality((FDs \ Free(table)) \ 0..2) <= IF batch THEN 1 ELSE 0
  BY DEF NoLeak
<1>. DEFINE S == (FDs \ Free(table)) \ 0..2
<1>1. PICK e \in Extras, x \in {File, Old} : Shape(e, x) BY DEF Inv
<1>2. table = Table(e, x, 0, FALSE) /\ (e \in FDs => batch) BY <1>1 DEF Shape, ShellOK
<1>3. ASSUME NEW f \in S PROVE f = e
  <2>1. f \in FDs /\ ~(f <= 2) /\ table[f] # None
    <3>1. f \in FDs /\ f \notin 0..2 /\ table[f] # None BY DEF Free
    <3>2. ~(f <= 2) BY SMTT(30), Z3T(60), <3>1, SizesType DEF FDs
    <3>. QED BY <3>1, <3>2
  <2>. SUFFICES ASSUME f # e PROVE FALSE OBVIOUS
  <2>2. Index(e, f) \in Nat BY <2>1, IndexOf
  <2>3. ~(Index(e, f) < 0) BY SMTT(30), Z3T(60), <2>2
  <2>. QED BY <1>2, <2>1, <2>3 DEF Table, InSlot
<1>4. Cardinality({}) = 0 /\ Cardinality({e}) = 1 BY FS_EmptySet, FS_Singleton
<1>5. S = {} \/ (S = {e} /\ e \in FDs) BY <1>3
<1>. HIDE DEF S
<1>6. CASE batch
  <2>1. Cardinality(S) = 0 \/ Cardinality(S) = 1 BY <1>4, <1>5
  <2>2. Cardinality(S) <= 1 BY SMTT(30), Z3T(60), <2>1
  <2>. QED BY <1>6, <2>2 DEF S
<1>7. CASE ~batch
  <2>1. Cardinality(S) = 0 BY <1>2, <1>4, <1>5, <1>7
  <2>2. Cardinality(S) <= 0 BY SMTT(30), Z3T(60), <2>1
  <2>. QED BY <1>7, <2>2 DEF S
<1>. QED BY <1>6, <1>7

\* The dup2 and close calls of executeCommand connect every program of a line with its
\* neighbours, whatever descriptors are open when the line starts (ssu_shell.c:83-92).
THEOREM PipelineConnected == Spec => []Plumbing
<1>1. Inv => Plumbing BY DEF Inv, Shape, ChildrenOK, ChildOK, Plumbed, Plumbing
<1>. QED BY <1>1, Invariant, PTL

\* No process but its own command keeps the write end of a pipe open when the line has been
\* started, so that end of file is not withheld (ssu_shell.c:99).
THEOREM NobodyElseWrites == Spec => []OnlyOwnWriter
BY InvWriter, Invariant, PTL

\* However many lines a session has, at most one descriptor is left behind, and none in
\* interactive mode (ssu_shell.c:109).
THEOREM DescriptorsDoNotLeak == Spec => []NoLeak
BY InvLeak, Invariant, PTL
=============================================================================
