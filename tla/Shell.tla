-------------------------------- MODULE Shell --------------------------------
(***************************************************************************)
(* ssu_shell.c: a line of cmd_cnt commands joined by |, run as a pipeline  *)
(* of child processes.  What matters is which process keeps which end of   *)
(* which pipe, so a process is its table of file descriptors, and the data *)
(* in a pipe is a number of units.  The kernel's pipe, fork, dup2, close   *)
(* and wait, and the programs that the commands name, are external.        *)
(***************************************************************************)
EXTENDS Integers, FiniteSets, FiniteSetsExt

CONSTANTS MaxCmds,      \* bound of the model: commands on a line
          MaxLines,     \* bound of the model: lines of a session
          BufLines,     \* lines of the batch file that one read of stdio brings in
          MaxOut,       \* bound of the model: units that a command writes
          PipeSize      \* units that a pipe holds

ASSUME ShellAssumption == {MaxCmds, MaxLines, BufLines, PipeSize} \subseteq Nat \ {0} /\ MaxOut \in Nat

Cmds == 0..MaxCmds - 1
FDs == 0..MaxCmds + 5
\* What a descriptor refers to: nothing, the terminal, the batch file, an end of the
\* k-th pipe of the line, or what is left of a pipe of an earlier line.
None == <<"none", 0>>
Tty == <<"tty", 0>>
File == <<"file", 0>>
Old == <<"old", 0>>
R(k) == <<"r", k>>
W(k) == <<"w", k>>

VARIABLES batch,                    \* argc == 2
          unread, buffered, lines,  \* lines of the batch file; lines taken so far
          pc, cmd_cnt, i,           \* the shell's control state and variables
          fd, fd_prev,
          table,                    \* the shell's descriptors
          st, mem, ctable, out,     \* the children: state, their copies of fd and fd_prev,
                                    \* descriptors, units still to write
          chan,                     \* units in each pipe
          deaf                      \* the reader of some pipe is missing or has stopped early

input == <<batch, unread, buffered, lines>>
shell == <<pc, cmd_cnt, i, fd, fd_prev, table>>
children == <<st, mem, ctable, out, chan, deaf>>
vars == <<input, shell, children>>

Closed == [f \in FDs |-> None]
Free(t) == {f \in FDs : t[f] = None}
Lowest(t) == Min(Free(t))
NoMem == [fd |-> <<0, 0>>, prev |-> 0]

\* main as far as its loop: fopen takes descriptor 3.
Init ==
  /\ batch \in BOOLEAN /\ unread \in (IF batch THEN 0..MaxLines ELSE {0}) /\ buffered = 0 /\ lines = 0
  /\ pc = "prompt" /\ cmd_cnt = 0 /\ i = 0 /\ fd = <<0, 0>> /\ fd_prev = 0
  /\ table = [f \in FDs |-> IF f <= 2 THEN Tty ELSE IF f = 3 /\ batch THEN File ELSE None]
  /\ st = [j \in Cmds |-> "none"] /\ mem = [j \in Cmds |-> NoMem] /\ ctable = [j \in Cmds |-> Closed]
  /\ out = [j \in Cmds |-> 0] /\ chan = [k \in Cmds |-> 0] /\ deaf = FALSE
-----------------------------------------------------------------------------
\* main: take a line and count its commands.  A blank line, of 0 commands here, is skipped.
Line(c) ==
  /\ lines' = lines + 1 /\ cmd_cnt' = c /\ i' = 0 /\ fd_prev' = 0 /\ deaf' = FALSE
  /\ pc' = IF c = 0 THEN "prompt" ELSE "pipe"
  /\ UNCHANGED <<batch, fd, table, st, mem, ctable, out, chan>>

scanf(c) == pc = "prompt" /\ ~batch /\ lines < MaxLines /\ Line(c) /\ UNCHANGED <<unread, buffered>>

\* fgets reads the file through descriptor 3 when its buffer is empty.
Refill == IF table[3] = File THEN Min({BufLines, unread}) ELSE 0
fgets(c) ==
  /\ pc = "prompt" /\ batch
  /\ LET more == IF buffered = 0 THEN Refill ELSE 0
     IN  buffered + more > 0 /\ buffered' = buffered + more - 1 /\ unread' = unread - more
  /\ Line(c)
fgets_null ==
  /\ pc = "prompt" /\ batch /\ buffered = 0 /\ Refill = 0
  /\ pc' = "exit"
  /\ UNCHANGED <<input, cmd_cnt, i, fd, fd_prev, table, children>>
-----------------------------------------------------------------------------
\* executeCommand.

pipe ==
  /\ pc = "pipe" /\ pc' = "fork"
  /\ IF cmd_cnt > 1
       THEN LET r == Lowest(table)
                w == Min(Free(table) \ {r})
            IN  fd' = <<r, w>> /\ table' = [table EXCEPT ![r] = R(i), ![w] = W(i)]
       ELSE UNCHANGED <<fd, table>>
  /\ chan' = [chan EXCEPT ![i] = 0]
  /\ UNCHANGED <<input, cmd_cnt, i, fd_prev, st, mem, ctable, out, deaf>>

\* A failed fork returns -1 and goes the parent's way, the case label being 1.
fork(ok) ==
  /\ pc = "fork" /\ pc' = "parent"
  /\ IF ok THEN /\ st' = [st EXCEPT ![i] = "new"] /\ ctable' = [ctable EXCEPT ![i] = table]
                /\ mem' = [mem EXCEPT ![i] = [fd |-> fd, prev |-> fd_prev]]
                /\ UNCHANGED deaf
           ELSE deaf' = (deaf \/ i > 0) /\ UNCHANGED <<st, ctable, mem>>
  /\ UNCHANGED <<input, cmd_cnt, i, fd, fd_prev, table, out, chan>>

parent_MutPrev ==
  /\ pc = "parent"
  /\ IF cmd_cnt > 1 THEN table' = [table EXCEPT ![fd[2]] = None] /\ fd_prev' = fd[2] ELSE UNCHANGED <<table, fd_prev>>
  /\ i' = i + 1 /\ pc' = IF i' < cmd_cnt THEN "pipe" ELSE "wait"
  /\ UNCHANGED <<input, cmd_cnt, fd, children>>
parent_MutKeep ==
  /\ pc = "parent"
  /\ IF cmd_cnt > 1 THEN fd_prev' = fd[1] ELSE UNCHANGED fd_prev
  /\ i' = i + 1 /\ pc' = IF i' < cmd_cnt THEN "pipe" ELSE "wait"
  /\ UNCHANGED <<input, cmd_cnt, fd, table, children>>
parent_MutWait ==
  /\ pc = "parent" /\ st[i] \in {"none", "done"}
  /\ IF cmd_cnt > 1 THEN table' = [table EXCEPT ![fd[2]] = None] /\ fd_prev' = fd[1] ELSE UNCHANGED <<table, fd_prev>>
  /\ i' = i + 1 /\ pc' = IF i' < cmd_cnt THEN "pipe" ELSE "wait"
  /\ UNCHANGED <<input, cmd_cnt, fd, children>>
parent ==
  /\ pc = "parent"
  /\ IF cmd_cnt > 1 THEN table' = [table EXCEPT ![fd[2]] = None] /\ fd_prev' = fd[1] ELSE UNCHANGED <<table, fd_prev>>
  /\ i' = i + 1 /\ pc' = IF i' < cmd_cnt THEN "pipe" ELSE "wait"
  /\ UNCHANGED <<input, cmd_cnt, fd, children>>

\* The child's way to execvp, which may fail; then it prints a message and exits.
Dup2(t, from, to) == [t EXCEPT ![to] = t[from]]
Plumb(j) ==
  LET t == Dup2(ctable[j], mem[j].prev, 0)
      u == IF j + 1 < cmd_cnt THEN Dup2(t, mem[j].fd[2], 1) ELSE t
  IN  IF cmd_cnt > 1 THEN [u EXCEPT ![mem[j].fd[1]] = None] ELSE ctable[j]
execvp(j, ok) ==
  /\ st[j] = "new" /\ ctable' = [ctable EXCEPT ![j] = Plumb(j)] /\ mem' = [mem EXCEPT ![j] = NoMem]
  /\ IF ok THEN /\ st' = [st EXCEPT ![j] = "run"] /\ out' \in {[out EXCEPT ![j] = k] : k \in 0..MaxOut}
                /\ UNCHANGED deaf
           ELSE st' = [st EXCEPT ![j] = "failed"] /\ out' = [out EXCEPT ![j] = 1] /\ deaf' = (deaf \/ j > 0)
  /\ UNCHANGED <<input, shell, chan>>

wait_and_close_MutBound ==
  /\ pc = "wait" /\ \A j \in Cmds : st[j] \in {"none", "done"}
  /\ table' = [f \in FDs |-> CASE f \in 3..1 + cmd_cnt -> None
                               [] table[f][1] = "r" /\ f \notin 3..1 + cmd_cnt -> Old
                               [] OTHER -> table[f]]
  /\ pc' = "prompt" /\ st' = [j \in Cmds |-> "none"]
  /\ cmd_cnt' = 0 /\ i' = 0 /\ fd' = <<0, 0>> /\ fd_prev' = 0
  /\ UNCHANGED <<input, mem, ctable, out, chan, deaf>>

\* All children have ended: close descriptors 3 to 2 + cmd_cnt.
wait_and_close ==
  /\ pc = "wait" /\ \A j \in Cmds : st[j] \in {"none", "done"}
  /\ table' = [f \in FDs |-> CASE f \in 3..2 + cmd_cnt -> None
                               [] table[f][1] = "r" /\ f \notin 3..2 + cmd_cnt -> Old
                               [] OTHER -> table[f]]
  /\ pc' = "prompt" /\ st' = [j \in Cmds |-> "none"]
  /\ cmd_cnt' = 0 /\ i' = 0 /\ fd' = <<0, 0>> /\ fd_prev' = 0
  /\ UNCHANGED <<input, mem, ctable, out, chan, deaf>>
-----------------------------------------------------------------------------
\* The programs that run.  A process that ends gives up all its descriptors.

Has(t, o) == \E f \in FDs : t[f] = o
Open(o) == Has(table, o) \/ \E j \in Cmds : Has(ctable[j], o)
In(j) == ctable[j][0]
Out(j) == ctable[j][1]
AtEnd(j) == In(j)[1] = "r" => chan[In(j)[2]] = 0 /\ ~Open(W(In(j)[2]))
End(j) ==
  st' = [st EXCEPT ![j] = "done"] /\ ctable' = [ctable EXCEPT ![j] = Closed] /\ out' = [out EXCEPT ![j] = 0]

read(j) ==
  /\ st[j] = "run" /\ In(j)[1] = "r" /\ chan[In(j)[2]] > 0
  /\ chan' = [chan EXCEPT ![In(j)[2]] = @ - 1]
  /\ UNCHANGED <<input, shell, st, mem, ctable, out, deaf>>

\* A pipe without a reader kills the writer, a full one blocks it.
write(j) ==
  /\ st[j] \in {"run", "failed"} /\ out[j] > 0
  /\ IF Out(j)[1] # "w" THEN out' = [out EXCEPT ![j] = @ - 1] /\ UNCHANGED <<st, ctable, chan>>
     ELSE IF ~Open(R(Out(j)[2])) THEN End(j) /\ UNCHANGED chan
     ELSE /\ chan[Out(j)[2]] < PipeSize /\ chan' = [chan EXCEPT ![Out(j)[2]] = @ + 1]
          /\ out' = [out EXCEPT ![j] = @ - 1] /\ UNCHANGED <<st, ctable>>
  /\ UNCHANGED <<input, shell, mem, deaf>>

exit(j) ==
  /\ out[j] = 0 /\ (st[j] = "failed" \/ (st[j] = "run" /\ AtEnd(j)))
  /\ End(j)
  /\ UNCHANGED <<input, shell, mem, chan, deaf>>

\* A program such as head ends while there may be more to read.
quit(j) ==
  /\ st[j] = "run" /\ ~AtEnd(j)
  /\ End(j) /\ deaf' = TRUE
  /\ UNCHANGED <<input, shell, mem, chan>>
-----------------------------------------------------------------------------
ShellStep ==
  \/ \E c \in 0..MaxCmds : scanf(c) \/ fgets(c)
  \/ fgets_null \/ pipe \/ parent \/ wait_and_close
  \/ \E ok \in BOOLEAN : fork(ok)
Child(j) == read(j) \/ write(j) \/ exit(j) \/ \E ok \in BOOLEAN : execvp(j, ok)

Next == ShellStep \/ \E j \in Cmds : Child(j) \/ quit(j)

\* Every process is scheduled; no program has to stop reading early.
Spec == Init /\ [][Next]_vars /\ WF_vars(ShellStep) /\ \A j \in Cmds : WF_vars(Child(j))
-----------------------------------------------------------------------------
\* Every program of the line reads what the one before it writes: its standard input
\* is the pipe of the command before it and its output the pipe of its own turn, and
\* the two ends of the line are the shell's own (ssu_shell.c:83, :87), whatever
\* descriptors an earlier line has left behind.
Plumbing ==
  \A j \in Cmds : st[j] \in {"run", "failed"} =>
    /\ In(j) = IF j = 0 THEN Tty ELSE R(j - 1)
    /\ Out(j) = IF j = cmd_cnt - 1 THEN Tty ELSE W(j)

\* End of file is not withheld: when the line has been started the write end of a pipe
\* is kept by no process but the command that writes to it (ssu_shell.c:99).
OnlyOwnWriter ==
  pc = "wait" => \A k \in Cmds :
    ~Has(table, W(k)) /\ \A j \in Cmds : Has(ctable[j], W(k)) => j = k

\* At the prompt an interactive shell has nothing open but the terminal, and a batch
\* shell at most one more descriptor: what the loop of ssu_shell.c:109 misses because
\* fopen has shifted the pipes by one never adds up from line to line.
NoLeak ==
  pc = "prompt" => Cardinality((FDs \ Free(table)) \ 0..2) <= IF batch THEN 1 ELSE 0

\* A line ends and the prompt comes back, if every program reads its input to the
\* end.  (When one does not, the writer before it may block for ever: the shell
\* itself keeps the read ends until all children have ended.)
LineEnds == (pc \notin {"prompt", "exit"}) ~> (pc = "prompt" \/ deaf)
=============================================================================
