----------------------------- MODULE MasterWorker -----------------------------
(***************************************************************************)
(* hw4/1/master-worker.c: masters put the numbers 0..total_items-1 into a  *)
(* shared buffer used as a stack, workers take them out.  One mutex, two   *)
(* condition variables; every pthread_cond_wait is under an if, not a      *)
(* while.                                                                  *)
(***************************************************************************)
EXTENDS Integers, FiniteSets

CONSTANTS Masters, Workers, total_items, max_buf_size,
          PoolSpurious      \* whether pthread_cond_wait may return unsignalled

ASSUME ArgAssumption ==
  /\ IsFiniteSet(Masters) /\ Masters # {} /\ IsFiniteSet(Workers) /\ Workers # {}
  /\ Masters \cap Workers = {}
  /\ total_items \in Nat /\ max_buf_size \in Nat \ {0} /\ PoolSpurious \in BOOLEAN

VARIABLES item_to_produce, curr_buf_size, consume_cnt,
          buffer,              \* the max_buf_size cells that were allocated
          heap,                \* "ok" until a write past buffer, then "overflow" or "aborted"
          pwaiters, pwoken,    \* masters in pthread_cond_wait(&produce)
          cwaiters, cwoken,    \* workers in pthread_cond_wait(&consume)
          second,              \* those of them that wait at line 102
          returned,            \* threads that have returned
          consumed             \* how often each item has been printed as consumed

pvars == <<pwaiters, pwoken>>
cvars == <<cwaiters, cwoken, second>>
data == <<item_to_produce, curr_buf_size, consume_cnt, buffer, consumed>>
poolvars == <<data, heap, pvars, cvars, returned>>
produce == INSTANCE CondVar WITH waiters <- pwaiters, woken <- pwoken
consume == INSTANCE CondVar WITH waiters <- cwaiters, woken <- cwoken

Pool == Masters \cup Workers
Items == 0..total_items - 1
Cells == 0..max_buf_size - 1
PoolReady == Pool \ (pwaiters \cup pwoken \cup cwaiters \cup cwoken \cup returned)

PoolInit ==
  /\ item_to_produce = 0 /\ curr_buf_size = 0 /\ consume_cnt = 0
  /\ buffer \in [Cells -> {-1}] /\ heap = "ok"
  /\ produce!Init /\ consume!Init /\ second = {} /\ returned = {}
  /\ consumed = [i \in Items |-> 0]

Finish(t) == returned' = returned \cup {t} /\ UNCHANGED <<data, heap>>

\* Lines 58-63.  A write past the allocated cells is undefined behaviour.
Put ==
  /\ IF curr_buf_size < max_buf_size
       THEN buffer' = [buffer EXCEPT ![curr_buf_size] = item_to_produce] /\ UNCHANGED heap
       ELSE heap' = "overflow" /\ UNCHANGED buffer
  /\ curr_buf_size' = curr_buf_size + 1
  /\ item_to_produce' = item_to_produce + 1
  /\ consume!Signal
  /\ UNCHANGED <<consume_cnt, consumed, second, returned>>

\* Mutant: going on instead of returning.
generate_requests_loop_MutGoOn(t) ==
  /\ t \in Masters \cap PoolReady
  /\ \/ curr_buf_size >= max_buf_size /\ produce!Wait(t) /\ UNCHANGED <<data, heap, cvars, returned>>
     \/ /\ curr_buf_size < max_buf_size /\ item_to_produce >= total_items
        /\ produce!Broadcast /\ UNCHANGED <<data, heap, cvars, returned>>
     \/ curr_buf_size < max_buf_size /\ item_to_produce < total_items /\ Put /\ UNCHANGED pvars

\* One turn of the master's loop, up to pthread_cond_wait or unlock.
generate_requests_loop(t) ==
  /\ t \in Masters \cap PoolReady
  /\ \/ /\ curr_buf_size >= max_buf_size
        /\ produce!Wait(t) /\ UNCHANGED <<data, heap, cvars, returned>>
     \/ /\ curr_buf_size < max_buf_size /\ item_to_produce >= total_items
        /\ Finish(t) /\ produce!Broadcast /\ UNCHANGED cvars
     \/ /\ curr_buf_size < max_buf_size /\ item_to_produce < total_items
        /\ Put /\ UNCHANGED pvars

\* The rest of the turn after pthread_cond_wait: whether there is space now is
\* not tested again.
produce_return(t) ==
  \/ item_to_produce >= total_items /\ produce!ReturnBroadcast(t) /\ Finish(t) /\ UNCHANGED cvars
  \/ item_to_produce < total_items /\ produce!Return(t) /\ Put

\* Mutant: the first item is taken instead of the last.
Take_MutBottom ==
  /\ curr_buf_size' = curr_buf_size - 1
  /\ buffer' = [buffer EXCEPT ![0] = -1]
  /\ consumed' = IF buffer[0] \in Items THEN [consumed EXCEPT ![buffer[0]] = @ + 1] ELSE consumed
  /\ consume_cnt' = consume_cnt + 1
  /\ produce!Signal
  /\ UNCHANGED <<item_to_produce, heap, second, returned>>

\* Lines 104-111.  A cell past the allocated ones may hold anything.
Take ==
  LET top == curr_buf_size - 1
  IN  /\ curr_buf_size' = top
      /\ buffer' = IF top \in Cells THEN [buffer EXCEPT ![top] = -1] ELSE buffer
      /\ \E item \in IF top \in Cells THEN {buffer[top]} ELSE Items \cup {-1} :
            consumed' = IF item \in Items THEN [consumed EXCEPT ![item] = @ + 1] ELSE consumed
      /\ consume_cnt' = consume_cnt + 1
      /\ produce!Signal
      /\ UNCHANGED <<item_to_produce, heap, second, returned>>

\* Mutant: a worker that returns does not wake the others.
consume_requests_loop_MutNoBroadcast(t) ==
  /\ t \in Workers \cap PoolReady
  /\ \/ /\ curr_buf_size <= 0 /\ consume_cnt < total_items
        /\ consume!Wait(t) /\ UNCHANGED <<data, heap, pvars, second, returned>>
     \/ consume_cnt = total_items /\ Finish(t) /\ UNCHANGED <<pvars, cvars>>
     \/ /\ curr_buf_size > 0 /\ consume_cnt # total_items
        /\ Take /\ UNCHANGED <<cwaiters, cwoken>>

\* One turn of the worker's loop, up to pthread_cond_wait or unlock.
consume_requests_loop(t) ==
  /\ t \in Workers \cap PoolReady
  /\ \/ /\ curr_buf_size <= 0 /\ consume_cnt < total_items
        /\ consume!Wait(t) /\ UNCHANGED <<data, heap, pvars, second, returned>>
     \/ /\ consume_cnt = total_items
        /\ Finish(t) /\ consume!Broadcast /\ UNCHANGED <<pvars, second>>
     \/ /\ curr_buf_size > 0 /\ consume_cnt # total_items
        /\ Take /\ UNCHANGED <<cwaiters, cwoken>>

\* The rest of the turn after the wait of line 85 ...
consume_return(t) ==
  /\ t \notin second
  /\ \/ /\ consume_cnt = total_items
        /\ consume!ReturnBroadcast(t) /\ Finish(t) /\ UNCHANGED <<pvars, second>>
     \/ /\ consume_cnt # total_items /\ curr_buf_size <= 0
        /\ consume!ReturnWait(t) /\ second' = second \cup {t} /\ UNCHANGED <<data, heap, pvars, returned>>
     \/ /\ consume_cnt # total_items /\ curr_buf_size > 0
        /\ consume!Return(t) /\ Take

\* ... and after that of line 102: produce is signalled with nothing consumed.
second_return(t) ==
  /\ t \in second
  /\ consume!Return(t) /\ second' = second \ {t}
  /\ produce!Signal
  /\ UNCHANGED <<data, heap, returned>>

pool_spurious(t) ==
  /\ PoolSpurious
  /\ \/ produce!Spurious(t) /\ UNCHANGED <<cwaiters, cwoken>>
     \/ consume!Spurious(t) /\ UNCHANGED pvars
  /\ UNCHANGED <<data, heap, second, returned>>

\* Once the heap is damaged the C library may abort the process at any time.
abort == heap = "overflow" /\ heap' = "aborted" /\ UNCHANGED <<data, pvars, cvars, returned>>

PoolStep(t) == \/ generate_requests_loop(t) \/ produce_return(t)
           \/ consume_requests_loop(t) \/ consume_return(t) \/ second_return(t)
PoolNext == (heap # "aborted" /\ \E t \in Pool : PoolStep(t) \/ pool_spurious(t)) \/ abort

\* The kernel runs every thread that can run, and a woken thread gets the mutex.
PoolSpec == PoolInit /\ [][PoolNext]_poolvars /\ \A t \in Pool : WF_poolvars(heap # "aborted" /\ PoolStep(t))
-----------------------------------------------------------------------------
PoolTypeOK ==
  /\ item_to_produce \in 0..total_items /\ consume_cnt \in 0..total_items
  /\ curr_buf_size \in Nat /\ curr_buf_size = item_to_produce - consume_cnt
  /\ buffer \in [Cells -> Items \cup {-1}] /\ heap \in {"ok", "overflow", "aborted"}
  /\ pwaiters \subseteq Masters /\ pwoken \subseteq Masters \ pwaiters
  /\ cwaiters \subseteq Workers /\ cwoken \subseteq Workers \ cwaiters
  /\ second \subseteq cwaiters \cup cwoken
  /\ returned \subseteq Pool \ (pwaiters \cup pwoken \cup cwaiters \cup cwoken)
  /\ consumed \in [Items -> Nat]

\* As long as nothing is written past the buffer, every item produced is either
\* in exactly one cell or has been consumed exactly once: check.awk's test.
ExactlyOnce ==
  heap = "ok" => \A i \in Items :
    LET cells == {c \in Cells : c < curr_buf_size /\ buffer[c] = i}
    IN  \/ i >= item_to_produce /\ consumed[i] = 0 /\ cells = {}
        \/ i < item_to_produce /\ consumed[i] = 1 /\ cells = {}
        \/ i < item_to_produce /\ consumed[i] = 0 /\ \E c \in Cells : cells = {c}

\* Some thread can run until all have returned: no set of masters and workers
\* sleeps on produce and consume for ever.
NoDeadlock == returned # Pool => PoolReady \cup pwoken \cup cwoken # {}

\* All threads return and main joins them, unless the process is aborted.
AllReturn == <>(returned = Pool \/ heap = "aborted")

\* The comment at master-worker.c:43-44: a master waits until there is space.
BufferBound == curr_buf_size <= max_buf_size
=============================================================================
