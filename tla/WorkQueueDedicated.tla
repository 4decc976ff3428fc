------------------------- MODULE WorkQueueDedicated -------------------------
(***************************************************************************)
(* src/work_queue_dedicated/code.c: an interrupt handler defers work to a  *)
(* dedicated single-threaded work queue; work_handler() collects nodes in  *)
(* a linked list and prints and empties the list once it holds N of them.  *)
(*                                                                         *)
(* Four actors interleave: the task that runs insmod and rmmod (start()    *)
(* and stops()), the interrupt line, the queue's only worker thread, and   *)
(* the page allocator, which may refuse any request.                       *)
(***************************************************************************)
EXTENDS Integers, Sequences, SequencesExt

CONSTANTS
  N,     \* length of f[], 14 in the code
  Node,  \* the addresses kmalloc() can return
  NULL

ASSUME NAssumption == N \in Nat \ {0}

ASSUME NULLAssumption == NULL \notin Node

VARIABLES
  mod,         \* next statement of start() or stops()
  registered,  \* my_interrupt is on the interrupt line
  in_irq,      \* my_interrupt is executing on some CPU
  wq,          \* the work queue: "null", "live" or "destroyed"
  func,        \* INIT_WORK() has given work its handler
  pending,     \* work is on the queue (WORK_STRUCT_PENDING)
  worker,      \* next statement of the worker thread
  locked,      \* the worker thread holds sl: it must not sleep
  i,           \* loop index of work_handler()
  moving_val,
  f,           \* the array of node pointers
  value,       \* the value field of every node
  head,        \* the linked list, first node first
  heap,        \* nodes returned by kmalloc(); nothing is ever freed
  printed,     \* values printed by the last print_list()
  fault        \* the bad access that stopped the machine, or "none"

loadVars == <<registered, wq, func>>
listVars == <<i, moving_val, f, value, head, heap, printed>>
vars == <<mod, in_irq, pending, worker, locked, fault, loadVars, listVars>>

StartStates == {"request_irq", "create_wq", "init_work"}
StopStates  == {"synchronize_irq", "free_irq", "wait_irq", "flush", "destroy"}
ModStates   == StartStates \cup StopStates \cup {"live", "gone", "load_failed"}
WorkerStates == {"idle", "lock", "test", "kmalloc", "del", "unlock"}
Faults == {"none", "null_wq", "uninit_work", "bad_list_del"}

Init ==
  /\ mod = "request_irq"
  /\ registered = FALSE
  /\ in_irq = FALSE
  /\ wq = "null"
  /\ func = FALSE
  /\ pending = FALSE
  /\ worker = "idle"
  /\ locked = FALSE
  /\ i = 0
  /\ moving_val = 0
  /\ f = [k \in 0..N-1 |-> NULL]
  /\ value = [n \in Node |-> 0]
  /\ head = <<>>
  /\ heap = {}
  /\ printed = <<>>
  /\ fault = "none"

-----------------------------------------------------------------------------
(* start() *)

RequestIrq ==
  /\ mod = "request_irq"
  /\ \/ registered' = TRUE /\ mod' = "create_wq"
     \/ registered' = FALSE /\ mod' = "load_failed"
  /\ UNCHANGED <<in_irq, wq, func, pending, worker, locked, fault, listVars>>

\* The result of create_singlethread_workqueue() is not checked.
CreateWq ==
  /\ mod = "create_wq"
  /\ wq' \in {"live", "null"}
  /\ mod' = "init_work"
  /\ UNCHANGED <<registered, in_irq, func, pending, worker, locked, fault, listVars>>

InitWork ==
  /\ mod = "init_work"
  /\ func' = TRUE
  /\ mod' = "live"
  /\ UNCHANGED <<registered, in_irq, wq, pending, worker, locked, fault, listVars>>

-----------------------------------------------------------------------------
(* The interrupt line.  One line never re-enters its own handlers. *)

IrqRaised ==
  /\ registered
  /\ ~in_irq
  /\ in_irq' = TRUE
  /\ UNCHANGED <<mod, pending, worker, locked, fault, loadVars, listVars>>

\* queue_work() needs a queue and an initialised work item; it does nothing
\* when the item is already pending.
MyInterrupt ==
  /\ in_irq
  /\ in_irq' = FALSE
  /\ \/ wq = "live" /\ func /\ pending' = TRUE /\ UNCHANGED fault
     \/ wq = "live" /\ ~func /\ fault' = "uninit_work" /\ UNCHANGED pending
     \/ wq # "live" /\ fault' = "null_wq" /\ UNCHANGED pending
  /\ UNCHANGED <<mod, worker, locked, loadVars, listVars>>

-----------------------------------------------------------------------------
(* The worker thread: process_one_work() and work_handler() *)

\* The pending bit is cleared before the handler runs, so an interrupt that
\* arrives during the handler queues the work again.
WorkerTake ==
  /\ worker = "idle"
  /\ pending
  /\ pending' = FALSE
  /\ worker' = "lock"
  /\ UNCHANGED <<mod, in_irq, locked, fault, loadVars, listVars>>

\* sl is a local variable: no other thread ever competes for it.
HandlerLock ==
  /\ worker = "lock"
  /\ locked' = TRUE
  /\ i' = 0
  /\ worker' = "test"
  /\ UNCHANGED <<mod, in_irq, pending, fault, loadVars,
                 moving_val, f, value, head, heap, printed>>

\* print_list()
PrintList == [k \in 1..Len(head) |-> value[head[k]]]

\* Faulty variant: moving_val may run one past the end of f[].
RoomOffByOne == moving_val <= N

Room == moving_val < N

\* Faulty variant: a flush does not reset moving_val.
RewindForgotten == UNCHANGED moving_val

Rewind == moving_val' = 0

HandlerTest ==
  /\ worker = "test"
  /\ IF Room
       THEN /\ worker' = "kmalloc"
            /\ UNCHANGED <<moving_val, printed>>
       ELSE /\ Rewind
            /\ printed' = PrintList
            /\ worker' = "del"
  /\ UNCHANGED <<mod, in_irq, pending, locked, fault, loadVars, i, f, value, head, heap>>

HandlerAdd ==
  /\ worker = "kmalloc"
  /\ \E n \in Node \ heap :
       /\ heap' = heap \cup {n}
       /\ f' = [f EXCEPT ![moving_val] = n]
       /\ value' = [value EXCEPT ![n] = moving_val]
       /\ head' = Cons(n, head)
  /\ moving_val' = moving_val + 1
  /\ worker' = "unlock"
  /\ UNCHANGED <<mod, in_irq, pending, locked, fault, loadVars, i, printed>>

\* Faulty variant: a failed allocation still consumes its slot.
HandlerNoMemoryAdvances ==
  /\ worker = "kmalloc"
  /\ f' = [f EXCEPT ![moving_val] = NULL]
  /\ moving_val' = moving_val + 1
  /\ worker' = "idle"
  /\ UNCHANGED <<mod, in_irq, pending, locked, fault, loadVars,
                 i, value, head, heap, printed>>

\* The early return leaves sl locked.
HandlerNoMemory ==
  /\ worker = "kmalloc"
  /\ f' = [f EXCEPT ![moving_val] = NULL]
  /\ worker' = "idle"
  /\ UNCHANGED <<mod, in_irq, pending, locked, fault, loadVars,
                 i, moving_val, value, head, heap, printed>>

\* Faulty variant: the loop stops one node early.
MoreShort == i + 2 < N

More == i + 1 < N

\* list_del(&f[i]->next) of a node that is not on the list dereferences
\* poisoned or null links.
HandlerDel ==
  /\ worker = "del"
  /\ \/ /\ \E k \in 1..Len(head) : head[k] = f[i] /\ head' = RemoveAt(head, k)
        /\ i' = i + 1
        /\ worker' = IF More THEN "del" ELSE "unlock"
        /\ UNCHANGED fault
     \/ /\ ~Contains(head, f[i])
        /\ fault' = "bad_list_del"
        /\ UNCHANGED <<head, i, worker>>
  /\ UNCHANGED <<mod, in_irq, pending, locked, loadVars,
                 moving_val, f, value, heap, printed>>

\* Faulty variant: the pending bit is cleared after the handler, not before.
HandlerUnlockClears ==
  /\ worker = "unlock"
  /\ locked' = FALSE
  /\ worker' = "idle"
  /\ pending' = FALSE
  /\ UNCHANGED <<mod, in_irq, fault, loadVars, listVars>>

HandlerUnlock ==
  /\ worker = "unlock"
  /\ locked' = FALSE
  /\ worker' = "idle"
  /\ UNCHANGED <<mod, in_irq, pending, fault, loadVars, listVars>>

-----------------------------------------------------------------------------
(* stops(), run by rmmod *)

Rmmod ==
  /\ mod = "live"
  /\ mod' = "synchronize_irq"
  /\ UNCHANGED <<in_irq, pending, worker, locked, fault, loadVars, listVars>>

SynchronizeIrq ==
  /\ mod = "synchronize_irq"
  /\ ~in_irq
  /\ mod' = "free_irq"
  /\ UNCHANGED <<in_irq, pending, worker, locked, fault, loadVars, listVars>>

\* Faulty variant: the handler stays on the line.
FreeIrqForgotten ==
  /\ mod = "free_irq"
  /\ mod' = "wait_irq"
  /\ UNCHANGED <<in_irq, pending, worker, locked, fault, loadVars, listVars>>

\* free_irq() takes the handler off the line, then waits for it to return.
FreeIrq ==
  /\ mod = "free_irq"
  /\ registered' = FALSE
  /\ mod' = "wait_irq"
  /\ UNCHANGED <<in_irq, wq, func, pending, worker, locked, fault, listVars>>

\* Faulty variant: stops() goes on while the handler is still running.
FreeIrqNoWait ==
  /\ mod = "wait_irq"
  /\ mod' = "flush"
  /\ UNCHANGED <<in_irq, pending, worker, locked, fault, loadVars, listVars>>

FreeIrqWait ==
  /\ mod = "wait_irq"
  /\ ~in_irq
  /\ mod' = "flush"
  /\ UNCHANGED <<in_irq, pending, worker, locked, fault, loadVars, listVars>>

FlushWorkqueue ==
  /\ mod = "flush"
  /\ IF wq = "live"
       THEN ~pending /\ worker = "idle" /\ mod' = "destroy" /\ UNCHANGED fault
       ELSE fault' = "null_wq" /\ UNCHANGED mod
  /\ UNCHANGED <<in_irq, pending, worker, locked, loadVars, listVars>>

\* destroy_workqueue() drains the queue once more before it frees it.
DestroyWorkqueue ==
  /\ mod = "destroy"
  /\ ~pending
  /\ worker = "idle"
  /\ wq' = "destroyed"
  /\ mod' = "gone"
  /\ UNCHANGED <<registered, in_irq, func, pending, worker, locked, fault, listVars>>

-----------------------------------------------------------------------------
Loader == RequestIrq \/ CreateWq \/ InitWork \/ Rmmod \/ SynchronizeIrq
          \/ FreeIrq \/ FreeIrqWait \/ FlushWorkqueue \/ DestroyWorkqueue

Worker == WorkerTake \/ HandlerLock \/ HandlerTest \/ HandlerAdd
          \/ HandlerNoMemory \/ HandlerDel \/ HandlerUnlock

\* A fault in interrupt context or in the worker stops the machine.
Next == fault = "none" /\ (Loader \/ IrqRaised \/ MyInterrupt \/ Worker)

Spec == Init /\ [][Next]_vars

\* The scheduler runs a runnable worker and the rmmod task, an interrupt
\* handler runs to completion.  Nothing obliges an interrupt to be raised or
\* the module to be unloaded.
Fairness ==
  /\ WF_vars(fault = "none" /\ Worker)
  /\ WF_vars(fault = "none" /\ MyInterrupt)
  /\ WF_vars(fault = "none" /\ (FreeIrq \/ FreeIrqWait \/ FlushWorkqueue \/ DestroyWorkqueue))

FairSpec == Spec /\ Fairness

-----------------------------------------------------------------------------
(* Properties *)

\* Every variable keeps its type; in particular moving_val never exceeds the
\* length of f[] (code.c:61, 174).
TypeOK ==
  /\ mod \in ModStates
  /\ registered \in BOOLEAN
  /\ in_irq \in BOOLEAN
  /\ wq \in {"null", "live", "destroyed"}
  /\ func \in BOOLEAN
  /\ pending \in BOOLEAN
  /\ worker \in WorkerStates
  /\ locked \in BOOLEAN
  /\ i \in 0..N
  /\ moving_val \in 0..N
  /\ f \in [0..N-1 -> Node \cup {NULL}]
  /\ value \in [Node -> 0..N-1]
  /\ head \in Seq(Node)
  /\ heap \in SUBSET Node
  /\ printed \in Seq(0..N-1)
  /\ fault \in Faults

\* The list holds exactly the nodes f[] recorded since the last flush, newest
\* first, each with its slot number as value, whatever allocations failed in
\* between and however interrupts and unloading interleave (code.c:174-195).
ListMatchesArray ==
  /\ Len(head) = IF worker = "del" THEN N - i ELSE moving_val
  /\ \A k \in 1..Len(head) :
       LET slot == IF worker = "del" THEN N - k ELSE moving_val - k
       IN  head[k] = f[slot] /\ value[head[k]] = slot

\* A flush prints a complete batch, newest value first (code.c:189, 199-207).
FlushPrintsBatch == printed \in {<<>>, [k \in 1..N |-> N - k]}

\* start() has returned 0 with a work queue.
Ready == mod \notin StartStates \cup {"load_failed"} /\ wq # "null"

\* Once the module is completely set up nothing it does oopses, up to and
\* including its removal: no interrupt finds the queue destroyed and no node
\* is unlinked twice (code.c:107, 146-155, 193).
NoFaultOnceReady == Ready => fault = "none"

\* When stops() has returned, or start() has failed, no interrupt handler and
\* no work item is left that would run code of the removed module
\* (code.c:143-158).
QuietAfterUnload ==
  mod \in {"gone", "load_failed"} => ~in_irq /\ ~pending /\ worker = "idle"

\* An interrupt is never lost: a queued work item leads to a run of
\* work_handler() that begins after it, even if the handler was already
\* running (code.c:107).
InterruptServed == pending ~> (worker = "lock" \/ fault # "none")

\* stops() returns: once the interrupt is being freed the flush cannot be
\* postponed for ever (code.c:148-155).
UnloadTerminates == mod = "free_irq" ~> (mod = "gone" \/ fault # "none")

=============================================================================
