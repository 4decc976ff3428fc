-------------------------- MODULE WorkQueueGlobal --------------------------
(***************************************************************************)
(* src/work_queue_global/code.c: start() queues a work item on the shared  *)
(* work queue and sleeps until its handler has set condition.  The item,   *)
(* the wait queue and the data share one allocation, which the handler     *)
(* frees.  Three actors: the insmod task, which can receive a signal, a    *)
(* kernel worker, and the user who unloads the module.  pc goes through    *)
(* "kmalloc", "init", "schedule_work", "wait" and "loaded" to "gone".      *)
(***************************************************************************)
EXTENDS Naturals, WaitEvent

VARIABLES
  my_data,    \* the allocation: "none", "raw" (not initialised), "live" or "freed"
  queued,     \* unit_of_work is on the shared queue
  handler,    \* do_work_handler(): "idle", "read", "set", "wake", "free" or "done"
  signal      \* the insmod task has a signal pending

globalVars == <<pc, my_data, queued, handler, condition, signal, fault, waitVars>>

GlobalInit ==
  /\ pc = "kmalloc"
  /\ my_data = "none"
  /\ queued = FALSE
  /\ handler = "idle"
  /\ condition = 0
  /\ signal = FALSE
  /\ fault = "none"
  /\ WaitInit

\* An access to the allocation.  An access after kfree() is undefined: the old
\* contents may still be there, or the machine crashes.
Access ==
  \/ my_data = "live" /\ UNCHANGED fault
  \/ my_data # "live" /\ fault' \in {"none", "use_after_free"}

-----------------------------------------------------------------------------
(* start().  wait_event_interruptible(my_data->my_wq, condition != 0) takes *)
(* the lock in my_wq to enqueue the task, and again to dequeue it unless    *)
(* the wake-up did that already.                                            *)

Kmalloc ==
  /\ pc = "kmalloc"
  /\ \/ my_data' = "raw" /\ pc' = "init"
     \/ my_data' = "none" /\ pc' = "load_failed"
  /\ UNCHANGED <<queued, handler, condition, signal, fault, waitVars>>

InitWork ==
  /\ pc = "init"
  /\ my_data' = "live"
  /\ pc' = "schedule_work"
  /\ UNCHANGED <<queued, handler, condition, signal, fault, waitVars>>

ScheduleWork ==
  /\ pc = "schedule_work"
  /\ Access
  /\ queued' = TRUE
  /\ pc' = "wait"
  /\ WaitCall
  /\ UNCHANGED <<my_data, handler, condition, signal>>

\* Faulty variant: the condition is inverted.
NonzeroInverted == condition = 0

Nonzero == condition # 0

StartTests ==
  /\ pc = "wait"
  /\ WaitTest(Nonzero) \/ WaitRetest(Nonzero)
  /\ UNCHANGED <<pc, my_data, queued, handler, condition, signal, fault>>

StartEnqueues ==
  /\ pc = "wait"
  /\ PrepareToWait(signal)
  /\ Access
  /\ UNCHANGED <<pc, my_data, queued, handler, condition, signal>>

StartSleeps ==
  /\ pc = "wait"
  /\ Schedule(signal)
  /\ UNCHANGED <<pc, my_data, queued, handler, condition, signal, fault>>

StartDequeues ==
  /\ pc = "wait"
  /\ FinishWait
  /\ IF onq THEN Access ELSE UNCHANGED fault
  /\ UNCHANGED <<pc, my_data, queued, handler, condition, signal>>

\* The result of wait_event_interruptible() is not looked at.
StartReturns ==
  /\ pc = "wait"
  /\ wpc \in {"done", "eintr"}
  /\ pc' = "loaded"
  /\ UNCHANGED <<my_data, queued, handler, condition, signal, fault, waitVars>>

SignalArrives ==
  /\ pc = "wait"
  /\ ~signal
  /\ signal' = TRUE
  /\ UNCHANGED <<pc, my_data, queued, handler, condition, fault, waitVars>>

\* stops() is empty: it neither cancels nor flushes the work item.
GlobalStops ==
  /\ pc = "loaded"
  /\ pc' = "gone"
  /\ UNCHANGED <<my_data, queued, handler, condition, signal, fault, waitVars>>

-----------------------------------------------------------------------------
(* do_work_handler(), on a kernel worker.  After the module is gone its text *)
(* is unmapped and every further step of the handler faults.                 *)

Handler(step, next) ==
  /\ handler = step
  /\ handler' = next
  /\ pc # "gone"

HandlerTaken ==
  /\ queued
  /\ queued' = FALSE
  /\ Handler("idle", "read")
  /\ Access
  /\ UNCHANGED <<pc, my_data, condition, signal, waitVars>>

HandlerReads ==
  /\ Handler("read", "set")
  /\ Access
  /\ UNCHANGED <<pc, my_data, queued, condition, signal, waitVars>>

HandlerSets ==
  /\ Handler("set", "wake")
  /\ condition' = 5
  /\ UNCHANGED <<pc, my_data, queued, signal, fault, waitVars>>

\* Faulty variant: the allocation is freed before the wake-up.
HandlerWakesFreed ==
  /\ Handler("wake", "free")
  /\ my_data' = "freed"
  /\ WakeUp
  /\ UNCHANGED <<pc, queued, condition, signal, fault>>

\* Faulty variant: the wake-up is forgotten.
HandlerWakesNobody ==
  /\ Handler("wake", "free")
  /\ UNCHANGED <<pc, my_data, queued, condition, signal, fault, waitVars>>

HandlerWakes ==
  /\ Handler("wake", "free")
  /\ Access
  /\ WakeUp
  /\ UNCHANGED <<pc, my_data, queued, condition, signal>>

HandlerFrees ==
  /\ Handler("free", "done")
  /\ my_data' = "freed"
  /\ UNCHANGED <<pc, queued, condition, signal, fault, waitVars>>

HandlerAfterUnload ==
  /\ pc = "gone"
  /\ queued \/ handler \notin {"idle", "done"}
  /\ fault' = "text_gone"
  /\ UNCHANGED <<pc, my_data, queued, handler, condition, signal, waitVars>>

-----------------------------------------------------------------------------
Waiter == StartTests \/ StartEnqueues \/ StartSleeps \/ StartDequeues \/ StartReturns

GlobalStart == Kmalloc \/ InitWork \/ ScheduleWork \/ Waiter

WorkHandler == HandlerTaken \/ HandlerReads \/ HandlerSets \/ HandlerWakes
               \/ HandlerFrees \/ HandlerAfterUnload

GlobalNext == fault = "none" /\ (GlobalStart \/ WorkHandler \/ SignalArrives \/ GlobalStops)

GlobalSpec == GlobalInit /\ [][GlobalNext]_globalVars

\* The insmod task and the shared work queue make progress.  No signal need
\* arrive and nobody need unload the module.
GlobalFairness ==
  /\ WF_globalVars(fault = "none" /\ GlobalStart)
  /\ WF_globalVars(fault = "none" /\ WorkHandler)

-----------------------------------------------------------------------------
(* Properties *)

\* The insmod task never sleeps on once condition is set, unless the handler is
\* about to wake it (code.c:78-84, 112).
GlobalNoLostWakeup ==
  pc = "wait" /\ wpc = "schedule" /\ tstate = "interruptible" /\ condition # 0 =>
    handler = "wake" \/ signal

\* The allocation is initialised before any other actor sees it, and it is freed
\* exactly when the handler has made its last access (code.c:98-104, 85).
HandlerOwnsData ==
  /\ queued \/ handler \notin {"idle", "done"} => my_data = "live"
  /\ my_data = "freed" <=> handler = "done"

\* The wait is over only if condition was set or a signal arrived: start() and
\* the handler implement the safety part of the abstract wait (code.c:78, 112).
GlobalAwait == INSTANCE Await WITH
  SIGNALS <- TRUE,
  cond    <- condition # 0,
  state   <- IF Passed THEN "passed" ELSE IF wpc = "eintr" THEN "interrupted" ELSE "waiting"

AwaitSafe == GlobalAwait!ASpec

\* insmod returns: start() does not sleep for ever (code.c:88-115).
StartTerminates == pc = "wait" ~> (pc = "loaded" \/ fault # "none")

(* What the repository says and the code does not keep *)

\* code.c:110: "Condition is checked every time wait_queue is woken up using
\* wake_up_interruptible()": the queue a woken task goes back to must exist.
WaitQueueAlive == wpc = "prepare" \/ onq => my_data = "live"

=============================================================================
