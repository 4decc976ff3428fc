----------------------------- MODULE WaitEvent -----------------------------
(***************************************************************************)
(* One task inside wait_event_interruptible() on one wait queue, as the    *)
(* modules of this repository use it (wait_queue/code.c:96,                *)
(* work_queue_global/code.c:112).  The macro tests the condition, then     *)
(* loops: enqueue and mark the task as sleeping, test again, call the      *)
(* scheduler.  wake_up_interruptible() makes a queued sleeper runnable and *)
(* takes it off the queue.                                                 *)
(***************************************************************************)
VARIABLES
  pc,         \* next statement of the module's start() or stops()
  condition,  \* the module's variable that the wait is for
  fault       \* "none", or the stray access that crashed the machine

VARIABLES
  wpc,      \* where the task is inside the macro
  onq,      \* its entry is on the wait queue
  tstate,   \* "running" or "interruptible"
  intr      \* prepare_to_wait_event() saw a signal

waitVars == <<wpc, onq, tstate, intr>>

WaitTypeOK ==
  /\ wpc \in {"idle", "test", "prepare", "retest", "schedule", "finish", "done", "eintr"}
  /\ onq \in BOOLEAN
  /\ tstate \in {"running", "interruptible"}
  /\ intr \in BOOLEAN

WaitInit ==
  /\ wpc = "idle"
  /\ onq = FALSE
  /\ tstate = "running"
  /\ intr = FALSE

WaitCall ==
  /\ wpc = "idle"
  /\ wpc' = "test"
  /\ UNCHANGED <<onq, tstate, intr>>

WaitTest(cond) ==
  /\ wpc = "test"
  /\ wpc' = IF cond THEN "done" ELSE "prepare"
  /\ UNCHANGED <<onq, tstate, intr>>

PrepareToWait(signal) ==
  /\ wpc = "prepare"
  /\ wpc' = "retest"
  /\ onq' = ~signal
  /\ intr' = signal
  /\ tstate' = IF signal THEN tstate ELSE "interruptible"

WaitRetest(cond) ==
  /\ wpc = "retest"
  /\ wpc' = IF cond THEN "finish" ELSE IF intr THEN "eintr" ELSE "schedule"
  /\ UNCHANGED <<onq, tstate, intr>>

Schedule(signal) ==
  /\ wpc = "schedule"
  /\ tstate = "running" \/ signal
  /\ tstate' = "running"
  /\ wpc' = "prepare"
  /\ UNCHANGED <<onq, intr>>

FinishWait ==
  /\ wpc = "finish"
  /\ wpc' = "done"
  /\ onq' = FALSE
  /\ tstate' = "running"
  /\ UNCHANGED intr

WakeUp ==
  /\ onq' = (onq /\ tstate = "running")
  /\ tstate' = IF onq THEN "running" ELSE tstate
  /\ UNCHANGED <<wpc, intr>>

\* The wait is over and returned 0.
Passed == wpc \in {"finish", "done"}

=============================================================================
