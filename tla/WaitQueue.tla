----------------------------- MODULE WaitQueue -----------------------------
(***************************************************************************)
(* src/wait_queue/code.c: start() creates a kernel thread that sleeps on   *)
(* wq until condition > 0, wakes it once in vain and once in earnest.      *)
(* msleep() lets the other task run but guarantees nothing about how far   *)
(* it gets, so it is no step of its own.  Kernel threads ignore signals.   *)
(***************************************************************************)
EXTENDS Naturals, Sequences, WaitEvent

VARIABLES
  thread,     \* mytask: "none", "stopped", "woken", "mfoo" or "exited"
  log         \* the messages printed so far

vars == <<pc, condition, fault, thread, log, waitVars>>

\* wait_queue/output:1-8, the messages in the order the repository shows.
Output == <<"waiting", "sleep", "attempt 1", "attempt 2", "wake up", "again", "done", "cleaning">>

Init ==
  /\ pc = "create"
  /\ condition = 0
  /\ fault = "none"
  /\ thread = "none"
  /\ log = <<>>
  /\ WaitInit

-----------------------------------------------------------------------------
(* start() *)

KthreadCreate ==
  /\ pc = "create"
  /\ \/ thread' = "stopped" /\ pc' = "wake_process" /\ log' = Append(log, "waiting")
     \/ thread' = "none" /\ pc' = "load_failed" /\ UNCHANGED log
  /\ UNCHANGED <<condition, fault, waitVars>>

WakeUpProcess ==
  /\ pc = "wake_process"
  /\ thread' = "woken"
  /\ pc' = "clear"
  /\ UNCHANGED <<condition, fault, log, waitVars>>

ClearCondition ==
  /\ pc = "clear"
  /\ condition' = 0
  /\ log' = Append(log, "attempt 1")
  /\ pc' = "wake1"
  /\ UNCHANGED <<fault, thread, waitVars>>

WakeUp1 ==
  /\ pc = "wake1"
  /\ WakeUp
  /\ pc' = "set"
  /\ UNCHANGED <<condition, fault, thread, log>>

SetCondition ==
  /\ pc = "set"
  /\ condition' = 1
  /\ pc' = "announce"
  /\ UNCHANGED <<fault, thread, log, waitVars>>

\* By now the thread may have seen condition.
Announce ==
  /\ pc = "announce"
  /\ log' = Append(log, "attempt 2")
  /\ pc' = "wake2"
  /\ UNCHANGED <<condition, fault, thread, waitVars>>

\* Faulty variant: the second wake-up is forgotten.
WakeUp2Missing ==
  /\ pc = "wake2"
  /\ log' = Append(log, "wake up")
  /\ pc' = "bye"
  /\ UNCHANGED <<condition, fault, thread, waitVars>>

WakeUp2 ==
  /\ pc = "wake2"
  /\ WakeUp
  /\ log' = Append(log, "wake up")
  /\ pc' = "bye"
  /\ UNCHANGED <<condition, fault, thread>>

StartDone ==
  /\ pc = "bye"
  /\ log' = Append(log, "done")
  /\ pc' = "live"
  /\ UNCHANGED <<condition, fault, thread, waitVars>>

\* stops() does not wait for the thread; rmmod frees the module's text after it.
Stops ==
  /\ pc = "live"
  /\ log' = Append(log, "cleaning")
  /\ pc' = "gone"
  /\ UNCHANGED <<condition, fault, thread, waitVars>>

-----------------------------------------------------------------------------
(* mfoo(), as long as its text is there *)

MfooStart ==
  /\ pc # "gone"
  /\ thread = "woken"
  /\ thread' = "mfoo"
  /\ log' = Append(log, "sleep")
  /\ WaitCall
  /\ UNCHANGED <<pc, condition, fault>>

\* Faulty variant: the condition is off by one.
RaisedOffByOne == condition >= 0

Raised == condition > 0

\* wait_event_interruptible(wq, condition > 0)
MfooWaits ==
  /\ pc # "gone"
  /\ thread = "mfoo"
  /\ \/ WaitTest(Raised)
     \/ PrepareToWait(FALSE)
     \/ WaitRetest(Raised)
     \/ Schedule(FALSE)
     \/ FinishWait
  /\ UNCHANGED <<pc, condition, fault, thread, log>>

MfooReturns ==
  /\ pc # "gone"
  /\ thread = "mfoo"
  /\ wpc = "done"
  /\ thread' = "exited"
  /\ log' = Append(log, "again")
  /\ UNCHANGED <<pc, condition, fault, waitVars>>

\* The thread is still to run mfoo() when the module is gone, and is not asleep.
MfooAfterUnload ==
  /\ pc = "gone"
  /\ thread \in {"woken", "mfoo"}
  /\ wpc = "schedule" => tstate = "running"
  /\ fault' = "text_gone"
  /\ UNCHANGED <<pc, condition, thread, log, waitVars>>

-----------------------------------------------------------------------------
Start == KthreadCreate \/ WakeUpProcess \/ ClearCondition \/ WakeUp1
         \/ SetCondition \/ Announce \/ WakeUp2 \/ StartDone

Mfoo == MfooStart \/ MfooWaits \/ MfooReturns \/ MfooAfterUnload

Next == fault = "none" /\ (Start \/ Stops \/ Mfoo)

Spec == Init /\ [][Next]_vars

\* Both tasks are scheduled; whether the module is ever removed is up to the
\* user.
Fairness == WF_vars(fault = "none" /\ Start) /\ WF_vars(fault = "none" /\ Mfoo)

-----------------------------------------------------------------------------
(* Properties *)

\* No wake-up is lost: whenever mfoo() is asleep although condition > 0, start()
\* is just about to wake it (code.c:73-77, 96).
NoLostWakeup ==
  thread = "mfoo" /\ wpc = "schedule" /\ tstate = "interruptible" /\ condition > 0 =>
    pc \in {"announce", "wake2"}

\* The thread and the module implement the safety part of the abstract wait:
\* mfoo() gets past line 96 only after condition was raised (code.c:59, 73, 96).
A == INSTANCE Await WITH
  SIGNALS <- FALSE,
  cond    <- condition > 0,
  state   <- IF Passed THEN "passed" ELSE "waiting"

AwaitSpec == A!ASpec

\* Once the thread runs, it leaves mfoo() for good, or it is caught in mfoo() by
\* stops(), which does not wait for it (code.c:87-90, 92-101).
ThreadExits == thread = "woken" ~> (thread = "exited" \/ fault = "text_gone")

\* Whenever message b has been printed, a was printed before it.
Precedes(a, b) == \A k \in 1..Len(log) : log[k] = b => \E j \in 1..k-1 : log[j] = a

\* The messages of each task come in the order of wait_queue/output:1-8, each of
\* them once.  Across the tasks msleep() guarantees nothing, but the thread
\* is only created after "waiting" and only runs again after "attempt 1"
\* (code.c:50-61, 92-98).
MessagesOrdered ==
  LET mfoo == {"sleep", "again"}
  IN  /\ \A k \in 1..Len(log) : \E n \in 1..Len(Output) : log[k] = Output[n]
      /\ \A j, k \in 1..Len(log) : log[j] = log[k] => j = k
      /\ \A m, n \in 1..Len(Output) :
           m < n /\ (Output[m] \in mfoo <=> Output[n] \in mfoo) => Precedes(Output[m], Output[n])
      /\ Precedes("waiting", "sleep")
      /\ Precedes("attempt 1", "again")

=============================================================================
