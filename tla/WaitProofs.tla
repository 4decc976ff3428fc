----------------------------- MODULE WaitProofs -----------------------------
(***************************************************************************)
(* Proofs about the two modules that sleep in wait_event_interruptible():  *)
(* WaitQueue (no lost wake-up, the abstract wait, the order of the         *)
(* messages) and WorkQueueGlobal (no lost wake-up, the abstract wait, who  *)
(* owns the allocation).  The two never run together: each theorem is      *)
(* about one of the two specifications.                                    *)
(***************************************************************************)
EXTENDS WaitQueue, WorkQueueGlobal, TLAPS

Steps == {"create", "wake_process", "clear", "wake1", "set", "announce", "wake2", "bye",
          "live", "gone", "load_failed"}
Before == {"create", "load_failed", "wake_process", "clear", "wake1", "set"}

\* The variables have their types; the log does not matter.
StateOK ==
  /\ pc \in Steps
  /\ condition \in {0, 1}
  /\ thread \in {"none", "stopped", "woken", "mfoo", "exited"}
  /\ WaitTypeOK

\* NoLostWakeup is not inductive: between enqueueing (line 96) and sleeping the
\* task must already count as a sleeper that the second wake-up will find.
IInv ==
  /\ StateOK
  /\ condition = IF pc \in Before THEN 0 ELSE 1
  /\ thread \notin {"mfoo", "exited"} => wpc = "idle"
  /\ thread = "mfoo" => wpc # "idle"
  /\ pc \in {"create", "load_failed"} => thread = "none"
  /\ pc = "wake_process" => thread = "stopped"
  /\ wpc \in {"idle", "test", "prepare"} => tstate = "running"
  /\ tstate = "interruptible" => onq
  /\ ~intr
  /\ Passed => condition > 0
  /\ NoLostWakeup

\* The initial state satisfies the inductive invariant.
LEMMA TypeInit == Init => IInv
BY DEF Init, IInv, StateOK, Steps, Before, WaitInit, WaitTypeOK, NoLostWakeup, Passed

\* Every step of start(), stops() and mfoo() preserves it.
LEMMA StepIInv == ASSUME IInv, [Next]_vars PROVE IInv'
<1> USE DEF IInv, StateOK, Steps, Before, WaitTypeOK, NoLostWakeup, Passed, waitVars
<1>1. CASE KthreadCreate
  BY <1>1 DEF KthreadCreate
<1>2. CASE WakeUpProcess
  BY <1>2 DEF WakeUpProcess
<1>3. CASE ClearCondition
  BY <1>3 DEF ClearCondition
<1>4. CASE WakeUp1
  BY <1>4 DEF WakeUp1, WakeUp
<1>5. CASE SetCondition
  <2>1. pc = "set" /\ pc' = "announce" /\ condition' = 1 /\ UNCHANGED <<thread, wpc, onq, tstate, intr>>
    BY <1>5 DEF SetCondition
  <2>2. StateOK' /\ (NoLostWakeup)' /\ (condition = IF pc \in Before THEN 0 ELSE 1)'
    BY <2>1
  <2>3. (Passed => condition > 0)'
    BY <2>1
  <2>4. QED
    BY <2>1, <2>2, <2>3
<1>5a. CASE Announce
  BY <1>5a DEF Announce
<1>6. CASE WakeUp2
  BY <1>6 DEF WakeUp2, WakeUp
<1>7. CASE StartDone
  BY <1>7 DEF StartDone
<1>8. CASE Stops
  BY <1>8 DEF Stops
<1>9. CASE MfooStart
  BY <1>9 DEF MfooStart, WaitCall
<1>10. CASE MfooWaits
  <2>1. thread = "mfoo" /\ UNCHANGED <<pc, condition, thread>>
    BY <1>10 DEF MfooWaits, Raised
  <2>2. CASE WaitTest(condition > 0)
    BY <2>1, <2>2 DEF WaitTest
  <2>3. CASE PrepareToWait(FALSE)
    BY <2>1, <2>3 DEF PrepareToWait
  <2>4. CASE WaitRetest(condition > 0)
    BY <2>1, <2>4 DEF WaitRetest
  <2>5. CASE Schedule(FALSE)
    BY <2>1, <2>5 DEF Schedule
  <2>6. CASE FinishWait
    BY <2>1, <2>6 DEF FinishWait
  <2>7. QED
    BY <1>10, <2>2, <2>3, <2>4, <2>5, <2>6 DEF MfooWaits, Raised
<1>11. CASE MfooReturns
  BY <1>11 DEF MfooReturns
<1>11a. CASE MfooAfterUnload
  BY <1>11a DEF MfooAfterUnload
<1>12. CASE UNCHANGED vars
  BY <1>12 DEF vars
<1>13. QED
  BY <1>1, <1>2, <1>3, <1>4, <1>5, <1>5a, <1>6, <1>7, <1>8, <1>9, <1>10, <1>11,
     <1>11a, <1>12
     DEF Next, Start, Mfoo

\* It holds in every reachable state.
LEMMA Invariance == Spec => []IInv
BY TypeInit, StepIInv, PTL DEF Spec

\* Every behaviour of the module, however the two tasks interleave, is free of
\* lost wake-ups (code.c:73-77, 96).
THEOREM WakeupNotLost == Spec => []NoLostWakeup
<1>1. IInv => NoLostWakeup
  BY DEF IInv
<1>2. QED
  BY <1>1, Invariance, PTL

\* The module implements the abstract wait: every step of start() and mfoo() is
\* a Raise, a Pass or a stutter of Await (code.c:59, 73, 96).
THEOREM ImplementsAwait == Spec => AwaitSpec
<1>1. Init => A!AInit
  BY DEF Init, WaitInit, A!AInit, Passed
<1>2. ASSUME IInv, IInv', [Next]_vars
      PROVE  [A!Raise \/ A!Pass \/ A!Interrupt]_(A!avars)
  <2> USE DEF IInv, StateOK, Before, WaitTypeOK, Passed, waitVars, A!avars
  <2>1. CASE SetCondition
    <3>1. condition = 0 /\ condition' = 1 /\ (Passed <=> Passed')
      BY <1>2, <2>1 DEF SetCondition
    <3>2. ~(condition > 0) /\ (condition > 0)' = TRUE
      BY <3>1
    <3>3. QED
      BY <3>1, <3>2 DEF A!Raise
  <2>2. CASE MfooWaits
    <3>1. condition' = condition /\ (Passed => Passed') /\ (~Passed /\ Passed' => condition > 0)
      BY <1>2, <2>2 DEF MfooWaits, Raised, WaitTest, PrepareToWait, WaitRetest, Schedule, FinishWait
    <3>2. CASE Passed <=> Passed'
      BY <3>1, <3>2
    <3>3. CASE ~Passed /\ Passed'
      BY <3>1, <3>3 DEF A!Pass
    <3>4. QED
      BY <3>1, <3>2, <3>3
  <2>3. CASE ~SetCondition /\ ~MfooWaits
    <3>1. condition' = condition /\ (Passed <=> Passed')
      BY <1>2, <2>3 DEF Next, Start, Mfoo, vars, KthreadCreate, WakeUpProcess, ClearCondition,
         WakeUp1, Announce, WakeUp2, WakeUp, StartDone, Stops, MfooStart, WaitCall, MfooReturns,
         MfooAfterUnload
    <3>2. QED
      BY <3>1
  <2>4. QED
    BY <2>1, <2>2, <2>3
<1>3. QED
  BY <1>1, <1>2, Invariance, PTL DEF Spec, AwaitSpec, A!ASpec

-----------------------------------------------------------------------------
(* The order of the messages.  What has been printed is determined by where *)
(* the two tasks are, so every message is printed once, and after those     *)
(* that its task has passed.                                                *)

Messages == {"waiting", "attempt 1", "attempt 2", "wake up", "done", "cleaning", "sleep", "again"}

Said(a) == \E k \in 1..Len(log) : log[k] = a

AfterFirst == {"wake1", "set", "announce", "wake2", "bye", "live", "gone"}

SaidInv ==
  /\ Said("waiting") <=> pc \notin {"create", "load_failed"}
  /\ Said("attempt 1") <=> pc \in AfterFirst
  /\ Said("attempt 2") <=> pc \in {"wake2", "bye", "live", "gone"}
  /\ Said("wake up") <=> pc \in {"bye", "live", "gone"}
  /\ Said("done") <=> pc \in {"live", "gone"}
  /\ Said("cleaning") <=> pc = "gone"
  /\ Said("sleep") <=> thread \in {"mfoo", "exited"}
  /\ Said("again") <=> thread = "exited"

\* Message a has to come before b.
HasToPrecede(a, b) ==
  \/ a = "waiting" /\ b \in {"attempt 1", "attempt 2", "wake up", "done", "cleaning", "sleep"}
  \/ a = "attempt 1" /\ b \in {"attempt 2", "wake up", "done", "cleaning", "again"}
  \/ a = "attempt 2" /\ b \in {"wake up", "done", "cleaning"}
  \/ a = "wake up" /\ b \in {"done", "cleaning"}
  \/ a = "done" /\ b = "cleaning"
  \/ a = "sleep" /\ b = "again"

LogInv ==
  /\ log \in Seq(Messages)
  /\ \A j, k \in 1..Len(log) : log[j] = log[k] => j = k
  /\ \A a, b \in Messages : HasToPrecede(a, b) => Precedes(a, b)
  /\ SaidInv

\* Printing a new message whose predecessors have been printed keeps the log
\* in order.
LEMMA Say ==
  ASSUME LogInv, NEW w \in Messages, ~Said(w), log' = Append(log, w),
         \A a \in Messages : HasToPrecede(a, w) => Said(a)
  PROVE  /\ log' \in Seq(Messages)
         /\ \A j, k \in 1..Len(log') : log'[j] = log'[k] => j = k
         /\ \A a, b \in Messages : HasToPrecede(a, b) => Precedes(a, b)'
         /\ \A a \in Messages : Said(a)' <=> (Said(a) \/ a = w)
<1>1. log \in Seq(Messages) /\ Len(log) \in Nat
  BY DEF LogInv
<1>2. log' \in Seq(Messages) /\ Len(log') = Len(log) + 1 /\ log'[Len(log) + 1] = w
  BY <1>1
<1>3. \A k \in 1..Len(log) : log'[k] = log[k]
  BY <1>1
<1>4. \A k \in 1..Len(log') : k \in 1..Len(log) \/ k = Len(log) + 1
  BY <1>1, <1>2
<1>5. \A k \in 1..Len(log) : k \in 1..Len(log') /\ log[k] # w
  BY <1>1, <1>2 DEF Said
<1>6. ASSUME NEW j \in 1..Len(log'), NEW k \in 1..Len(log'), log'[j] = log'[k] PROVE j = k
  BY <1>2, <1>3, <1>4, <1>5, <1>6 DEF LogInv
<1>7. ASSUME NEW a \in Messages PROVE Said(a)' <=> (Said(a) \/ a = w)
  <2>1. ASSUME Said(a)' PROVE Said(a) \/ a = w
    BY <1>2, <1>3, <1>4, <2>1 DEF Said
  <2>2. ASSUME Said(a) PROVE Said(a)'
    BY <1>3, <1>5, <2>2 DEF Said
  <2>3. Len(log) + 1 \in 1..Len(log')
    BY <1>1, <1>2
  <2>4. ASSUME a = w PROVE Said(a)'
    BY <1>2, <2>3, <2>4 DEF Said
  <2> QED
    BY <2>1, <2>2, <2>4
<1>8. ASSUME NEW a \in Messages, NEW b \in Messages, HasToPrecede(a, b),
             NEW k \in 1..Len(log'), log'[k] = b
      PROVE  \E j \in 1..k-1 : log'[j] = a
  <2>1. CASE k \in 1..Len(log)
    <3>1. log[k] = b
      BY <1>3, <1>8, <2>1
    <3>2. PICK j \in 1..k-1 : log[j] = a
      BY <1>8, <2>1, <3>1 DEF LogInv, Precedes
    <3>3. j \in 1..Len(log)
      BY <1>1, <2>1
    <3> QED
      BY <1>3, <3>2, <3>3
  <2>2. CASE k = Len(log) + 1
    <3>1. b = w
      BY <1>2, <1>8, <2>2
    <3>2. PICK j \in 1..Len(log) : log[j] = a
      BY <1>8, <3>1 DEF Said
    <3>3. j \in 1..k-1
      BY <1>1, <2>2
    <3> QED
      BY <1>3, <3>2, <3>3
  <2> QED
    BY <1>4, <2>1, <2>2
<1>9. ASSUME NEW a \in Messages, NEW b \in Messages, HasToPrecede(a, b) PROVE Precedes(a, b)'
  BY <1>8, <1>9 DEF Precedes
<1> QED
  BY <1>2, <1>6, <1>7, <1>9

\* A step that prints nothing.
LEMMA SayNothing ==
  ASSUME LogInv, UNCHANGED log, SaidInv'
  PROVE  LogInv'
<1>1. \A a, b \in Messages : Precedes(a, b)' <=> Precedes(a, b)
  BY DEF Precedes
<1> QED
  BY <1>1 DEF LogInv

\* A step that prints nothing and moves neither task past a message.
LEMMA SaidKept ==
  ASSUME UNCHANGED log, NEW a
  PROVE  Said(a)' <=> Said(a)
BY DEF Said

\* Every step keeps the log in order.
LEMMA LogStep == ASSUME LogInv, IInv, [Next]_vars PROVE LogInv'
<1>1. CASE KthreadCreate /\ pc' = "wake_process"
  <2>1. pc = "create" /\ pc' = "wake_process" /\ thread' = "stopped" /\ thread = "none" /\ log' = Append(log, "waiting")
    BY <1>1 DEF KthreadCreate, IInv
  <2>2. ~Said("waiting") /\ \A a \in Messages : HasToPrecede(a, "waiting") => Said(a)
    BY <2>1 DEF LogInv, SaidInv, AfterFirst, HasToPrecede, IInv, StateOK, Steps, Before, Passed
  <2>3. "waiting" \in Messages
    BY DEF Messages
  <2>4. /\ log' \in Seq(Messages)
        /\ \A j, k \in 1..Len(log') : log'[j] = log'[k] => j = k
        /\ \A a, b \in Messages : HasToPrecede(a, b) => Precedes(a, b)'
        /\ \A a \in Messages : Said(a)' <=> (Said(a) \/ a = "waiting")
    BY <2>1, <2>2, <2>3, Say
  <2>5. SaidInv'
    BY <2>1, <2>4 DEF LogInv, SaidInv, AfterFirst, Messages, IInv, StateOK, Steps
  <2> QED
    BY <2>4, <2>5 DEF LogInv
<1>2. CASE ClearCondition
  <2>1. pc = "clear" /\ pc' = "wake1" /\ UNCHANGED thread /\ log' = Append(log, "attempt 1")
    BY <1>2 DEF ClearCondition
  <2>2. ~Said("attempt 1") /\ \A a \in Messages : HasToPrecede(a, "attempt 1") => Said(a)
    BY <2>1 DEF LogInv, SaidInv, AfterFirst, HasToPrecede, IInv, StateOK, Steps, Before, Passed
  <2>3. "attempt 1" \in Messages
    BY DEF Messages
  <2>4. /\ log' \in Seq(Messages)
        /\ \A j, k \in 1..Len(log') : log'[j] = log'[k] => j = k
        /\ \A a, b \in Messages : HasToPrecede(a, b) => Precedes(a, b)'
        /\ \A a \in Messages : Said(a)' <=> (Said(a) \/ a = "attempt 1")
    BY <2>1, <2>2, <2>3, Say
  <2>5. SaidInv'
    BY <2>1, <2>4 DEF LogInv, SaidInv, AfterFirst, Messages, IInv, StateOK, Steps
  <2> QED
    BY <2>4, <2>5 DEF LogInv
<1>3. CASE Announce
  <2>1. pc = "announce" /\ pc' = "wake2" /\ UNCHANGED thread /\ log' = Append(log, "attempt 2")
    BY <1>3 DEF Announce
  <2>2. ~Said("attempt 2") /\ \A a \in Messages : HasToPrecede(a, "attempt 2") => Said(a)
    BY <2>1 DEF LogInv, SaidInv, AfterFirst, HasToPrecede, IInv, StateOK, Steps, Before, Passed
  <2>3. "attempt 2" \in Messages
    BY DEF Messages
  <2>4. /\ log' \in Seq(Messages)
        /\ \A j, k \in 1..Len(log') : log'[j] = log'[k] => j = k
        /\ \A a, b \in Messages : HasToPrecede(a, b) => Precedes(a, b)'
        /\ \A a \in Messages : Said(a)' <=> (Said(a) \/ a = "attempt 2")
    BY <2>1, <2>2, <2>3, Say
  <2>5. SaidInv'
    BY <2>1, <2>4 DEF LogInv, SaidInv, AfterFirst, Messages, IInv, StateOK, Steps
  <2> QED
    BY <2>4, <2>5 DEF LogInv
<1>4. CASE WakeUp2
  <2>1. pc = "wake2" /\ pc' = "bye" /\ UNCHANGED thread /\ log' = Append(log, "wake up")
    BY <1>4 DEF WakeUp2
  <2>2. ~Said("wake up") /\ \A a \in Messages : HasToPrecede(a, "wake up") => Said(a)
    BY <2>1 DEF LogInv, SaidInv, AfterFirst, HasToPrecede, IInv, StateOK, Steps, Before, Passed
  <2>3. "wake up" \in Messages
    BY DEF Messages
  <2>4. /\ log' \in Seq(Messages)
        /\ \A j, k \in 1..Len(log') : log'[j] = log'[k] => j = k
        /\ \A a, b \in Messages : HasToPrecede(a, b) => Precedes(a, b)'
        /\ \A a \in Messages : Said(a)' <=> (Said(a) \/ a = "wake up")
    BY <2>1, <2>2, <2>3, Say
  <2>5. SaidInv'
    BY <2>1, <2>4 DEF LogInv, SaidInv, AfterFirst, Messages, IInv, StateOK, Steps
  <2> QED
    BY <2>4, <2>5 DEF LogInv
<1>5. CASE StartDone
  <2>1. pc = "bye" /\ pc' = "live" /\ UNCHANGED thread /\ log' = Append(log, "done")
    BY <1>5 DEF StartDone
  <2>2. ~Said("done") /\ \A a \in Messages : HasToPrecede(a, "done") => Said(a)
    BY <2>1 DEF LogInv, SaidInv, AfterFirst, HasToPrecede, IInv, StateOK, Steps, Before, Passed
  <2>3. "done" \in Messages
    BY DEF Messages
  <2>4. /\ log' \in Seq(Messages)
        /\ \A j, k \in 1..Len(log') : log'[j] = log'[k] => j = k
        /\ \A a, b \in Messages : HasToPrecede(a, b) => Precedes(a, b)'
        /\ \A a \in Messages : Said(a)' <=> (Said(a) \/ a = "done")
    BY <2>1, <2>2, <2>3, Say
  <2>5. SaidInv'
    BY <2>1, <2>4 DEF LogInv, SaidInv, AfterFirst, Messages, IInv, StateOK, Steps
  <2> QED
    BY <2>4, <2>5 DEF LogInv
<1>6. CASE Stops
  <2>1. pc = "live" /\ pc' = "gone" /\ UNCHANGED thread /\ log' = Append(log, "cleaning")
    BY <1>6 DEF Stops
  <2>2. ~Said("cleaning") /\ \A a \in Messages : HasToPrecede(a, "cleaning") => Said(a)
    BY <2>1 DEF LogInv, SaidInv, AfterFirst, HasToPrecede, IInv, StateOK, Steps, Before, Passed
  <2>3. "cleaning" \in Messages
    BY DEF Messages
  <2>4. /\ log' \in Seq(Messages)
        /\ \A j, k \in 1..Len(log') : log'[j] = log'[k] => j = k
        /\ \A a, b \in Messages : HasToPrecede(a, b) => Precedes(a, b)'
        /\ \A a \in Messages : Said(a)' <=> (Said(a) \/ a = "cleaning")
    BY <2>1, <2>2, <2>3, Say
  <2>5. SaidInv'
    BY <2>1, <2>4 DEF LogInv, SaidInv, AfterFirst, Messages, IInv, StateOK, Steps
  <2> QED
    BY <2>4, <2>5 DEF LogInv
<1>7. CASE MfooStart
  <2>1. thread = "woken" /\ thread' = "mfoo" /\ UNCHANGED pc /\ log' = Append(log, "sleep")
    BY <1>7 DEF MfooStart
  <2>2. ~Said("sleep") /\ \A a \in Messages : HasToPrecede(a, "sleep") => Said(a)
    BY <2>1 DEF LogInv, SaidInv, AfterFirst, HasToPrecede, IInv, StateOK, Steps, Before, Passed
  <2>3. "sleep" \in Messages
    BY DEF Messages
  <2>4. /\ log' \in Seq(Messages)
        /\ \A j, k \in 1..Len(log') : log'[j] = log'[k] => j = k
        /\ \A a, b \in Messages : HasToPrecede(a, b) => Precedes(a, b)'
        /\ \A a \in Messages : Said(a)' <=> (Said(a) \/ a = "sleep")
    BY <2>1, <2>2, <2>3, Say
  <2>5. SaidInv'
    BY <2>1, <2>4 DEF LogInv, SaidInv, AfterFirst, Messages, IInv, StateOK, Steps
  <2> QED
    BY <2>4, <2>5 DEF LogInv
<1>8. CASE MfooReturns
  <2>1. thread = "mfoo" /\ thread' = "exited" /\ UNCHANGED pc /\ wpc = "done" /\ log' = Append(log, "again")
    BY <1>8 DEF MfooReturns
  <2>a. condition > 0
    BY <2>1 DEF IInv, Passed
  <2>b. pc \notin Before /\ pc \in Steps
    BY <2>a DEF IInv, StateOK
  <2>c. pc \in AfterFirst
    BY <2>b DEF AfterFirst, Before, Steps
  <2>2. ~Said("again") /\ \A a \in Messages : HasToPrecede(a, "again") => Said(a)
    BY <2>1, <2>c DEF LogInv, SaidInv, HasToPrecede
  <2>3. "again" \in Messages
    BY DEF Messages
  <2>4. /\ log' \in Seq(Messages)
        /\ \A j, k \in 1..Len(log') : log'[j] = log'[k] => j = k
        /\ \A a, b \in Messages : HasToPrecede(a, b) => Precedes(a, b)'
        /\ \A a \in Messages : Said(a)' <=> (Said(a) \/ a = "again")
    BY <2>1, <2>2, <2>3, Say
  <2>5. SaidInv'
    BY <2>1, <2>4 DEF LogInv, SaidInv, AfterFirst, Messages, IInv, StateOK, Steps
  <2> QED
    BY <2>4, <2>5 DEF LogInv
<1>9. CASE KthreadCreate /\ pc' = "load_failed"
  <2>1. pc = "create" /\ thread = "none" /\ thread' = "none" /\ UNCHANGED log
    BY <1>9 DEF KthreadCreate, IInv
  <2>2. SaidInv'
    BY <1>9, <2>1, SaidKept DEF LogInv, SaidInv, AfterFirst
  <2> QED
    BY <2>1, <2>2, SayNothing
<1>10. CASE WakeUpProcess \/ WakeUp1 \/ SetCondition
  <2>1. UNCHANGED log
    BY <1>10 DEF WakeUpProcess, WakeUp1, SetCondition
  <2>2. SaidInv'
    BY <1>10, <2>1, SaidKept DEF WakeUpProcess, WakeUp1, SetCondition, LogInv, SaidInv, AfterFirst, IInv
  <2> QED
    BY <2>1, <2>2, SayNothing
<1>11. CASE MfooWaits \/ MfooAfterUnload \/ UNCHANGED vars
  <2>1. UNCHANGED <<log, pc, thread>>
    BY <1>11 DEF MfooWaits, MfooAfterUnload, vars
  <2>2. SaidInv'
    BY <2>1, SaidKept DEF LogInv, SaidInv
  <2> QED
    BY <2>1, <2>2, SayNothing
<1> QED
  BY <1>1, <1>2, <1>3, <1>4, <1>5, <1>6, <1>7, <1>8, <1>9, <1>10, <1>11
     DEF Next, Start, Mfoo, KthreadCreate

\* The messages and their order in the repository's output.
LEMMA OutputIs ==
  /\ \A n \in 1..Len(Output) : Output[n] \in Messages
  /\ \A a \in Messages : \E n \in 1..Len(Output) : a = Output[n]
  /\ \A m, n \in 1..Len(Output) :
       m < n /\ (Output[m] \in {"sleep", "again"} <=> Output[n] \in {"sleep", "again"}) =>
         HasToPrecede(Output[m], Output[n])
<1> DEFINE O == Output
<1>0. Len(O) = 8
  BY DEF Output
<1>1. /\ O[1] = "waiting" /\ O[2] = "sleep" /\ O[3] = "attempt 1" /\ O[4] = "attempt 2"
      /\ O[5] = "wake up" /\ O[6] = "again" /\ O[7] = "done" /\ O[8] = "cleaning"
  BY DEF Output
<1> HIDE DEF O
<1>2. 1..8 = {1, 2, 3, 4, 5, 6, 7, 8}
  OBVIOUS
<1>3. \A n \in 1..8 : O[n] \in Messages
  BY <1>1, <1>2 DEF Messages
<1>4. \A a \in Messages : \E n \in 1..8 : a = O[n]
  BY <1>1, <1>2 DEF Messages
<1>5. ASSUME NEW m \in 1..8, NEW n \in 1..8, m < n,
             O[m] \in {"sleep", "again"} <=> O[n] \in {"sleep", "again"}
      PROVE  HasToPrecede(O[m], O[n])
  <2>1. CASE m = 1
    <3>1. n \in {2, 3, 4, 5, 6, 7, 8}
      BY <1>5, <2>1
    <3> QED
      BY <1>1, <1>5, <2>1, <3>1 DEF HasToPrecede
  <2>2. CASE m = 2
    <3>1. n \in {3, 4, 5, 6, 7, 8}
      BY <1>5, <2>2
    <3> QED
      BY <1>1, <1>5, <2>2, <3>1 DEF HasToPrecede
  <2>3. CASE m = 3
    <3>1. n \in {4, 5, 6, 7, 8}
      BY <1>5, <2>3
    <3> QED
      BY <1>1, <1>5, <2>3, <3>1 DEF HasToPrecede
  <2>4. CASE m = 4
    <3>1. n \in {5, 6, 7, 8}
      BY <1>5, <2>4
    <3> QED
      BY <1>1, <1>5, <2>4, <3>1 DEF HasToPrecede
  <2>5. CASE m = 5
    <3>1. n \in {6, 7, 8}
      BY <1>5, <2>5
    <3> QED
      BY <1>1, <1>5, <2>5, <3>1 DEF HasToPrecede
  <2>6. CASE m = 6
    <3>1. n \in {7, 8}
      BY <1>5, <2>6
    <3> QED
      BY <1>1, <1>5, <2>6, <3>1 DEF HasToPrecede
  <2>7. CASE m = 7
    <3>1. n \in {8}
      BY <1>5, <2>7
    <3> QED
      BY <1>1, <1>5, <2>7, <3>1 DEF HasToPrecede
  <2> QED
    BY <1>5, <2>1, <2>2, <2>3, <2>4, <2>5, <2>6, <2>7
<1> QED
  BY <1>0, <1>3, <1>4, <1>5 DEF O

\* However the two tasks interleave, the messages of each come once and in the
\* order of wait_queue/output, "waiting" before the thread's first and
\* "attempt 1" before its last.
THEOREM MessagesInOrder == Spec => []MessagesOrdered
<1>1. Init => LogInv
  <2> SUFFICES ASSUME Init PROVE LogInv
    OBVIOUS
  <2>1. log = <<>> /\ pc = "create" /\ thread = "none"
    BY DEF Init
  <2>2. log \in Seq(Messages) /\ Len(log) = 0
    BY <2>1
  <2>3. \A a : ~Said(a)
    BY <2>2 DEF Said
  <2>4. \A a, b : Precedes(a, b)
    BY <2>2 DEF Precedes
  <2>5. SaidInv
    BY <2>1, <2>3 DEF SaidInv, AfterFirst
  <2> QED
    BY <2>2, <2>4, <2>5 DEF LogInv
<1>2. LogInv => MessagesOrdered
  <2> SUFFICES ASSUME LogInv PROVE MessagesOrdered
    OBVIOUS
  <2>1. \A k \in 1..Len(log) : log[k] \in Messages
    BY DEF LogInv
  <2>5. Precedes("waiting", "sleep") /\ Precedes("attempt 1", "again")
    BY DEF LogInv, HasToPrecede, Messages
  <2>6. \A j, k \in 1..Len(log) : log[j] = log[k] => j = k
    BY DEF LogInv
  <2>7. \A a, b \in Messages : HasToPrecede(a, b) => Precedes(a, b)
    BY DEF LogInv
  <2> QED
    BY <2>1, <2>5, <2>6, <2>7, OutputIs, Zenon DEF MessagesOrdered
<1> QED
  BY <1>1, <1>2, LogStep, Invariance, PTL DEF Spec

-----------------------------------------------------------------------------
(* WorkQueueGlobal: who owns the allocation, no lost wake-up, and the      *)
(* abstract wait.                                                          *)

Preparing == {"kmalloc", "load_failed", "init", "schedule_work"}

GlobalStateOK ==
  /\ pc \in Preparing \cup {"wait", "loaded", "gone"}
  /\ my_data \in {"none", "raw", "live", "freed"}
  /\ queued \in BOOLEAN
  /\ handler \in {"idle", "read", "set", "wake", "free", "done"}
  /\ condition \in {0, 5}
  /\ signal \in BOOLEAN
  /\ WaitTypeOK

\* HandlerOwnsData is not inductive: the handler can only start on an allocation
\* that start() has set up and queued once.
DataInv ==
  /\ pc \in Preparing => handler = "idle" /\ ~queued /\ wpc = "idle"
  /\ pc \in {"kmalloc", "load_failed"} => my_data = "none"
  /\ pc = "init" => my_data = "raw"
  /\ pc = "schedule_work" => my_data = "live"
  /\ queued => handler = "idle"
  /\ HandlerOwnsData

\* GlobalNoLostWakeup is not inductive: a task that is marked as sleeping is on the
\* queue, where the wake-up finds it.
GlobalWaitInv ==
  /\ condition # 0 <=> handler \in {"wake", "free", "done"}
  /\ wpc \in {"idle", "test", "prepare"} => tstate = "running"
  /\ tstate = "interruptible" => onq
  /\ Passed => condition # 0
  /\ GlobalNoLostWakeup

GlobalInv == GlobalStateOK /\ DataInv /\ GlobalWaitInv

\* The initial state satisfies the inductive invariant.
LEMMA GlobalInvInit == GlobalInit => GlobalInv
BY DEF GlobalInit, GlobalInv, GlobalStateOK, DataInv, GlobalWaitInv, Preparing,
       HandlerOwnsData, GlobalNoLostWakeup, WaitInit, WaitTypeOK, Passed

\* Every step of start(), stops(), do_work_handler() and of a signal preserves it.
LEMMA GlobalInvStep == ASSUME GlobalInv, [GlobalNext]_globalVars PROVE GlobalInv'
<1> USE DEF GlobalInv, GlobalStateOK, DataInv, GlobalWaitInv, Preparing,
            HandlerOwnsData, GlobalNoLostWakeup, WaitTypeOK, Passed, waitVars
<1>1. CASE Kmalloc
  BY <1>1 DEF Kmalloc
<1>2. CASE InitWork
  BY <1>2 DEF InitWork
<1>3. CASE ScheduleWork
  BY <1>3 DEF ScheduleWork, WaitCall
<1>4. CASE StartTests
  <2>1. CASE WaitTest(Nonzero)
    BY <1>4, <2>1 DEF StartTests, Nonzero, WaitTest
  <2>2. CASE WaitRetest(Nonzero)
    BY <1>4, <2>2 DEF StartTests, Nonzero, WaitRetest
  <2>3. QED
    BY <1>4, <2>1, <2>2 DEF StartTests
<1>5. CASE StartEnqueues
  <2>1. /\ wpc = "prepare" /\ wpc' = "retest" /\ pc = "wait"
        /\ UNCHANGED <<pc, my_data, queued, handler, condition, signal>>
        /\ onq' \in BOOLEAN /\ intr' \in BOOLEAN
        /\ (tstate' = "interruptible" /\ onq') \/ tstate' = tstate
    <3>1. CASE signal = TRUE
      BY <1>5, <3>1 DEF StartEnqueues, PrepareToWait
    <3>2. CASE signal = FALSE
      BY <1>5, <3>2 DEF StartEnqueues, PrepareToWait
    <3>3. QED
      BY <3>1, <3>2
  <2>2. QED
    BY <2>1
<1>6. CASE StartSleeps
  BY <1>6 DEF StartSleeps, Schedule
<1>7. CASE StartDequeues
  BY <1>7 DEF StartDequeues, FinishWait
<1>8. CASE StartReturns \/ GlobalStops
  BY <1>8 DEF StartReturns, GlobalStops
<1>8a. CASE SignalArrives
  BY <1>8a DEF SignalArrives
<1>9. CASE HandlerTaken
  BY <1>9 DEF HandlerTaken, Handler
<1>9a. CASE HandlerReads
  BY <1>9a DEF HandlerReads, Handler
<1>10. CASE HandlerSets
  BY <1>10 DEF HandlerSets, Handler
<1>11. CASE HandlerWakes
  BY <1>11 DEF HandlerWakes, Handler, WakeUp
<1>12. CASE HandlerFrees \/ HandlerAfterUnload
  BY <1>12 DEF HandlerFrees, HandlerAfterUnload, Handler
<1>13. CASE UNCHANGED globalVars
  BY <1>13 DEF globalVars
<1>14. QED
  BY <1>1, <1>2, <1>3, <1>4, <1>5, <1>6, <1>7, <1>8, <1>8a, <1>9, <1>9a, <1>10, <1>11, <1>12, <1>13
     DEF GlobalNext, GlobalStart, Waiter, WorkHandler

\* The inductive invariant holds in every reachable state.
LEMMA GlobalInvariance == GlobalSpec => []GlobalInv
BY GlobalInvInit, GlobalInvStep, PTL DEF GlobalSpec

\* start() never sleeps through the handler's wake-up (code.c:78-84, 112).
THEOREM GlobalWakeupNotLost == GlobalSpec => []GlobalNoLostWakeup
<1>1. GlobalInv => GlobalNoLostWakeup
  BY DEF GlobalInv, GlobalWaitInv
<1>2. QED
  BY <1>1, GlobalInvariance, PTL

\* The handler finds its allocation set up, and it alone frees it (code.c:85,
\* 98-104).
THEOREM DataOwned == GlobalSpec => []HandlerOwnsData
<1>1. GlobalInv => HandlerOwnsData
  BY DEF GlobalInv, DataInv
<1>2. QED
  BY <1>1, GlobalInvariance, PTL

\* start() and the handler implement the safety part of the abstract wait, in
\* which only the condition or a signal ends the wait (code.c:78, 112).
THEOREM GlobalImplementsAwait == GlobalSpec => AwaitSafe
<1>1. GlobalInit => GlobalAwait!AInit
  BY DEF GlobalInit, WaitInit, Passed, GlobalAwait!AInit
<1>2. ASSUME GlobalInv, [GlobalNext]_globalVars
      PROVE  [GlobalAwait!Raise \/ GlobalAwait!Pass \/ GlobalAwait!Interrupt]_(GlobalAwait!avars)
  <2> USE DEF GlobalInv, GlobalStateOK, GlobalWaitInv, WaitTypeOK, Passed, waitVars, GlobalAwait!avars
  <2>1. CASE HandlerSets
    BY <2>1 DEF HandlerSets, Handler, GlobalAwait!Raise
  <2>2. CASE StartTests
    <3>1. CASE WaitTest(Nonzero)
      BY <2>2, <3>1 DEF StartTests, Nonzero, WaitTest, GlobalAwait!Pass
    <3>2. CASE WaitRetest(Nonzero)
      BY <2>2, <3>2 DEF StartTests, Nonzero, WaitRetest, GlobalAwait!Pass, GlobalAwait!Interrupt
    <3>3. QED
      BY <2>2, <3>1, <3>2 DEF StartTests
  <2>3. CASE ~HandlerSets /\ ~StartTests
    <3>1. condition' = condition
      BY <1>2, <2>3 DEF GlobalNext, GlobalStart, Waiter, WorkHandler, globalVars, Kmalloc, InitWork,
         ScheduleWork, StartEnqueues, StartSleeps, StartDequeues, StartReturns, SignalArrives, GlobalStops,
         HandlerTaken, HandlerReads, HandlerWakes, HandlerFrees, HandlerAfterUnload
    <3>2. (Passed' <=> Passed) /\ (wpc' = "eintr" <=> wpc = "eintr")
      BY <1>2, <2>3 DEF GlobalNext, GlobalStart, Waiter, WorkHandler, globalVars, Kmalloc, InitWork,
         ScheduleWork, StartEnqueues, StartSleeps, StartDequeues, StartReturns, SignalArrives, GlobalStops,
         HandlerTaken, HandlerReads, HandlerWakes, HandlerFrees, HandlerAfterUnload,
         WaitCall, PrepareToWait, Schedule, FinishWait, WakeUp
    <3>3. QED
      BY <3>1, <3>2
  <2>4. QED
    BY <2>1, <2>2, <2>3
<1>3. QED
  BY <1>1, <1>2, GlobalInvariance, PTL DEF GlobalSpec, AwaitSafe, GlobalAwait!ASpec

=============================================================================
