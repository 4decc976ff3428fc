------------------------------ MODULE MCWaits ------------------------------
(***************************************************************************)
(* The two modules that call wait_event_interruptible(), one of which is   *)
(* loaded: both Makefiles build code.ko.  The variables of the other keep  *)
(* their initial values, and pc tells which one it is.                     *)
(***************************************************************************)
EXTENDS WaitQueue, WorkQueueGlobal

allVars == <<vars, globalVars>>

OneLoaded ==
  \/ Init /\ my_data = "none" /\ queued = FALSE /\ handler = "idle" /\ signal = FALSE
  \/ GlobalInit /\ thread = "none" /\ log = <<>>

OneNext ==
  \/ Next /\ UNCHANGED <<my_data, queued, handler, signal>>
  \/ GlobalNext /\ UNCHANGED <<thread, log>>

OneSpec == OneLoaded /\ [][OneNext]_allVars /\ Fairness /\ GlobalFairness

\* Both modules implement the liveness part of the abstract wait: once the
\* condition holds the wait ends, unless a signal has ended it or the module is
\* removed under its thread or handler (wait_queue/code.c:73-77, 87-96,
\* work_queue_global/code.c:77-84, 112).
AwaitEnds == [](fault = "none") => GlobalAwait!AFair

=============================================================================
