------------------------------- MODULE Await -------------------------------
(***************************************************************************)
(* What a caller of wait_event_interruptible() may rely on: the wait is    *)
(* over only once the condition holds, unless a signal ends it, and a      *)
(* condition that has become true for good ends it eventually.             *)
(***************************************************************************)
CONSTANT SIGNALS   \* TRUE if the waiting task can receive signals

VARIABLES
  cond,
  state   \* "waiting", "passed" or "interrupted"

avars == <<cond, state>>

AInit == cond = FALSE /\ state = "waiting"

Raise == ~cond /\ cond' = TRUE /\ UNCHANGED state

Pass == state = "waiting" /\ cond /\ state' = "passed" /\ UNCHANGED cond

Interrupt == SIGNALS /\ state = "waiting" /\ state' = "interrupted" /\ UNCHANGED cond

ASpec == AInit /\ [][Raise \/ Pass \/ Interrupt]_avars

AFair == WF_avars(Pass)

=============================================================================
