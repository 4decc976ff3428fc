------------------------------ MODULE Handlers ------------------------------
(***************************************************************************)
(* src/interrupt01/code.c, src/kprobe/code.c and src/kprobe1/code.c: the   *)
(* init function makes the kernel call functions of the module, the exit   *)
(* function makes it stop.  The calls come from other CPUs, or from        *)
(* interrupts and tasks that take this CPU.                                *)
(***************************************************************************)
EXTENDS CodeKo

VARIABLES
  action,  \* my_interrupt() is registered on the shared line SIRQ
  in_irq,  \* my_interrupt() is running
  probe,   \* the probe is armed
  hit      \* what runs for a hit of the probe: "none", "pre" or "post" handler

handlersVars == <<action, in_irq, probe, hit>>

HandlersInit == action = FALSE /\ in_irq = FALSE /\ probe = FALSE /\ hit = "none"

-----------------------------------------------------------------------------
(* interrupt01 *)

RequestIrq ==
  /\ dir = "interrupt01"
  /\ pc = "request_irq"
  /\ \/ action' = TRUE /\ pc' = "return"
     \/ pc' = "error" /\ UNCHANGED action
  /\ UNCHANGED <<dir, in_irq, probe, hit>>

SynchronizeIrq ==
  /\ Goto("interrupt01", "synchronize_irq", "free_irq")
  /\ ~in_irq
  /\ UNCHANGED handlersVars

\* Faulty variant: the exit function stops after synchronize_irq().
FreeIrqForgotten ==
  /\ Goto("interrupt01", "free_irq", "gone")
  /\ UNCHANGED handlersVars

\* free_irq() takes the handler off the line, then waits for it ("wait_irq").
FreeIrq ==
  /\ Goto("interrupt01", "free_irq", "wait_irq")
  /\ action' = FALSE
  /\ UNCHANGED <<in_irq, probe, hit>>

WaitIrq ==
  /\ Goto("interrupt01", "wait_irq", "gone")
  /\ ~in_irq
  /\ UNCHANGED handlersVars

\* my_interrupt() starts, says that the interrupt is not its own, returns.
MyInterrupt ==
  /\ action
  /\ ~in_irq
  /\ smp \/ cpu = "irq"
  /\ in_irq' = TRUE
  /\ UNCHANGED <<action, probe, hit>>

MyInterruptReturns ==
  /\ in_irq
  /\ in_irq' = FALSE
  /\ UNCHANGED <<action, probe, hit>>

-----------------------------------------------------------------------------
(* kprobe, kprobe1 *)

KallsymsLookupName ==
  /\ dir = "kprobe1"
  /\ pc = "kallsyms_lookup_name"
  /\ pc' \in {"register_kprobe", "error"}
  /\ UNCHANGED <<dir, handlersVars>>

\* The result of register_kprobe() is ignored.
RegisterKprobe(d) ==
  /\ Goto(d, "register_kprobe", "return")
  /\ probe' \in BOOLEAN
  /\ UNCHANGED <<action, in_irq, hit>>

\* unregister_kprobe() disarms the probe, or finds that it never was armed,
\* and waits for the hits in progress ("wait_hits").
UnregisterKprobe(d) ==
  /\ Goto(d, "unregister_kprobe", "wait_hits")
  /\ probe' = FALSE
  /\ UNCHANGED <<action, in_irq, hit>>

WaitHits(d) ==
  /\ Goto(d, "wait_hits", "gone")
  /\ hit = "none"
  /\ UNCHANGED handlersVars

\* Some task calls submit_bio().
PreHandler ==
  /\ probe
  /\ hit = "none"
  /\ smp \/ cpu = "task"
  /\ hit' = "pre"
  /\ UNCHANGED <<action, in_irq, probe>>

PostHandler ==
  /\ hit = "pre"
  /\ hit' = "post"
  /\ UNCHANGED <<action, in_irq, probe>>

PostHandlerReturns ==
  /\ hit = "post"
  /\ hit' = "none"
  /\ UNCHANGED <<action, in_irq, probe>>

Registration ==
  /\ \/ RequestIrq \/ FreeIrq \/ WaitIrq \/ KallsymsLookupName
     \/ \E d \in {"kprobe", "kprobe1"} : RegisterKprobe(d) \/ UnregisterKprobe(d) \/ WaitHits(d)
  /\ UNCHANGED <<i, ctxVars>>

HandlerEnds == MyInterruptReturns \/ PostHandler \/ PostHandlerReturns

=============================================================================
