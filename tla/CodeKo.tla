------------------------------- MODULE CodeKo -------------------------------
(***************************************************************************)
(* Every directory of the repository builds a module with the same name:   *)
(* "obj-m += code.o" in its Makefile.  The kernel therefore holds at most  *)
(* one of them at a time.  This module models that slot, the task that     *)
(* runs insmod and rmmod, and the CPU this task runs on; the modules that  *)
(* extend it model what the directories' init and exit functions do.       *)
(***************************************************************************)
EXTENDS Integers

VARIABLES
  smp, preempt,   \* how the kernel is built: CONFIG_SMP, CONFIG_PREEMPT; never change
  dir,            \* the directory whose code.ko is in the kernel, or "none"
  pc,             \* next statement of its init or exit function
  i,              \* the local variable i
  cpu,            \* what the CPU executes: "self" (this task), another "task", an "irq"
  preempt_count,  \* preempt_disable() calls not undone yet, counted or not by the build
  bh, irqs,       \* bottom halves and interrupts are "on" or "off" on the CPU
  fault           \* the bad access that stopped the machine, or "none"

ctxVars == <<preempt_count, bh, irqs>>
kernelVars == <<smp, preempt, cpu, fault>>

\* First statement of the init function of each directory.
Entry == [spinlock |-> "spin_lock_init", mutex1 |-> "mutex_init", memory1 |-> "alloc_page",
          memory2 |-> "kzalloc", link_list |-> "kmalloc", radix_tree |-> "radix_tree_insert",
          interrupt01 |-> "request_irq", kprobe |-> "register_kprobe",
          kprobe1 |-> "kallsyms_lookup_name", task_struct |-> "current"]

Dirs == DOMAIN Entry

\* First statement of the exit functions that do more than print a message.
ExitEntry(d) == IF d = "interrupt01" THEN "synchronize_irq"
                ELSE IF d \in {"kprobe", "kprobe1"} THEN "unregister_kprobe"
                ELSE "gone"

\* The init function has returned, 0 ("return") or an error.
Returned == {"return", "error", "live", "gone", "none"}

\* Calls that may sleep.
Sleeping == {"mutex_lock", "mutex_lock_interruptible", "mutex_lock_killable",
             "alloc_page", "alloc_pages", "get_free_pages", "kzalloc", "kmalloc", "vmalloc",
             "alloc_highmem", "kmap", "radix_tree_insert", "request_irq", "synchronize_irq",
             "free_irq", "wait_irq", "register_kprobe", "unregister_kprobe", "wait_hits"}

Atomic == preempt_count > 0 \/ bh = "off" \/ irqs = "off"

CodeKoInit ==
  /\ smp \in BOOLEAN
  /\ preempt \in BOOLEAN
  /\ dir = "none"
  /\ pc = "none"
  /\ i = 0
  /\ cpu = "self"
  /\ preempt_count = 0
  /\ bh = "on"
  /\ irqs = "on"
  /\ fault = "none"

\* One statement of directory d, from label a to label b.
Goto(d, a, b) ==
  /\ dir = d
  /\ pc = a
  /\ pc' = b
  /\ UNCHANGED dir

-----------------------------------------------------------------------------
(* Loading and unloading *)

Insmod(d) ==
  /\ dir = "none"
  /\ dir' = d
  /\ pc' = Entry[d]
  /\ i' = 0
  /\ UNCHANGED <<ctxVars, kernelVars>>

\* do_one_initcall() warns about an init function that returns with preemption
\* or interrupts disabled, and enables them again.
DoOneInitcall ==
  /\ pc \in {"return", "error"}
  /\ dir' = IF pc = "return" THEN dir ELSE "none"
  /\ pc' = IF pc = "return" THEN "live" ELSE "none"
  /\ preempt_count' = 0
  /\ bh' = "on"
  /\ irqs' = "on"
  /\ UNCHANGED <<i, kernelVars>>

Rmmod ==
  /\ pc = "live"
  /\ pc' = ExitEntry(dir)
  /\ UNCHANGED <<dir, i, ctxVars, kernelVars>>

FreeModule ==
  /\ pc = "gone"
  /\ dir' = "none"
  /\ pc' = "none"
  /\ UNCHANGED <<i, ctxVars, kernelVars>>

-----------------------------------------------------------------------------
(* The CPU.  A task switch needs preemption, a call that sleeps, or a task *)
(* that has nothing to do.                                                 *)

Switch ==
  /\ cpu = "self"
  /\ ~Atomic
  /\ preempt \/ pc \in Sleeping \cup {"live", "none"}
  /\ cpu' = "task"
  /\ UNCHANGED <<smp, preempt, dir, pc, i, ctxVars, fault>>

Irq ==
  /\ cpu = "self"
  /\ irqs = "on"
  /\ cpu' = "irq"
  /\ UNCHANGED <<smp, preempt, dir, pc, i, ctxVars, fault>>

\* busy: a handler that has to finish on this CPU first.
Resume(busy) ==
  /\ cpu # "self"
  /\ smp \/ ~busy
  /\ cpu' = "self"
  /\ UNCHANGED <<smp, preempt, dir, pc, i, ctxVars, fault>>

=============================================================================
