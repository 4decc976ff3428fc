------------------------------- MODULE Loader -------------------------------
(***************************************************************************)
(* The directories with small modules, loaded and unloaded one after the   *)
(* other, in any order and any number of times, on one kernel.  What a     *)
(* module leaves behind in the kernel (pages, registrations, the context   *)
(* of the CPU) is what the next one finds.                                 *)
(***************************************************************************)
EXTENDS Locks, Memory, Containers, Handlers, TaskWalk, Functions

vars == <<kernelVars, ctxVars, dir, pc, i,
          locksVars, memoryVars, containersVars, handlersVars, taskVars>>

Init == CodeKoInit /\ LocksInit /\ MemoryInit /\ ContainersInit /\ HandlersInit /\ TaskInit

\* insmod starts with a new stack frame and a new image of the module.
Load ==
  /\ cpu = "self"
  /\ \E d \in Dirs : Insmod(d)
  /\ LocksLoad /\ MemoryLoad /\ ContainersLoad /\ TaskLoad
  /\ UNCHANGED handlersVars

\* The part of the task's work that the module loader does.  The walk's
\* variables are forgotten once start() has returned.
LoaderStep ==
  /\ DoOneInitcall \/ FreeModule
  /\ TaskLoad
  /\ UNCHANGED <<locksVars, memoryVars, containersVars, handlersVars>>

Unload ==
  /\ cpu = "self"
  /\ Rmmod
  /\ UNCHANGED <<locksVars, memoryVars, containersVars, handlersVars, taskVars>>

\* The next statement of the init or exit function.
Statement ==
  \/ /\ Spinlock \/ Mutex1
     /\ UNCHANGED <<fault, memoryVars, containersVars, handlersVars, taskVars>>
  \/ /\ Memory1 \/ Memory2
     /\ UNCHANGED <<i, ctxVars, locksVars, containersVars, handlersVars, taskVars>>
  \/ /\ LinkList \/ RadixTree
     /\ UNCHANGED <<fault, ctxVars, locksVars, memoryVars, handlersVars, taskVars>>
  \/ /\ Registration
     /\ UNCHANGED <<fault, locksVars, memoryVars, containersVars, taskVars>>
  \/ /\ Walk
     /\ UNCHANGED <<locksVars, memoryVars, containersVars, handlersVars>>

Self == cpu = "self" /\ (LoaderStep \/ (Statement /\ UNCHANGED <<smp, preempt, cpu>>))

Synchronize ==
  /\ cpu = "self"
  /\ SynchronizeIrq
  /\ UNCHANGED <<kernelVars, ctxVars, i, locksVars, memoryVars, containersVars, taskVars>>

Back ==
  /\ Resume(in_irq \/ hit # "none")
  /\ UNCHANGED <<locksVars, memoryVars, containersVars, handlersVars, taskVars>>

Away ==
  /\ Switch \/ Irq
  /\ UNCHANGED <<locksVars, memoryVars, containersVars, handlersVars, taskVars>>

Call ==
  /\ MyInterrupt \/ PreHandler
  /\ UNCHANGED <<kernelVars, ctxVars, dir, pc, i, locksVars, memoryVars, containersVars, taskVars>>

CallEnds ==
  /\ HandlerEnds
  /\ UNCHANGED <<kernelVars, ctxVars, dir, pc, i, locksVars, memoryVars, containersVars, taskVars>>

Others ==
  /\ \E t \in Task : Fork(t) \/ Exit(t) \/ GracePeriod(t)
  /\ UNCHANGED <<kernelVars, ctxVars, dir, pc, i,
                 locksVars, memoryVars, containersVars, handlersVars>>

Next ==
  /\ fault = "none"
  /\ Load \/ Unload \/ Self \/ Synchronize \/ Away \/ Back \/ Call \/ CallEnds \/ Others

\* The scheduler keeps giving CPU time to insmod and rmmod, however often they
\* lose the CPU again (hence SF), and every handler comes to an end.
Fairness ==
  /\ SF_vars(fault = "none" /\ Self)
  /\ SF_vars(fault = "none" /\ Back)
  /\ WF_vars(fault = "none" /\ CallEnds)

Spec == Init /\ [][Next]_vars /\ Fairness

-----------------------------------------------------------------------------
(* Properties *)

SpinSection == {"spin_is_locked", "spin_trylock", "spin_unlock",
                "spin_unlock_irqrestore", "spin_unlock_irq", "spin_unlock_bh"}

\* While src/spinlock/code.c is between a lock call and its unlock call no
\* other task gets the CPU, and in the irqsave and irq sections no interrupt
\* either (code.c:31: "preemption is disabled on the cpu where the code is running").
SectionUndisturbed ==
  dir = "spinlock" =>
    /\ pc \in SpinSection => cpu # "task"
    /\ pc \in {"spin_unlock_irqrestore", "spin_unlock_irq"} => cpu # "irq"

\* Every init function returns with bottom halves and interrupts enabled and, on a
\* kernel with CONFIG_SMP, with preemption enabled.  With or without CONFIG_SMP no
\* module makes a call that may sleep in atomic context (forbidden by
\* mutex1/code.c:34 and spinlock/code.c:43), whatever was loaded before it.
ContextBalanced ==
  /\ pc \in {"return", "error"} =>
       /\ bh = "on" /\ irqs = "on"
       /\ smp => preempt_count = 0
  /\ pc \in Sleeping => ~Atomic

\* Once an init function of memory1 or memory2 has returned, on whichever path,
\* nothing it allocated is left: every block went back to its own allocator and
\* with the size it was taken with, never while kmap()ed.  A successful load
\* of link_list has freed its nodes; its failing path (link_list/code.c:54-57)
\* returns without freeing them and is left out.
MemoryReturned ==
  /\ fault # "bad_free"
  /\ pc \in Returned => block = NoBlock /\ free_pages = PAGES
  /\ kmaps > 0 => block.kind = "pages"
  /\ dir = "link_list" /\ pc \in {"return", "live"} => fvar = {}

\* When start() has returned, on whichever path, neither the list of link_list,
\* nor the radix tree, nor a lock still involves a variable of its dead stack frame.
NothingOnStack ==
  pc \in Returned =>
    /\ Temp \notin Range(mylist)
    /\ mytree = {}
    /\ sl = "free" /\ m = "free"

\* What link_list prints: a stack, the stack with 1400 at its bottom, and the
\* stack without 1400 and 0.  What radix_tree finds: only lookups and deletions
\* of the inserted key succeed, as the comments at code.c:88-129 announce.
Printed ==
  LET stack == [k \in 1 .. NODES |-> NODES - k]
  IN  IF dir = "link_list"
        THEN <<stack, Append(stack, Temp), SubSeq(stack, 1, NODES - 1)>>
        ELSE <<FALSE, TRUE, FALSE, TRUE>>

\* print_list() never meets a freed node, although start() frees nodes that
\* are still on the list; link_list and radix_tree print what they announce.
PrintsLiveNodes ==
  /\ dir = "link_list" /\ pc \in {"print_1", "print_2", "print_3"} =>
       Range(mylist) \subseteq fvar \cup {Temp}
  /\ dir \in {"link_list", "radix_tree"} =>
       \E k \in 0 .. Len(Printed) : out = SubSeq(Printed, 1, k)

\* The kernel calls my_interrupt() and the kprobe handlers only while the module
\* that holds them is in the kernel, and keeps no registration after a failed
\* load or an unload, although register_kprobe()'s result is ignored
\* (kprobe/code.c:56) and calls are in progress on other CPUs.
HandlersHaveText ==
  /\ action \/ in_irq => dir = "interrupt01"
  /\ probe \/ hit # "none" => dir \in {"kprobe", "kprobe1"}

\* The walk of task_struct prints no process twice, and when it ends it has
\* printed every process that was there from its beginning to its end, whatever
\* was forked or exited meanwhile.  It reads a freed process only on a kernel with
\* CONFIG_PREEMPT, although it takes no rcu_read_lock() (task_struct/code.c:32).
WalkCorrect ==
  /\ IsInjective(seen)
  /\ dir = "task_struct" /\ pc = "return" =>
       \A t \in Task : since[t] = "linked" /\ state[t] = "linked" => t \in Range(seen)
  /\ fault = "use_after_free" => preempt

\* Every init function that is started returns, and every exit function that
\* got past synchronize_irq(); the walk of task_struct is left out, since
\* forks can prolong it for ever.
CodeReturns ==
  (dir # "task_struct" /\ pc # "synchronize_irq") ~> (pc \in {"live", "none"})

-----------------------------------------------------------------------------
(* What the repository says and the code does not keep *)

\* spin_trylock() at spinlock/code.c:88 is called on the lock that start() has
\* held since line 70.  code.c:86 says of it: "Return 0 if cannot take lock. Or
\* Lock already taken."
TrylockRefused == dir = "spinlock" /\ pc = "spin_unlock" => i = 0

=============================================================================
