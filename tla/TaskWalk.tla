------------------------------ MODULE TaskWalk ------------------------------
(***************************************************************************)
(* src/task_struct/code.c: start() walks the kernel's list of processes    *)
(* with for_each_process() while other tasks fork and exit.  It takes no   *)
(* rcu_read_lock(), so only a kernel without preemption keeps an exited    *)
(* process in memory until the walk is over.                               *)
(***************************************************************************)
EXTENDS CodeKo, Sequences

CONSTANTS Task, InitTask   \* processes that may be forked; the list's head

ASSUME TaskAssumption == InitTask \notin Task

VARIABLES
  tasks,    \* tasks.next of every process
  state,    \* "unborn", "linked", "exited" (off the list, in memory) or "freed"
  since,    \* state when the walk began
  task,     \* the loop variable
  seen      \* the processes printed

taskVars == <<tasks, state, since, task, seen>>

\* The walk meets whatever was forked before it; the list starts empty.
Alone == [t \in Task \cup {InitTask} |-> InitTask]

Unborn == [t \in Task |-> "unborn"]

TaskInit == tasks = Alone /\ state = Unborn /\ since = Unborn /\ task = InitTask /\ seen = <<>>

TaskLoad ==
  tasks' = Alone /\ state' = Unborn /\ since' = Unborn /\ task' = InitTask /\ seen' = <<>>

OnList(t) == IF t = InitTask THEN TRUE ELSE state[t] = "linked"

\* Before the walk any process may have come and gone; during the walk other
\* tasks run on other CPUs, or when they have taken this one.
Elsewhere == pc = "current" \/ (pc = "for_each_process" /\ (smp \/ cpu = "task"))

\* fork() adds the child at the tail of the list.
Fork(t) ==
  /\ Elsewhere
  /\ state[t] = "unborn"
  /\ tasks' = [p \in DOMAIN tasks |->
                 IF OnList(p) /\ tasks[p] = InitTask THEN t ELSE tasks[p]]
  /\ state' = [state EXCEPT ![t] = "linked"]
  /\ UNCHANGED <<since, task, seen>>

\* The exited process keeps its own next pointer.
Exit(t) ==
  /\ Elsewhere
  /\ state[t] = "linked"
  /\ tasks' = [p \in DOMAIN tasks |-> IF OnList(p) /\ tasks[p] = t THEN tasks[t] ELSE tasks[p]]
  /\ state' = [state EXCEPT ![t] = "exited"]
  /\ UNCHANGED <<since, task, seen>>

\* A grace period waits for a CPU in the loop unless the loop can be preempted.
GracePeriod(t) ==
  /\ pc = "current" \/ (pc = "for_each_process" /\ (preempt \/ since[t] = "exited"))
  /\ state[t] = "exited"
  /\ state' = [state EXCEPT ![t] = "freed"]
  /\ UNCHANGED <<tasks, since, task, seen>>

\* "current" is printed, then the loop starts behind init_task.
WalkBegin ==
  /\ Goto("task_struct", "current", "for_each_process")
  /\ task' = tasks[InitTask]
  /\ since' = state
  /\ UNCHANGED <<tasks, state, seen, fault>>

\* Faulty variant: the loop moves on twice per turn.
NextTaskSkips == tasks[tasks[task]]

NextTask == tasks[task]

WalkStep ==
  /\ Goto("task_struct", "for_each_process", "for_each_process")
  /\ task # InitTask
  /\ fault' = IF state[task] = "freed" THEN "use_after_free" ELSE fault
  /\ seen' = Append(seen, task)
  /\ task' = NextTask
  /\ UNCHANGED <<tasks, state, since>>

WalkEnd ==
  /\ Goto("task_struct", "for_each_process", "return")
  /\ task = InitTask
  /\ UNCHANGED <<taskVars, fault>>

Walk == (WalkBegin \/ WalkStep \/ WalkEnd) /\ UNCHANGED <<i, ctxVars>>

=============================================================================
