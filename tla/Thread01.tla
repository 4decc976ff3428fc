------------------------------ MODULE Thread01 ------------------------------
(***************************************************************************)
(* src/thread01/code.c: km_init() creates ELEMENTS kernel threads, links   *)
(* them into the list gwl and wakes them; km_exit() walks the list, stops  *)
(* each thread and frees its descriptor.  Actors: the insmod/rmmod task,   *)
(* the ELEMENTS threads, and the allocator and kthreadd, which may fail.   *)
(***************************************************************************)
EXTENDS Naturals, Sequences, SequencesExt

CONSTANT ELEMENTS

ASSUME ElementsAssumption == ELEMENTS \in Nat \ {0}

VARIABLES
  pc,          \* next statement of km_init() or km_exit()
  i,           \* loop index; counts the stopped threads in km_exit()'s list walk
  k,           \* position of the cursor "work" in gwl
  g_work,      \* descriptor of slot w: "none", "live" or "freed"
  gwl,         \* the list, first entry first
  task,        \* thread of slot w
  should_stop  \* KTHREAD_SHOULD_STOP of slot w

vars == <<pc, i, k, g_work, gwl, task, should_stop>>

Slots == 0..ELEMENTS-1

\* "runnable" is woken but still inside kthread(), before mfoo() is called;
\* "loop" and "msleep" are inside mfoo(); "stopped" exited without running it.
TaskStates == {"none", "created", "runnable", "loop", "msleep", "exited", "stopped"}

PcStates == {"kmalloc", "kthread_create", "list_add", "wake_up", "live",
             "kthread_stop", "wait_exit", "kfree", "gone", "load_failed"}

Init ==
  /\ pc = "kmalloc"
  /\ i = 0
  /\ k = 1
  /\ g_work = [w \in Slots |-> "none"]
  /\ gwl = <<>>
  /\ task = [w \in Slots |-> "none"]
  /\ should_stop = [w \in Slots |-> FALSE]

-----------------------------------------------------------------------------
(* km_init() *)

\* An early return leaves the descriptors and threads made so far behind.
Kmalloc ==
  /\ pc = "kmalloc"
  /\ \/ g_work' = [g_work EXCEPT ![i] = "live"] /\ pc' = "kthread_create"
     \/ UNCHANGED g_work /\ pc' = "load_failed"
  /\ UNCHANGED <<i, k, gwl, task, should_stop>>

KthreadCreate ==
  /\ pc = "kthread_create"
  /\ \/ /\ task' = [task EXCEPT ![i] = "created"]
        /\ i' = IF i + 1 < ELEMENTS THEN i + 1 ELSE 0
        /\ pc' = IF i + 1 < ELEMENTS THEN "kmalloc" ELSE "list_add"
     \/ UNCHANGED <<task, i>> /\ pc' = "load_failed"
  /\ UNCHANGED <<k, g_work, gwl, should_stop>>

ListAdd ==
  /\ pc = "list_add"
  /\ gwl' = Cons(i, gwl)
  /\ i' = i + 1
  /\ k' = 1
  /\ pc' = IF i + 1 < ELEMENTS THEN "list_add" ELSE "wake_up"
  /\ UNCHANGED <<g_work, task, should_stop>>

\* start_mythread()
WakeUpProcess ==
  /\ pc = "wake_up"
  /\ task' = [task EXCEPT ![gwl[k]] = "runnable"]
  /\ k' = k + 1
  /\ pc' = IF k < Len(gwl) THEN "wake_up" ELSE "live"
  /\ UNCHANGED <<i, g_work, gwl, should_stop>>

-----------------------------------------------------------------------------
(* km_exit() *)

KmExit ==
  /\ pc = "live"
  /\ i' = 0
  /\ k' = 1
  /\ pc' = "kthread_stop"
  /\ UNCHANGED <<g_work, gwl, task, should_stop>>

\* Faulty variant: the thread is waited for but not told to stop.
KthreadStopSilent ==
  /\ pc = "kthread_stop"
  /\ pc' = "wait_exit"
  /\ UNCHANGED <<i, k, g_work, gwl, task, should_stop>>

KthreadStop ==
  /\ pc = "kthread_stop"
  /\ should_stop' = [should_stop EXCEPT ![gwl[k]] = TRUE]
  /\ pc' = "wait_exit"
  /\ UNCHANGED <<i, k, g_work, gwl, task>>

\* Faulty variant: kthread_stop() does not block.
KthreadStopNoWait ==
  /\ pc = "wait_exit"
  /\ i' = IF task[gwl[k]] = "exited" THEN i + 1 ELSE i
  /\ k' = k + 1
  /\ pc' = IF k < Len(gwl) THEN "kthread_stop" ELSE "kfree"
  /\ UNCHANGED <<g_work, gwl, task, should_stop>>

\* kthread_stop() returns once the thread has exited: 0 from mfoo(), -EINTR if
\* mfoo() was never called.
KthreadStopReturns ==
  /\ pc = "wait_exit"
  /\ task[gwl[k]] \in {"exited", "stopped"}
  /\ i' = IF task[gwl[k]] = "exited" THEN i + 1 ELSE i
  /\ k' = k + 1
  /\ pc' = IF k < Len(gwl) THEN "kthread_stop" ELSE "kfree"
  /\ UNCHANGED <<g_work, gwl, task, should_stop>>

Kfree ==
  /\ pc = "kfree"
  /\ g_work' = [w \in Slots |-> "freed"]
  /\ pc' = "gone"
  /\ UNCHANGED <<i, k, gwl, task, should_stop>>

-----------------------------------------------------------------------------
(* A kernel thread *)

\* kthread(): a thread that is stopped before it first runs skips mfoo().
ThreadRuns(w) ==
  /\ task[w] = "runnable"
  /\ task' = [task EXCEPT ![w] = IF should_stop[w] THEN "stopped" ELSE "loop"]
  /\ UNCHANGED <<pc, i, k, g_work, gwl, should_stop>>

\* Faulty variant: mfoo() runs its loop body once and returns.
MfooLoopOnce(w) ==
  /\ task[w] = "loop"
  /\ task' = [task EXCEPT ![w] = "exited"]
  /\ UNCHANGED <<pc, i, k, g_work, gwl, should_stop>>

MfooLoop(w) ==
  /\ task[w] = "loop"
  /\ task' = [task EXCEPT ![w] = IF should_stop[w] THEN "exited" ELSE "msleep"]
  /\ UNCHANGED <<pc, i, k, g_work, gwl, should_stop>>

MfooSleep(w) ==
  /\ task[w] = "msleep"
  /\ task' = [task EXCEPT ![w] = "loop"]
  /\ UNCHANGED <<pc, i, k, g_work, gwl, should_stop>>

-----------------------------------------------------------------------------
Thread(w) == ThreadRuns(w) \/ MfooLoop(w) \/ MfooSleep(w)

KmInit == Kmalloc \/ KthreadCreate \/ ListAdd \/ WakeUpProcess

StopThreads == KthreadStop \/ KthreadStopReturns \/ Kfree

Next == KmInit \/ KmExit \/ StopThreads \/ \E w \in Slots : Thread(w)

Spec == Init /\ [][Next]_vars

\* The scheduler serves the rmmod task and every thread; msleep() returns.
FairSpec == Spec /\ WF_vars(StopThreads) /\ \A w \in Slots : WF_vars(Thread(w))

-----------------------------------------------------------------------------
(* Properties *)

\* Every variable keeps its type; an ERR_PTR never counts as a thread
\* (code.c:53-57).
TypeOK ==
  /\ pc \in PcStates
  /\ i \in 0..ELEMENTS
  /\ k \in 1..ELEMENTS+1
  /\ g_work \in [Slots -> {"none", "live", "freed"}]
  /\ gwl \in Seq(Slots)
  /\ task \in [Slots -> TaskStates]
  /\ should_stop \in [Slots -> BOOLEAN]

\* A thread in which module code runs, or will run when it is scheduled.
Active(w) == task[w] \in {"runnable", "loop", "msleep"}

\* When km_exit() has returned, or km_init() has failed, no thread is left that
\* could still run mfoo() (code.c:43-57, 79-85).
NoThreadAfterUnload == pc \in {"gone", "load_failed"} => \A w \in Slots : ~Active(w)

\* kthread_stop() is only called on a thread that has not exited by itself: its
\* task_struct would already be released (code.c:82, 105).
StopsLiveThread ==
  \A w \in Slots : task[w] \in {"exited", "stopped"} => should_stop[w]

\* Descriptors are live as long as the list is walked, and no descriptor is
\* freed before its thread has ended (code.c:79-89).
FreedAfterStop ==
  /\ pc \in {"wake_up", "kthread_stop", "wait_exit"} => g_work[gwl[k]] = "live"
  /\ \A w \in Slots : g_work[w] = "freed" => task[w] \in {"exited", "stopped"}

\* rmmod returns, although every kthread_stop() blocks (code.c:79-91).
UnloadTerminates == pc = "kthread_stop" ~> pc = "gone"

=============================================================================
