-------------------------- MODULE Thread01Proofs --------------------------
(* Proofs about Thread01, for every number of threads. *)
EXTENDS Thread01, SequenceTheorems, TLAPS

Ended(w) == task[w] \in {"exited", "stopped"}

Creating == {"kmalloc", "kthread_create", "list_add", "load_failed"}
Linked   == {"wake_up", "live", "kthread_stop", "wait_exit", "kfree", "gone"}

\* gwl holds slot Len(gwl)-1 first and slot 0 last; its length follows pc.
ListShape ==
  /\ \A j \in 1..Len(gwl) : gwl[j] = Len(gwl) - j
  /\ pc \in {"kmalloc", "kthread_create"} => Len(gwl) = 0
  /\ pc = "list_add" => Len(gwl) = i
  /\ pc \in Linked => Len(gwl) = ELEMENTS

IndexOK ==
  /\ pc \in {"kmalloc", "kthread_create", "list_add"} => i < ELEMENTS
  /\ pc \in {"wake_up", "kthread_stop", "wait_exit"} => k <= ELEMENTS
  /\ pc \in {"kthread_stop", "wait_exit"} => i < k

\* No descriptor is freed before km_exit() is over; once km_init() has left its
\* first loop there is a live descriptor in every slot.
WorkOK ==
  /\ pc # "gone" => \A w \in Slots : g_work[w] # "freed"
  /\ pc = "kmalloc" => \A w \in Slots : w < i => g_work[w] = "live"
  /\ pc = "kthread_create" => \A w \in Slots : w <= i => g_work[w] = "live"
  /\ pc \in (Linked \ {"gone"}) \cup {"list_add"} => \A w \in Slots : g_work[w] = "live"

\* Which threads have ended: none while they are being created, those in front
\* of the cursor while km_exit() walks the list, all of them afterwards.
TaskOK ==
  /\ pc \in Creating => \A w \in Slots : task[w] \in {"none", "created"}
  /\ pc \in {"kthread_stop", "wait_exit"} => \A j \in 1..k-1 : Ended(gwl[j])
  /\ pc \in {"kfree", "gone"} => \A w \in Slots : Ended(w)
  /\ pc \in {"wake_up", "live"} => \A w \in Slots : ~should_stop[w] /\ ~Ended(w)
  /\ pc \in Creating => \A w \in Slots : ~should_stop[w]

IInv == TypeOK /\ ListShape /\ IndexOK /\ WorkOK /\ TaskOK /\ StopsLiveThread

-----------------------------------------------------------------------------
\* The initial state satisfies the inductive invariant.
LEMMA InitIInv == Init => IInv
<1> USE ElementsAssumption
<1> SUFFICES ASSUME Init PROVE IInv
  OBVIOUS
<1>1. TypeOK
  BY DEF Init, TypeOK, PcStates, TaskStates, Slots
<1>2. ListShape /\ IndexOK
  BY DEF Init, ListShape, IndexOK, Linked
<1>3. WorkOK /\ TaskOK /\ StopsLiveThread
  BY DEF Init, WorkOK, TaskOK, Creating, Linked, StopsLiveThread, Ended, Slots
<1>4. QED
  BY <1>1, <1>2, <1>3 DEF IInv

\* The entry under the cursor is a slot, and every slot is in the list.
LEMMA Cursor ==
  ASSUME IInv, pc \in Linked
  PROVE  /\ k <= ELEMENTS => gwl[k] \in Slots
         /\ \A w \in Slots : ELEMENTS - w \in 1..ELEMENTS /\ gwl[ELEMENTS - w] = w
<1> USE ElementsAssumption
<1>1. Len(gwl) = ELEMENTS /\ \A j \in 1..Len(gwl) : gwl[j] = Len(gwl) - j
  BY DEF IInv, ListShape
<1>2. k \in Nat \ {0}
  BY DEF IInv, TypeOK
<1>3. QED
  BY <1>1, <1>2 DEF Slots

\* Steps of km_init().
LEMMA InitStep == ASSUME IInv, KmInit PROVE IInv'
<1> USE ElementsAssumption
<1>1. CASE Kmalloc
  <2> USE <1>1 DEF Kmalloc, IInv, PcStates, Slots
  <2>1. TypeOK'
    BY DEF TypeOK
  <2>2. ListShape' /\ IndexOK'
    BY DEF ListShape, IndexOK, Linked
  <2>3. WorkOK'
    BY DEF TypeOK, WorkOK, IndexOK, Linked
  <2>4. TaskOK' /\ StopsLiveThread'
    BY DEF TaskOK, StopsLiveThread, Creating, Ended
  <2>5. QED
    BY <2>1, <2>2, <2>3, <2>4
<1>2. CASE KthreadCreate
  <2> USE <1>2 DEF KthreadCreate, IInv, Slots
  <2>1. TypeOK'
    BY DEF TypeOK, IndexOK, PcStates, TaskStates
  <2>2. ListShape' /\ IndexOK'
    BY DEF TypeOK, ListShape, IndexOK, Linked
  <2>3. WorkOK'
    BY DEF TypeOK, WorkOK, IndexOK, Linked
  <2>4. TaskOK' /\ StopsLiveThread'
    BY DEF TypeOK, TaskOK, StopsLiveThread, Creating, Ended
  <2>5. QED
    BY <2>1, <2>2, <2>3, <2>4
<1>3. CASE ListAdd
  <2> USE <1>3 DEF ListAdd, IInv, Slots
  <2>1. /\ gwl' \in Seq(Slots) /\ Len(gwl') = i + 1
        /\ \A j \in 1..Len(gwl') : gwl'[j] = i + 1 - j
    BY DEF Cons, TypeOK, ListShape, IndexOK
  <2>2. TypeOK'
    BY <2>1 DEF TypeOK, IndexOK, PcStates
  <2>3. ListShape' /\ IndexOK'
    BY <2>1 DEF TypeOK, ListShape, IndexOK, Linked
  <2>4. WorkOK'
    BY DEF WorkOK, Linked
  <2>5. TaskOK' /\ StopsLiveThread'
    BY DEF TaskOK, StopsLiveThread, Creating, Ended
  <2>6. QED
    BY <2>2, <2>3, <2>4, <2>5
<1>4. CASE WakeUpProcess
  <2> USE <1>4 DEF WakeUpProcess, IInv
  <2>1. gwl[k] \in Slots /\ Len(gwl) = ELEMENTS /\ k \in 1..ELEMENTS
    BY Cursor DEF Linked, IndexOK, ListShape, TypeOK
  <2>2. TypeOK'
    BY <2>1 DEF TypeOK, PcStates, TaskStates
  <2>3. ListShape' /\ IndexOK' /\ WorkOK'
    BY <2>1 DEF ListShape, IndexOK, WorkOK, Linked
  <2>4. TaskOK' /\ StopsLiveThread'
    BY <2>1 DEF TypeOK, TaskOK, StopsLiveThread, Creating, Ended
  <2>5. QED
    BY <2>2, <2>3, <2>4
<1>5. QED
  BY <1>1, <1>2, <1>3, <1>4 DEF KmInit

\* Steps of km_exit().
LEMMA ExitStep == ASSUME IInv, KmExit \/ StopThreads PROVE IInv'
<1> USE ElementsAssumption
<1>1. CASE KmExit
  <2> USE <1>1 DEF KmExit, IInv
  <2>1. TypeOK'
    BY DEF TypeOK, PcStates
  <2>2. ListShape' /\ IndexOK' /\ WorkOK'
    BY DEF ListShape, IndexOK, WorkOK, Linked
  <2>3. TaskOK' /\ StopsLiveThread'
    BY DEF TaskOK, StopsLiveThread, Creating, Ended
  <2>4. QED
    BY <2>1, <2>2, <2>3
<1>2. CASE KthreadStop
  <2> USE <1>2 DEF KthreadStop, IInv
  <2>1. TypeOK'
    BY DEF TypeOK, PcStates
  <2>2. ListShape' /\ IndexOK' /\ WorkOK'
    BY DEF ListShape, IndexOK, WorkOK, Linked
  <2>3. TaskOK' /\ StopsLiveThread'
    BY DEF TypeOK, TaskOK, StopsLiveThread, Creating, Ended
  <2>4. QED
    BY <2>1, <2>2, <2>3
<1>3. CASE KthreadStopReturns
  <2> USE <1>3 DEF KthreadStopReturns, IInv
  <2>1. Len(gwl) = ELEMENTS /\ k \in 1..ELEMENTS /\ i < k
    BY DEF Linked, IndexOK, ListShape, TypeOK
  <2>2. TypeOK'
    BY <2>1 DEF TypeOK, PcStates
  <2>3. ListShape' /\ IndexOK' /\ WorkOK'
    BY <2>1 DEF TypeOK, ListShape, IndexOK, WorkOK, Linked
  <2>4. TaskOK'
    <3>1. \A j \in 1..k : Ended(gwl[j])
      BY <2>1 DEF TaskOK, Ended
    <3>2. k = ELEMENTS => \A w \in Slots : Ended(w)
      BY <3>1, Cursor DEF Linked
    <3>3. QED
      BY <2>1, <3>1, <3>2 DEF TaskOK, Creating, Ended
  <2>5. StopsLiveThread'
    BY DEF StopsLiveThread
  <2>6. QED
    BY <2>2, <2>3, <2>4, <2>5
<1>4. CASE Kfree
  <2> USE <1>4 DEF Kfree, IInv
  <2>1. TypeOK'
    BY DEF TypeOK, PcStates
  <2>2. ListShape' /\ IndexOK' /\ WorkOK'
    BY DEF ListShape, IndexOK, WorkOK, Linked
  <2>3. TaskOK' /\ StopsLiveThread'
    BY DEF TaskOK, StopsLiveThread, Creating, Ended
  <2>4. QED
    BY <2>1, <2>2, <2>3
<1>5. QED
  BY <1>1, <1>2, <1>3, <1>4 DEF StopThreads

\* Steps of a thread: it ends only after kthread_stop(), and an ended thread
\* takes no step.
LEMMA ThreadStep == ASSUME IInv, NEW w \in Slots, Thread(w) PROVE IInv'
<1>1. /\ UNCHANGED <<pc, i, k, g_work, gwl, should_stop>>
      /\ \E s \in TaskStates : task' = [task EXCEPT ![w] = s]
                               /\ (s \in {"exited", "stopped"} => should_stop[w])
      /\ Active(w)
  BY DEF Thread, ThreadRuns, MfooLoop, MfooSleep, TaskStates, Active
<1>2. TypeOK'
  BY <1>1 DEF IInv, TypeOK
<1>3. ListShape' /\ IndexOK' /\ WorkOK'
  BY <1>1 DEF IInv, ListShape, IndexOK, WorkOK
<1>4. StopsLiveThread'
  BY <1>1 DEF IInv, TypeOK, StopsLiveThread
<1>5. TaskOK'
  <2>1. \A v \in Slots : Ended(v) => Ended(v)'
    BY <1>1 DEF IInv, TypeOK, Ended, Active
  <2>2. pc \notin Creating
    BY <1>1 DEF IInv, TaskOK, Active
  <2>3. pc \in {"wake_up", "live"} => \A v \in Slots : ~should_stop[v] /\ ~Ended(v)'
    BY <1>1 DEF IInv, TypeOK, TaskOK, Ended
  <2>4. pc \in {"kthread_stop", "wait_exit"} => \A j \in 1..k-1 : gwl[j] \in Slots
    BY DEF IInv, TypeOK, IndexOK, ListShape, Linked
  <2>5. QED
    BY <1>1, <2>1, <2>2, <2>3, <2>4 DEF IInv, TaskOK, Ended
<1>6. QED
  BY <1>2, <1>3, <1>4, <1>5 DEF IInv

\* The inductive invariant holds in every reachable state.
LEMMA Invariance == Spec => []IInv
<1>1. ASSUME IInv, UNCHANGED vars PROVE IInv'
  BY <1>1 DEF vars, IInv, TypeOK, ListShape, IndexOK, WorkOK, TaskOK, StopsLiveThread, Ended
<1>2. ASSUME IInv, [Next]_vars PROVE IInv'
  BY <1>1, <1>2, InitStep, ExitStep, ThreadStep DEF Next
<1>3. QED
  BY InitIInv, <1>2, PTL DEF Spec

\* Every variable keeps its type, whatever ELEMENTS is (code.c:35-111).
THEOREM TypeCorrect == Spec => []TypeOK
<1>1. IInv => TypeOK
  BY DEF IInv
<1>2. QED
  BY <1>1, Invariance, PTL

\* However many threads there are, none of them can run mfoo() once the module
\* is gone or failed to load (code.c:43-57, 79-85).
THEOREM UnloadSafe == Spec => []NoThreadAfterUnload
<1>1. IInv => NoThreadAfterUnload
  BY DEF IInv, TaskOK, Ended, Creating, NoThreadAfterUnload, Active
<1>2. QED
  BY <1>1, Invariance, PTL

\* kthread_stop() never meets a thread that has already exited (code.c:82, 105).
THEOREM StopSafe == Spec => []StopsLiveThread
<1>1. IInv => StopsLiveThread
  BY DEF IInv
<1>2. QED
  BY <1>1, Invariance, PTL

\* The list walks only touch live descriptors, and descriptors are freed after
\* their threads have ended (code.c:79-89).
THEOREM FreeSafe == Spec => []FreedAfterStop
<1>1. ASSUME IInv PROVE FreedAfterStop
  <2>1. pc \in {"wake_up", "kthread_stop", "wait_exit"} => g_work[gwl[k]] = "live"
    BY <1>1, Cursor DEF IInv, IndexOK, WorkOK, Linked
  <2>2. \A w \in Slots : g_work[w] = "freed" => Ended(w)
    BY <1>1 DEF IInv, WorkOK, TaskOK
  <2>3. QED
    BY <2>1, <2>2 DEF FreedAfterStop, Ended
<1>2. QED
  BY <1>1, Invariance, PTL

=============================================================================
