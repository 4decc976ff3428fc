---------------------- MODULE WorkQueueDedicatedProofs ----------------------
(***************************************************************************)
(* Proofs about WorkQueueDedicated, for every batch size N and every heap. *)
(***************************************************************************)
EXTENDS WorkQueueDedicated, SequenceTheorems, TLAPS

\* Where start() and stops() stand determines which of the interrupt line,
\* the work queue and the worker can still be active.
ControlInv ==
  /\ func <=> mod \notin StartStates \cup {"load_failed"}
  /\ registered => mod \in {"create_wq", "init_work", "live", "synchronize_irq", "free_irq"}
  /\ in_irq => registered \/ mod = "wait_irq"
  /\ wq = "live" => mod \notin {"request_irq", "create_wq", "load_failed", "gone"}
  /\ wq = "destroyed" <=> mod = "gone"
  /\ pending => func /\ wq = "live" /\ mod # "destroy"
  /\ worker # "idle" => func /\ mod \notin {"destroy", "gone"}

\* What work_handler() knows at each statement.
HandlerInv ==
  /\ worker \in {"test", "kmalloc"} => i = 0
  /\ worker = "kmalloc" => moving_val < N
  /\ worker = "del" => i < N /\ moving_val = 0

\* Every listed node has been allocated, so kmalloc() cannot return it again.
HeadAllocated == \A k \in 1..Len(head) : head[k] \in heap

\* Faults that are possible at all, given where start() stands.
FaultInv ==
  /\ Ready => fault = "none"
  /\ fault # "bad_list_del"

IInv ==
  /\ TypeOK
  /\ ControlInv
  /\ HandlerInv
  /\ HeadAllocated
  /\ ListMatchesArray
  /\ FlushPrintsBatch
  /\ FaultInv

-----------------------------------------------------------------------------
\* list_del() of the last node: the others stay where they are (code.c:193).
LEMMA RemoveLastProperties ==
  ASSUME NEW S, NEW s \in Seq(S), Len(s) \in Nat \ {0}
  PROVE  /\ RemoveAt(s, Len(s)) \in Seq(S)
         /\ Len(RemoveAt(s, Len(s))) = Len(s) - 1
         /\ \A k \in 1..Len(s)-1 : RemoveAt(s, Len(s))[k] = s[k]
<1> DEFINE n == Len(s) - 1
<1>1. n \in Nat /\ n < Len(s)
  OBVIOUS
<1> HIDE DEF n
<1>2. /\ SubSeq(s, 1, n) \in Seq(S)
      /\ Len(SubSeq(s, 1, n)) = n
      /\ \A k \in 1..n : SubSeq(s, 1, n)[k] = s[k]
  BY <1>1
<1>3. SubSeq(s, Len(s)+1, Len(s)) = <<>>
  BY SubSeqEmpty
<1>4. RemoveAt(s, Len(s)) = SubSeq(s, 1, n) \o <<>>
  BY <1>3 DEF RemoveAt, n
<1>5. RemoveAt(s, Len(s)) = SubSeq(s, 1, n)
  BY <1>2, <1>4, ConcatEmptySeq
<1>6. QED
  BY <1>2, <1>5 DEF n

-----------------------------------------------------------------------------
\* The initial state satisfies the inductive invariant.
LEMMA InitIInv == Init => IInv
<1> USE NAssumption, NULLAssumption
<1> SUFFICES ASSUME Init PROVE IInv
  OBVIOUS
<1>1. TypeOK
  <2>1. head \in Seq(Node) /\ printed \in Seq(0..N-1)
    BY DEF Init
  <2>2. value \in [Node -> 0..N-1] /\ f \in [0..N-1 -> Node \cup {NULL}]
    BY DEF Init
  <2>3. QED
  BY <2>1, <2>2 DEF Init, TypeOK, ModStates, StartStates, WorkerStates, Faults
<1>2. ControlInv /\ HandlerInv /\ HeadAllocated /\ FaultInv
  BY DEF Init, ControlInv, HandlerInv, HeadAllocated, FaultInv, Ready, StartStates
<1>3. ListMatchesArray /\ FlushPrintsBatch
  BY DEF Init, ListMatchesArray, FlushPrintsBatch
<1>4. QED
  BY <1>1, <1>2, <1>3 DEF IInv

-----------------------------------------------------------------------------
(* Steps of the loader and of the interrupt line touch no list variable. *)

DataInv == HandlerInv /\ HeadAllocated /\ ListMatchesArray /\ FlushPrintsBatch

\* While work_handler() is not in its flush loop, ListMatchesArray only
\* depends on the list variables.
LEMMA DataStutter ==
  ASSUME DataInv, UNCHANGED listVars,
         worker' = worker \/ (worker' \notin {"del", "kmalloc", "test"} /\ worker # "del")
  PROVE  DataInv'
<1> USE DEF listVars
<1>1. HandlerInv' /\ HeadAllocated' /\ FlushPrintsBatch'
  BY DEF DataInv, HandlerInv, HeadAllocated, FlushPrintsBatch
<1>2. ListMatchesArray'
  BY DEF DataInv, ListMatchesArray
<1>3. QED
  BY <1>1, <1>2 DEF DataInv

\* Steps of start(), stops() and the interrupt preserve the inductive invariant.
LEMMA LoaderStep ==
  ASSUME IInv, fault = "none", Loader \/ IrqRaised \/ MyInterrupt
  PROVE  IInv'
<1> USE DEF loadVars
<1>1. UNCHANGED <<listVars, worker, locked>>
  BY DEF Loader, RequestIrq, CreateWq, InitWork, Rmmod, SynchronizeIrq, FreeIrq,
         FreeIrqWait, FlushWorkqueue, DestroyWorkqueue, IrqRaised, MyInterrupt
<1>2. DataInv'
  BY <1>1, DataStutter DEF IInv, DataInv
<1>3. /\ mod' \in ModStates /\ registered' \in BOOLEAN /\ in_irq' \in BOOLEAN
      /\ wq' \in {"null", "live", "destroyed"} /\ func' \in BOOLEAN
      /\ pending' \in BOOLEAN /\ fault' \in Faults
  BY DEF IInv, TypeOK, ModStates, StartStates, StopStates, Faults,
         Loader, RequestIrq, CreateWq, InitWork, Rmmod, SynchronizeIrq, FreeIrq,
         FreeIrqWait, FlushWorkqueue, DestroyWorkqueue, IrqRaised, MyInterrupt
<1>4. TypeOK'
  BY <1>1, <1>3 DEF IInv, TypeOK, listVars
<1>5. ControlInv' /\ FaultInv'
  <2> USE DEF IInv, TypeOK, ControlInv, FaultInv, Ready, StartStates
  <2>1. CASE RequestIrq
    BY <2>1, <1>1 DEF RequestIrq
  <2>2. CASE CreateWq
    BY <2>2, <1>1 DEF CreateWq
  <2>3. CASE InitWork
    BY <2>3, <1>1 DEF InitWork
  <2>4. CASE Rmmod
    BY <2>4, <1>1 DEF Rmmod
  <2>5. CASE SynchronizeIrq
    BY <2>5, <1>1 DEF SynchronizeIrq
  <2>6. CASE FreeIrq
    BY <2>6, <1>1 DEF FreeIrq
  <2>7. CASE FreeIrqWait
    BY <2>7, <1>1 DEF FreeIrqWait
  <2>8. CASE FlushWorkqueue
    BY <2>8, <1>1 DEF FlushWorkqueue
  <2>9. CASE DestroyWorkqueue
    BY <2>9, <1>1 DEF DestroyWorkqueue
  <2>10. CASE IrqRaised
    BY <2>10, <1>1 DEF IrqRaised
  <2>11. CASE MyInterrupt
    BY <2>11, <1>1 DEF MyInterrupt
  <2>12. QED
    BY <2>1, <2>2, <2>3, <2>4, <2>5, <2>6, <2>7, <2>8, <2>9, <2>10, <2>11 DEF Loader
<1>6. QED
  BY <1>2, <1>4, <1>5 DEF IInv, DataInv

-----------------------------------------------------------------------------
(* Steps of the worker thread *)

\* No step of the worker touches the interrupt line or the module's progress,
\* and the only fault it can raise is a list_del() of an unlisted node.
LEMMA WorkerControl ==
  ASSUME IInv, fault = "none", Worker, fault' # "bad_list_del"
  PROVE  ControlInv' /\ FaultInv'
<1> USE DEF loadVars, IInv, TypeOK, ControlInv, FaultInv, Ready, StartStates
<1>1. UNCHANGED <<mod, in_irq, registered, wq, func>> /\ fault' = fault
  BY DEF Worker, WorkerTake, HandlerLock, HandlerTest, Room, Rewind, HandlerAdd,
         HandlerNoMemory, HandlerDel, HandlerUnlock
<1>2. CASE WorkerTake
  BY <1>1, <1>2 DEF WorkerTake
<1>3. CASE ~WorkerTake
  <2>1. pending' = pending /\ worker # "idle"
    BY <1>3 DEF Worker, HandlerLock, HandlerTest, Room, Rewind, HandlerAdd,
           HandlerNoMemory, HandlerDel, HandlerUnlock
  <2>2. QED
    BY <1>1, <2>1
<1>4. QED
  BY <1>2, <1>3

\* Unlinking f[i] during the flush: by ListMatchesArray the node is the last
\* of the list, so list_del() is legal and shortens the list by one.
LEMMA FlushLoop ==
  ASSUME IInv, HandlerDel
  PROVE  /\ fault' = fault
         /\ head' \in Seq(Node)
         /\ Len(head') = Len(head) - 1
         /\ \A k \in 1..Len(head)-1 : head'[k] = head[k]
         /\ i' = i + 1
         /\ worker' = IF i + 1 < N THEN "del" ELSE "unlock"
<1> USE NAssumption DEF IInv, TypeOK
<1>1. worker = "del" /\ i < N /\ i \in Nat /\ Len(head) = N - i /\ head \in Seq(Node)
  BY DEF HandlerDel, More, HandlerInv, ListMatchesArray
<1>2. \A k \in 1..Len(head) : head[k] = f[N - k] /\ value[head[k]] = N - k
  BY <1>1 DEF ListMatchesArray
<1>3. Len(head) \in 1..Len(head) /\ head[Len(head)] = f[i] /\ value[f[i]] = i
  BY <1>1, <1>2
<1>4. Contains(head, f[i])
  BY <1>3 DEF Contains
<1>5. \A k \in 1..Len(head) : head[k] = f[i] => k = Len(head)
  BY <1>1, <1>2, <1>3
<1>6. /\ head' = RemoveAt(head, Len(head)) /\ i' = i + 1 /\ fault' = fault
      /\ worker' = IF i + 1 < N THEN "del" ELSE "unlock"
  BY <1>4, <1>5 DEF HandlerDel, More
<1>7. Len(head) \in Nat \ {0}
  BY <1>1
<1>8. /\ RemoveAt(head, Len(head)) \in Seq(Node)
      /\ Len(RemoveAt(head, Len(head))) = Len(head) - 1
      /\ \A k \in 1..Len(head)-1 : RemoveAt(head, Len(head))[k] = head[k]
  BY <1>1, <1>7, RemoveLastProperties
<1>9. QED
  BY <1>6, <1>8

\* Steps of the worker thread, one case per statement of work_handler(), preserve
\* the inductive invariant.
LEMMA WorkerStep ==
  ASSUME IInv, fault = "none", Worker
  PROVE  IInv'
<1> USE NAssumption, NULLAssumption DEF loadVars
<1>1. CASE WorkerTake \/ HandlerLock \/ HandlerUnlock
  <2>1. TypeOK' /\ fault' = fault
    <3>1. /\ UNCHANGED <<mod, in_irq, registered, wq, func, fault>>
          /\ UNCHANGED <<moving_val, f, value, head, heap, printed>>
      BY <1>1 DEF WorkerTake, HandlerLock, HandlerUnlock, listVars
    <3>2. /\ pending' \in BOOLEAN /\ locked' \in BOOLEAN
          /\ worker' \in WorkerStates /\ i' \in 0..N
      BY <1>1 DEF IInv, TypeOK, WorkerTake, HandlerLock, HandlerUnlock,
                  listVars, WorkerStates
    <3>3. QED
      BY <3>1, <3>2 DEF IInv, TypeOK
  <2>2. DataInv'
    <3>1. /\ worker # "del" /\ worker' \notin {"del", "kmalloc"}
          /\ UNCHANGED <<moving_val, f, value, head, heap, printed>>
      BY <1>1 DEF WorkerTake, HandlerLock, HandlerUnlock, listVars
    <3>2. worker' = "test" => i' = 0
      BY <1>1 DEF WorkerTake, HandlerLock, HandlerUnlock
    <3>3. HandlerInv' /\ HeadAllocated' /\ FlushPrintsBatch'
      BY <3>1, <3>2 DEF IInv, HandlerInv, HeadAllocated, FlushPrintsBatch
    <3>4. ListMatchesArray'
      BY <3>1 DEF IInv, ListMatchesArray
    <3>5. QED
      BY <3>3, <3>4 DEF DataInv
  <2>3. ControlInv' /\ FaultInv'
    BY <2>1, WorkerControl
  <2>4. QED
    BY <2>1, <2>2, <2>3 DEF IInv, DataInv
<1>2. CASE HandlerTest
  <2>1. /\ worker = "test" /\ UNCHANGED <<mod, in_irq, pending, locked, fault, registered, wq, func>>
        /\ UNCHANGED <<i, f, value, head, heap>>
    BY <1>2 DEF HandlerTest, Room, Rewind
  <2>2. CASE moving_val < N
    <3>1. worker' = "kmalloc" /\ UNCHANGED <<moving_val, printed>>
      BY <1>2, <2>2 DEF HandlerTest, Room, Rewind
    <3>2. TypeOK'
      BY <2>1, <3>1 DEF IInv, TypeOK, WorkerStates
    <3>3. HandlerInv' /\ HeadAllocated' /\ FlushPrintsBatch'
      BY <2>1, <2>2, <3>1 DEF IInv, HandlerInv, HeadAllocated, FlushPrintsBatch
    <3>4. ListMatchesArray'
      BY <2>1, <3>1 DEF IInv, ListMatchesArray
    <3>5. ControlInv' /\ FaultInv'
      BY <2>1, WorkerControl DEF Faults
    <3>6. QED
      BY <3>2, <3>3, <3>4, <3>5 DEF IInv
  <2>3. CASE ~(moving_val < N)
    <3>1. worker' = "del" /\ moving_val' = 0 /\ printed' = PrintList
      BY <1>2, <2>3 DEF HandlerTest, Room, Rewind
    <3>2. moving_val = N /\ Len(head) = N
      BY <2>1, <2>3 DEF IInv, TypeOK, ListMatchesArray
    <3>3. \A k \in 1..N : head[k] = f[N - k] /\ value[head[k]] = N - k
      BY <2>1, <3>2 DEF IInv, ListMatchesArray
    <3>4. PrintList = [k \in 1..N |-> N - k]
      BY <3>2, <3>3 DEF PrintList
    <3>5. [k \in 1..N |-> N - k] \in Seq(0..N-1)
      OBVIOUS
    <3>6. TypeOK'
      BY <2>1, <3>1, <3>4, <3>5 DEF IInv, TypeOK, WorkerStates
    <3>7. FlushPrintsBatch'
      BY <3>1, <3>4 DEF FlushPrintsBatch
    <3>8. HeadAllocated'
      BY <2>1 DEF IInv, HeadAllocated
    <3>9. i = 0
      BY <2>1 DEF IInv, HandlerInv
    <3>10. HandlerInv'
      BY <2>1, <3>1, <3>9 DEF HandlerInv
    <3>11. ListMatchesArray'
      BY <2>1, <3>1, <3>2, <3>3, <3>9 DEF ListMatchesArray
    <3>12. ControlInv' /\ FaultInv'
      BY <2>1, WorkerControl
    <3>13. QED
      BY <3>6, <3>7, <3>8, <3>10, <3>11, <3>12 DEF IInv
  <2>4. QED
    BY <2>2, <2>3
<1>3. CASE HandlerAdd
  <2>1. PICK n \in Node \ heap :
          /\ heap' = heap \cup {n}
          /\ f' = [f EXCEPT ![moving_val] = n]
          /\ value' = [value EXCEPT ![n] = moving_val]
          /\ head' = Cons(n, head)
    BY <1>3 DEF HandlerAdd
  <2>2. /\ worker = "kmalloc" /\ worker' = "unlock"
        /\ moving_val' = moving_val + 1
        /\ UNCHANGED <<mod, in_irq, pending, locked, fault, registered, wq, func, i, printed>>
    BY <1>3 DEF HandlerAdd
  <2>3. moving_val \in 0..N-1 /\ Len(head) = moving_val
    BY <2>2 DEF IInv, TypeOK, HandlerInv, ListMatchesArray
  <2>4. \A k \in 1..Len(head) : head[k] = f[moving_val - k] /\ value[head[k]] = moving_val - k
    BY <2>2 DEF IInv, ListMatchesArray
  <2>5. head \in Seq(Node)
    BY DEF IInv, TypeOK
  <2>6. /\ head' \in Seq(Node)
        /\ Len(head') = moving_val + 1
        /\ head'[1] = n
        /\ \A k \in 2..moving_val+1 : head'[k] = head[k-1]
    <3> n \in Node
      OBVIOUS
    <3>1. /\ Cons(n, head) \in Seq(Node)
          /\ Len(Cons(n, head)) = Len(head) + 1
          /\ Cons(n, head)[1] = n
          /\ \A k \in 2..Len(head)+1 : Cons(n, head)[k] = head[k-1]
      BY <2>5 DEF Cons
    <3>2. QED
      BY <2>1, <2>3, <3>1
  <2>7. TypeOK'
    <3>1. f' \in [0..N-1 -> Node \cup {NULL}] /\ value' \in [Node -> 0..N-1]
      BY <2>1, <2>3 DEF IInv, TypeOK
    <3>2. moving_val' \in 0..N /\ heap' \in SUBSET Node /\ worker' \in WorkerStates
      BY <2>1, <2>2, <2>3 DEF IInv, TypeOK, WorkerStates
    <3>3. QED
      BY <2>2, <2>6, <3>1, <3>2 DEF IInv, TypeOK
  <2>8. HandlerInv' /\ FlushPrintsBatch'
    BY <2>2 DEF IInv, HandlerInv, FlushPrintsBatch
  <2>9. HeadAllocated'
    <3>1. \A k \in 1..Len(head) : head[k] \in heap
      BY DEF IInv, HeadAllocated
    <3>2. \A k \in 2..moving_val+1 : head[k-1] \in heap
      BY <2>3, <3>1
    <3>3. QED
      BY <2>1, <2>3, <2>6, <3>2 DEF HeadAllocated
  <2>10. ListMatchesArray'
    <3>1. f \in [0..N-1 -> Node \cup {NULL}] /\ value \in [Node -> 0..N-1]
      BY DEF IInv, TypeOK
    <3>2. f'[moving_val] = n /\ value'[n] = moving_val
      BY <2>1, <2>3, <3>1
    <3>3. ASSUME NEW k \in 2..moving_val+1
          PROVE  head'[k] = f'[moving_val + 1 - k] /\ value'[head'[k]] = moving_val + 1 - k
      <4>1. k - 1 \in 1..Len(head) /\ head'[k] = head[k-1]
        BY <2>3, <2>6
      <4>2. head[k-1] = f[moving_val - (k-1)] /\ value[head[k-1]] = moving_val - (k-1)
        BY <2>4, <4>1
      <4>3. head[k-1] \in heap /\ head[k-1] # n /\ head[k-1] \in Node
        BY <2>1, <2>5, <4>1 DEF IInv, HeadAllocated
      <4>4. f'[moving_val - (k-1)] = f[moving_val - (k-1)]
        BY <2>1, <2>3, <3>1
      <4>5. value'[head[k-1]] = value[head[k-1]]
        BY <2>1, <3>1, <4>3
      <4>6. moving_val + 1 - k = moving_val - (k-1)
        BY <2>3
      <4>7. QED
        BY <4>1, <4>2, <4>4, <4>5, <4>6
    <3>4. \A k \in 1..Len(head') :
            head'[k] = f'[moving_val' - k] /\ value'[head'[k]] = moving_val' - k
      BY <2>2, <2>3, <2>6, <3>2, <3>3
    <3>5. QED
      BY <2>2, <2>6, <3>4 DEF ListMatchesArray
  <2>11. ControlInv' /\ FaultInv'
    BY <2>2, WorkerControl
  <2>12. QED
    BY <2>7, <2>8, <2>9, <2>10, <2>11 DEF IInv
<1>4. CASE HandlerNoMemory
  <2>1. /\ worker = "kmalloc" /\ worker' = "idle"
        /\ f' = [f EXCEPT ![moving_val] = NULL]
        /\ UNCHANGED <<mod, in_irq, pending, locked, fault, registered, wq, func>>
        /\ UNCHANGED <<i, moving_val, value, head, heap, printed>>
    BY <1>4 DEF HandlerNoMemory
  <2>2. moving_val \in 0..N-1 /\ Len(head) = moving_val
    BY <2>1 DEF IInv, TypeOK, HandlerInv, ListMatchesArray
  <2>3. TypeOK'
    BY <2>1, <2>2 DEF IInv, TypeOK, WorkerStates
  <2>4. HandlerInv' /\ HeadAllocated' /\ FlushPrintsBatch'
    BY <2>1 DEF IInv, HandlerInv, HeadAllocated, FlushPrintsBatch
  <2>5. ListMatchesArray'
    <3>1. \A k \in 1..Len(head) : f'[moving_val - k] = f[moving_val - k]
      BY <2>1, <2>2 DEF IInv, TypeOK
    <3>2. QED
      BY <2>1, <2>2, <3>1 DEF IInv, ListMatchesArray
  <2>6. ControlInv' /\ FaultInv'
    BY <2>1, WorkerControl
  <2>7. QED
    BY <2>3, <2>4, <2>5, <2>6 DEF IInv
<1>5. CASE HandlerDel
  <2>1. /\ worker = "del"
        /\ UNCHANGED <<mod, in_irq, pending, locked, registered, wq, func>>
        /\ UNCHANGED <<moving_val, f, value, heap, printed>>
    BY <1>5 DEF HandlerDel, More
  <2>2. /\ fault' = fault
        /\ head' \in Seq(Node)
        /\ Len(head') = Len(head) - 1
        /\ \A k \in 1..Len(head)-1 : head'[k] = head[k]
        /\ i' = i + 1
        /\ worker' = IF i + 1 < N THEN "del" ELSE "unlock"
    BY <1>5, FlushLoop
  <2>3. i \in 0..N-1 /\ moving_val = 0 /\ Len(head) = N - i
    BY <2>1 DEF IInv, TypeOK, HandlerInv, ListMatchesArray
  <2>4. TypeOK'
    BY <2>1, <2>2, <2>3 DEF IInv, TypeOK, WorkerStates
  <2>5. HandlerInv' /\ FlushPrintsBatch'
    BY <2>1, <2>2, <2>3 DEF IInv, HandlerInv, FlushPrintsBatch
  <2>6. HeadAllocated'
    BY <2>1, <2>2, <2>3 DEF IInv, HeadAllocated
  <2>7. ListMatchesArray'
    <3>1. \A k \in 1..Len(head)-1 : head'[k] = f[N - k] /\ value[head'[k]] = N - k
      BY <2>1, <2>2, <2>3 DEF IInv, ListMatchesArray
    <3>2. CASE i + 1 < N
      BY <2>1, <2>2, <2>3, <3>1, <3>2 DEF ListMatchesArray
    <3>3. CASE ~(i + 1 < N)
      BY <2>1, <2>2, <2>3, <3>3 DEF ListMatchesArray
    <3>4. QED
      BY <3>2, <3>3
  <2>8. ControlInv' /\ FaultInv'
    BY <2>2, WorkerControl
  <2>9. QED
    BY <2>4, <2>5, <2>6, <2>7, <2>8 DEF IInv
<1>6. QED
  BY <1>1, <1>2, <1>3, <1>4, <1>5 DEF Worker

-----------------------------------------------------------------------------
\* The inductive invariant holds in every reachable state, for every batch
\* size and every heap.
THEOREM Invariance == Spec => []IInv
<1>1. ASSUME IInv, [Next]_vars PROVE IInv'
  <2>1. CASE Next
    BY <1>1, <2>1, LoaderStep, WorkerStep DEF Next
  <2>2. CASE UNCHANGED vars
    <3>1. DataInv'
      BY <1>1, <2>2, DataStutter DEF IInv, DataInv, vars
    <3>2. TypeOK'
      BY <1>1, <2>2 DEF IInv, TypeOK, vars, loadVars, listVars
    <3>3. ControlInv' /\ FaultInv'
      BY <1>1, <2>2 DEF IInv, ControlInv, FaultInv, Ready, vars, loadVars
    <3>4. QED
      BY <3>1, <3>2, <3>3 DEF IInv, DataInv
  <2>3. QED
    BY <1>1, <2>1, <2>2
<1>2. QED
  BY InitIInv, <1>1, PTL DEF Spec

\* Every variable keeps its type, whatever the batch size: moving_val stays
\* within f[] (code.c:61, 174-185).
THEOREM TypeCorrect == Spec => []TypeOK
<1>1. IInv => TypeOK
  BY DEF IInv
<1>2. QED
  BY <1>1, Invariance, PTL

\* The linked list and the array f[] always describe the same batch
\* (code.c:174-195).
THEOREM ListCorrect == Spec => []ListMatchesArray
<1>1. IInv => ListMatchesArray
  BY DEF IInv
<1>2. QED
  BY <1>1, Invariance, PTL

\* Every flush prints one complete batch (code.c:188-195, 199-207).
THEOREM FlushCorrect == Spec => []FlushPrintsBatch
<1>1. IInv => FlushPrintsBatch
  BY DEF IInv
<1>2. QED
  BY <1>1, Invariance, PTL

\* A module that was set up completely never faults, up to and including its
\* removal (code.c:107, 146-155, 193).
THEOREM FaultFree == Spec => []NoFaultOnceReady
<1>1. IInv => NoFaultOnceReady
  BY DEF IInv, FaultInv, NoFaultOnceReady
<1>2. QED
  BY <1>1, Invariance, PTL

\* After stops(), or a failed start(), nothing is left that would run code of
\* the module (code.c:143-158).
THEOREM UnloadQuiet == Spec => []QuietAfterUnload
<1>1. IInv => QuietAfterUnload
  BY DEF IInv, ControlInv, QuietAfterUnload, StartStates
<1>2. QED
  BY <1>1, Invariance, PTL

=============================================================================
