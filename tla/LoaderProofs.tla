---------------------------- MODULE LoaderProofs ----------------------------
(***************************************************************************)
(* Proofs about Loader, for every number of pages, list nodes and          *)
(* processes.  Each invariant says what the kernel's state is at every     *)
(* statement of the directories that use it, and that all other            *)
(* directories leave it alone.                                             *)
(***************************************************************************)
EXTENDS Loader, TLAPS

\* The statements of spinlock, those before spin_trylock() has been called, and
\* those of mutex1 at which the mutex is held.
SpinBefore == {"spin_lock_init", "spin_lock", "spin_is_locked", "spin_trylock", "live", "gone"}

SpinLabels == SpinSection \cup SpinBefore
                \cup {"spin_lock_irqsave", "spin_lock_irq", "spin_lock_bh", "return"}

MutexHeld == {"mutex_is_locked", "mutex_trylock",
              "mutex_unlock_1", "mutex_unlock_2", "mutex_unlock_3"}

\* The context of the CPU and the lock word, statement by statement.
ContextInv ==
  /\ smp \in BOOLEAN /\ preempt_count \in Nat
  /\ dir # "spinlock" => preempt_count = 0 /\ bh = "on" /\ irqs = "on"
  /\ dir = "spinlock" =>
       /\ pc \in SpinLabels
       /\ pc \in SpinSection /\ (smp \/ pc \in SpinBefore) => preempt_count = 1
       /\ pc \in SpinSection /\ ~smp /\ pc \notin SpinBefore => preempt_count = 2
       /\ pc \notin SpinSection /\ (smp \/ pc \in SpinBefore) => preempt_count = 0
       /\ pc \notin SpinSection /\ ~smp /\ pc \notin SpinBefore => preempt_count = 1
       /\ pc # "spin_unlock_bh" => bh = "on"
       /\ pc \notin {"spin_unlock_irqrestore", "spin_unlock_irq"} => irqs = "on"
       /\ pc \in {"spin_unlock_irqrestore", "spin_unlock_irq"} => irqs = "off" /\ cpu # "irq"
       /\ pc = "spin_unlock_irqrestore" => flag = "on"
       /\ pc \notin SpinSection => sl = "free"
       /\ pc \in SpinSection => sl = (IF smp THEN "taken" ELSE "free") /\ cpu # "task"

MutexInv ==
  /\ pc \in MutexHeld => dir = "mutex1"
  /\ dir = "mutex1" => m = IF pc \in MutexHeld THEN "start" ELSE "free"

\* The block that is held at the statement the task stands at.
Held ==
  IF dir = "memory1" /\ pc = "free_page" THEN [kind |-> "pages", pages |-> 1]
  ELSE IF dir = "memory1" /\ pc \in {"free_pages_1", "free_pages_2"}
         THEN [kind |-> "pages", pages |-> 8]
  ELSE IF dir = "memory2" /\ pc \in {"kzfree", "kfree"} THEN [kind |-> "slab", pages |-> 0]
  ELSE IF dir = "memory2" /\ pc = "vfree" THEN [kind |-> "vmalloc", pages |-> 10]
  ELSE IF dir = "memory2" /\ pc \in {"kmap", "kunmap", "free_highmem"}
         THEN [kind |-> "pages", pages |-> 8]
  ELSE NoBlock

MemoryInv ==
  /\ free_pages \in Nat
  /\ block = Held
  /\ free_pages + block.pages = PAGES
  /\ kmaps = IF dir = "memory2" /\ pc = "kunmap" THEN 1 ELSE 0
  /\ fault # "bad_free"

\* The loop that frees the nodes of link_list has freed those before index i.
NodesInv ==
  dir = "link_list" =>
    /\ i \in 0 .. NODES - 1
    /\ fvar \subseteq 0 .. NODES - 1
    /\ pc \notin {"kmalloc", "list_add", "kfree", "error"} => i = 0
    /\ pc = "kfree" => \A k \in fvar : k >= i
    /\ pc \in {"return", "live"} => fvar = {}

\* The statements of the exit functions up to which a registration may exist,
\* and up to which a call may be in progress.
HandlersInv ==
  /\ action => dir = "interrupt01" /\ pc \in {"return", "live", "synchronize_irq", "free_irq"}
  /\ in_irq => dir = "interrupt01"
                 /\ pc \in {"return", "live", "synchronize_irq", "free_irq", "wait_irq"}
  /\ probe => dir \in {"kprobe", "kprobe1"} /\ pc \in {"return", "live", "unregister_kprobe"}
  /\ hit # "none" => dir \in {"kprobe", "kprobe1"}
                       /\ pc \in {"return", "live", "unregister_kprobe", "wait_hits"}

-----------------------------------------------------------------------------
(* Which directory a statement belongs to, and what it leaves alone *)

\* Every directory a module can be loaded from has an entry.
LEMMA DirsKnown ==
  Dirs = {"spinlock", "mutex1", "memory1", "memory2", "link_list", "radix_tree",
          "interrupt01", "kprobe", "kprobe1", "task_struct"}
  BY DEF Dirs, Entry

\* The statements that are not spinlock's belong to other directories.
LEMMA StatementDir ==
  /\ Spinlock => dir = "spinlock"
  /\ Mutex1 => dir = "mutex1"
  /\ Memory1 => dir = "memory1"
  /\ Memory2 => dir = "memory2"
  /\ LinkList => dir = "link_list"
  /\ RadixTree => dir = "radix_tree"
  /\ Registration => dir \in {"interrupt01", "kprobe", "kprobe1"}
  /\ Walk => dir = "task_struct"
<1>1. Spinlock => dir = "spinlock"
  BY DEF Spinlock, Goto, SpinLockInit, SpinLock, SpinTake, SpinDrop, SpinIsLocked, SpinTrylock,
     SpinUnlock, SpinLockIrqsave, SpinUnlockIrqrestore, SpinLockIrq, SpinUnlockIrq, SpinLockBh,
     SpinUnlockBh
<1>2. Mutex1 => dir = "mutex1"
  BY DEF Mutex1, Goto, MutexInit, MutexLock, MutexIsLocked, MutexTrylock, MutexLockSignal,
     MutexUnlock
<1>3. Memory1 => dir = "memory1"
  BY DEF Memory1, MemPage, MemPages, MemAddress, Alloc, Free, Goto
<1>4. Memory2 => dir = "memory2"
  BY DEF Memory2, MemZeroed, MemObject, MemVirtual, MemHigh, Kmap, Alloc, Free, Goto
<1>5. LinkList => dir = "link_list"
  BY DEF LinkList, ListAlloc, ListAdd, PrintList, ListAddTail, ListDel, ListFree, Goto
<1>6. RadixTree => dir = "radix_tree"
  BY DEF RadixTree, RadixInsert, RadixLookup, RadixDelete, Goto
<1>7. Registration => dir \in {"interrupt01", "kprobe", "kprobe1"}
  BY DEF Registration, RequestIrq, FreeIrq, WaitIrq, KallsymsLookupName, RegisterKprobe,
     UnregisterKprobe, WaitHits, Goto
<1>8. Walk => dir = "task_struct"
  BY DEF Walk, WalkBegin, WalkStep, WalkEnd, Goto
<1>9. QED
  BY <1>1, <1>2, <1>3, <1>4, <1>5, <1>6, <1>7, <1>8

\* No statement changes the directory that is loaded.
LEMMA StatementKeepsDir == ASSUME Statement PROVE dir' = dir
<1>1. Spinlock \/ Mutex1 => dir' = dir
  BY DEF Spinlock, Goto, SpinLockInit, SpinLock, SpinTake, SpinDrop, SpinIsLocked, SpinTrylock,
     SpinUnlock, SpinLockIrqsave, SpinUnlockIrqrestore, SpinLockIrq, SpinUnlockIrq, SpinLockBh,
     SpinUnlockBh, Mutex1, MutexInit, MutexLock, MutexIsLocked, MutexTrylock, MutexLockSignal,
     MutexUnlock
<1>2. Memory1 \/ Memory2 => dir' = dir
  BY DEF Memory1, MemPage, MemPages, MemAddress, Memory2, MemZeroed, MemObject, MemVirtual,
     MemHigh, Kmap, Alloc, Free, Goto
<1>3. LinkList \/ RadixTree => dir' = dir
  BY DEF LinkList, ListAlloc, ListAdd, PrintList, ListAddTail, ListDel, ListFree,
     RadixTree, RadixInsert, RadixLookup, RadixDelete, Goto
<1>4. Registration => dir' = dir
  BY DEF Registration, RequestIrq, FreeIrq, WaitIrq, KallsymsLookupName, RegisterKprobe,
     UnregisterKprobe, WaitHits, Goto
<1>5. Walk => dir' = dir
  BY DEF Walk, WalkBegin, WalkStep, WalkEnd, Goto
<1>6. QED
  BY <1>1, <1>2, <1>3, <1>4, <1>5 DEF Statement

-----------------------------------------------------------------------------
(* Handlers *)

\* Every step keeps registrations and calls within their module's lifetime.
LEMMA HandlersStep == ASSUME HandlersInv, [Next]_vars PROVE HandlersInv'
<1> USE DEF HandlersInv, handlersVars
<1>1. CASE Load
  BY <1>1 DEF Load, Insmod
<1>2. CASE Unload
  BY <1>2 DEF Unload, Rmmod, ExitEntry
<1>3. CASE LoaderStep
  BY <1>3 DEF LoaderStep, DoOneInitcall, FreeModule
<1>4. CASE Registration
  <2>1. CASE RequestIrq \/ FreeIrq \/ WaitIrq
    BY <2>1 DEF RequestIrq, FreeIrq, WaitIrq, Goto
  <2>2. CASE KallsymsLookupName
    BY <2>2 DEF KallsymsLookupName
  <2>3. ASSUME NEW d \in {"kprobe", "kprobe1"},
               RegisterKprobe(d) \/ UnregisterKprobe(d) \/ WaitHits(d)
        PROVE  HandlersInv'
    BY <2>3 DEF RegisterKprobe, UnregisterKprobe, WaitHits, Goto
  <2>4. QED
    BY <1>4, <2>1, <2>2, <2>3 DEF Registration
<1>5. CASE Statement /\ ~Registration
  <2>1. dir \notin {"interrupt01", "kprobe", "kprobe1"} /\ dir' = dir /\ UNCHANGED handlersVars
    BY <1>5, StatementDir, StatementKeepsDir DEF Statement
  <2>2. QED
    BY <2>1
<1>6. CASE Synchronize
  BY <1>6 DEF Synchronize, SynchronizeIrq, Goto
<1>7. CASE Away \/ Back
  BY <1>7 DEF Away, Back, Switch, Irq, Resume
<1>8. CASE Call \/ CallEnds
  BY <1>8 DEF Call, CallEnds, MyInterrupt, PreHandler, HandlerEnds, MyInterruptReturns,
     PostHandler, PostHandlerReturns
<1>9. CASE Others
  BY <1>9 DEF Others
<1>10. CASE UNCHANGED vars
  BY <1>10 DEF vars
<1>11. QED
  BY <1>1, <1>2, <1>3, <1>4, <1>5, <1>6, <1>7, <1>8, <1>9, <1>10 DEF Next, Self

\* The kernel runs no handler of a module that is not loaded, and keeps no
\* registration of one.
THEOREM HandlersSafe == Spec => []HandlersHaveText
<1>1. Init => HandlersInv
  BY DEF Init, HandlersInit, HandlersInv
<1>2. HandlersInv => HandlersHaveText
  BY DEF HandlersInv, HandlersHaveText
<1>3. QED
  BY <1>1, <1>2, HandlersStep, PTL DEF Spec

-----------------------------------------------------------------------------
(* Memory *)

\* Allocating and freeing keep the books.
LEMMA AllocStep ==
  ASSUME MemoryInv, NEW d, NEW a, NEW k, NEW n \in Nat, NEW b,
         block = NoBlock, Alloc(d, a, k, n, b)
  PROVE  /\ free_pages' \in Nat
         /\ free_pages' + block'.pages = PAGES
         /\ fault' # "bad_free"
         /\ kmaps' = kmaps
         /\ dir = d /\ dir' = d /\ pc = a
         /\ \/ pc' = b /\ block' = [kind |-> k, pages |-> n]
            \/ pc' = "error" /\ block' = NoBlock
<1>1. PAGES \in Nat /\ free_pages \in Nat /\ free_pages + 0 = PAGES /\ fault # "bad_free"
  BY PagesAssumption DEF MemoryInv, NoBlock
<1>2. dir = d /\ dir' = d /\ pc = a /\ kmaps' = kmaps /\ fault' = fault
  BY DEF Alloc
<1>3. CASE pc' = "error" /\ UNCHANGED <<free_pages, block>>
  BY <1>1, <1>2, <1>3 DEF NoBlock
<1>4. CASE /\ n <= free_pages /\ free_pages' = free_pages - n
           /\ block' = [kind |-> k, pages |-> n] /\ pc' = b
  <2>1. free_pages' \in Nat /\ free_pages' + n = PAGES /\ block'.pages = n
    BY <1>1, <1>4
  <2> QED
    BY <1>1, <1>2, <1>4, <2>1
<1> QED
  BY <1>3, <1>4 DEF Alloc

\* The same for Free.
LEMMA FreeStep ==
  ASSUME MemoryInv, NEW d, NEW a, NEW k, NEW n \in Nat, NEW b,
         block = [kind |-> k, pages |-> n], Free(d, a, k, n, b)
  PROVE  /\ free_pages' \in Nat
         /\ free_pages' + block'.pages = PAGES
         /\ fault' # "bad_free"
         /\ kmaps' = kmaps
         /\ dir = d /\ dir' = d /\ pc = a
         /\ pc' = b /\ block' = NoBlock
  BY PagesAssumption DEF MemoryInv, Free, Goto, NoBlock

\* Every step of every module keeps the pages accounted for.
LEMMA MemoryStep == ASSUME MemoryInv, [Next]_vars PROVE MemoryInv'
<1>1. CASE MemPage
  BY <1>1, AllocStep, FreeStep DEF MemPage, MemoryInv, Held, Alloc, Free, Goto, NoBlock
<1>2. CASE MemPages
  BY <1>2, AllocStep, FreeStep DEF MemPages, MemoryInv, Held, Alloc, Free, Goto, NoBlock
<1>3. CASE MemAddress
  BY <1>3, AllocStep, FreeStep DEF MemAddress, MemoryInv, Held, Alloc, Free, Goto, NoBlock
<1>4. CASE MemZeroed
  BY <1>4, AllocStep, FreeStep DEF MemZeroed, MemoryInv, Held, Alloc, Free, Goto, NoBlock
<1>5. CASE MemObject
  BY <1>5, AllocStep, FreeStep DEF MemObject, MemoryInv, Held, Alloc, Free, Goto, NoBlock
<1>6. CASE MemVirtual
  BY <1>6, AllocStep, FreeStep DEF MemVirtual, MemoryInv, Held, Alloc, Free, Goto, NoBlock
<1>7. CASE MemHigh
  <2>1. CASE Kmap("kmap", 1, "kunmap") \/ Kmap("kunmap", -1, "free_highmem")
    BY <2>1 DEF Kmap, Goto, MemoryInv, Held, NoBlock
  <2>2. QED
    BY <1>7, <2>1, AllocStep, FreeStep DEF MemHigh, MemoryInv, Held, Alloc, Free, Goto, NoBlock
<1>8. CASE Statement /\ ~Memory1 /\ ~Memory2
  <2>1. dir \notin {"memory1", "memory2"} /\ dir' = dir /\ UNCHANGED memoryVars
    BY <1>8, StatementDir, StatementKeepsDir DEF Statement
  <2>2. fault' # "bad_free"
    BY <1>8 DEF MemoryInv, Statement, Walk, WalkBegin, WalkStep, WalkEnd
  <2>3. QED
    BY <2>1, <2>2 DEF MemoryInv, Held, memoryVars
<1>9. CASE Load
  <2>1. /\ dir = "none" /\ pc' = Entry[dir'] /\ dir' \in Dirs /\ UNCHANGED fault
        /\ block' = NoBlock /\ kmaps' = 0 /\ UNCHANGED free_pages
    BY <1>9 DEF Load, Insmod, MemoryLoad, kernelVars
  <2>2. pc' \notin {"free_page", "free_pages_1", "free_pages_2", "kzfree", "kfree", "vfree",
                    "kmap", "kunmap", "free_highmem"}
    BY <2>1, DirsKnown DEF Entry
  <2>3. QED
    BY <2>1, <2>2 DEF MemoryInv, Held
<1>10. CASE Unload
  BY <1>10 DEF Unload, Rmmod, ExitEntry, MemoryInv, Held, memoryVars, kernelVars
<1>11. CASE LoaderStep
  BY <1>11 DEF LoaderStep, DoOneInitcall, FreeModule, MemoryInv, Held, memoryVars, kernelVars
<1>12. CASE Synchronize
  BY <1>12 DEF Synchronize, SynchronizeIrq, Goto, MemoryInv, Held, memoryVars, kernelVars
<1>13. CASE Away \/ Back
  BY <1>13 DEF Away, Back, Switch, Irq, Resume, MemoryInv, Held, memoryVars
<1>14. CASE Call \/ CallEnds \/ Others
  BY <1>14 DEF Call, CallEnds, Others, MemoryInv, Held, memoryVars, kernelVars
<1>15. CASE UNCHANGED vars
  BY <1>15 DEF vars, MemoryInv, Held, memoryVars, kernelVars
<1>16. QED
  BY <1>1, <1>2, <1>3, <1>4, <1>5, <1>6, <1>7, <1>8, <1>9, <1>10, <1>11, <1>12, <1>13, <1>14,
     <1>15 DEF Next, Self, Memory1, Memory2

\* The loops of link_list leave i at 0 when they end.
LEMMA WrapIndex ==
  ASSUME NEW k \in 0 .. NODES - 1
  PROVE  (k + 1) % NODES = IF k + 1 = NODES THEN 0 ELSE k + 1
  BY NodesAssumption

\* Every step keeps the loops of link_list within the array and in order.
LEMMA NodesStep == ASSUME NodesInv, [Next]_vars PROVE NodesInv'
<1> USE NodesAssumption DEF NodesInv
<1>1. CASE ListAlloc
  BY <1>1 DEF ListAlloc
<1>2. CASE ListAdd
  <2>1. i' = (i + 1) % NODES
    BY <1>2 DEF ListAdd
  <2>2. /\ dir = "link_list" /\ pc = "list_add"
        /\ pc' = IF i + 1 = NODES THEN "print_1" ELSE pc
        /\ UNCHANGED <<dir, fvar>>
    BY <1>2 DEF ListAdd
  <2>3. QED
    BY <2>1, <2>2, WrapIndex
<1>3. CASE ListFree
  BY <1>3 DEF ListFree
<1>4. CASE LinkList /\ ~ListAlloc /\ ~ListAdd /\ ~ListFree
  <2>1. pc \notin {"kmalloc", "list_add", "kfree", "error", "return", "live"} /\ dir = "link_list"
    BY <1>4 DEF LinkList, PrintList, ListAddTail, ListDel, Goto
  <2>2. UNCHANGED <<i, fvar, dir>> /\ pc' \notin {"return", "live"}
    BY <1>4 DEF LinkList, PrintList, ListAddTail, ListDel, Goto
  <2>3. QED
    BY <2>1, <2>2
<1>5. CASE Statement /\ ~LinkList
  BY <1>5, StatementDir, StatementKeepsDir DEF Statement
<1>6. CASE Load
  BY <1>6 DEF Load, Insmod, ContainersLoad, Entry
<1>7. CASE Unload \/ LoaderStep
  BY <1>7 DEF Unload, Rmmod, ExitEntry, LoaderStep, DoOneInitcall, FreeModule, containersVars
<1>8. CASE Synchronize
  BY <1>8 DEF Synchronize, SynchronizeIrq, Goto
<1>9. CASE Away \/ Back
  BY <1>9 DEF Away, Back, Switch, Irq, Resume, containersVars
<1>10. CASE Call \/ CallEnds \/ Others
  BY <1>10 DEF Call, CallEnds, Others, containersVars
<1>11. CASE UNCHANGED vars
  BY <1>11 DEF vars, containersVars
<1>12. QED
  BY <1>1, <1>2, <1>3, <1>4, <1>5, <1>6, <1>7, <1>8, <1>9, <1>10, <1>11 DEF Next, Self

\* Every return path of memory1 and memory2, and the successful one of link_list,
\* gives back what was allocated, for every number of pages and nodes.
THEOREM MemorySafe == Spec => []MemoryReturned
<1>1. Init => MemoryInv
  <2> SUFFICES ASSUME Init PROVE MemoryInv
    OBVIOUS
  <2>1. dir = "none" /\ pc = "none" /\ fault = "none"
    BY DEF Init, CodeKoInit
  <2>2. free_pages = PAGES /\ block = NoBlock /\ kmaps = 0
    BY DEF Init, MemoryInit
  <2>3. Held = NoBlock
    BY <2>1 DEF Held
  <2>4. QED
    BY <2>1, <2>2, <2>3, PagesAssumption DEF MemoryInv, NoBlock
<1>2. Init => NodesInv
  BY DEF Init, CodeKoInit, NodesInv
<1>3. MemoryInv => /\ fault # "bad_free"
                   /\ pc \in Returned => block = NoBlock /\ free_pages = PAGES
                   /\ kmaps > 0 => block.kind = "pages"
  <2> SUFFICES ASSUME MemoryInv
               PROVE  /\ fault # "bad_free"
                      /\ pc \in Returned => block = NoBlock /\ free_pages = PAGES
                      /\ kmaps > 0 => block.kind = "pages"
    OBVIOUS
  <2>1. pc \in Returned => Held = NoBlock
    BY DEF Held, Returned
  <2>2. pc \in Returned => block = NoBlock /\ free_pages = PAGES
    BY <2>1, PagesAssumption DEF MemoryInv, NoBlock
  <2>3. ASSUME kmaps > 0 PROVE block.kind = "pages"
    <3>1. dir = "memory2" /\ pc = "kunmap" /\ block = Held
      BY <2>3 DEF MemoryInv
    <3>2. Held = [kind |-> "pages", pages |-> 8]
      BY <3>1 DEF Held
    <3>3. QED
      BY <3>1, <3>2
  <2>4. QED
    BY <2>2, <2>3 DEF MemoryInv
<1>4. NodesInv => (dir = "link_list" /\ pc \in {"return", "live"} => fvar = {})
  BY DEF NodesInv
<1>5. MemoryInv /\ NodesInv => MemoryReturned
  BY <1>3, <1>4 DEF MemoryReturned
<1>6. QED
  BY <1>1, <1>2, <1>5, MemoryStep, NodesStep, PTL DEF Spec

-----------------------------------------------------------------------------
(* Locks and the context of the CPU *)

\* Every step keeps the context of the CPU as its statement says.
LEMMA ContextStep == ASSUME ContextInv, [Next]_vars PROVE ContextInv'
<1> USE DEF ContextInv, SpinLabels, SpinSection, SpinBefore
<1>1. ASSUME cpu = "self", UNCHANGED <<smp, cpu>>, Spinlock PROVE ContextInv'
  <2> USE <1>1 DEF Goto, Take, Drop, ctxVars
  <2>1. CASE SpinLockInit
    BY <2>1 DEF SpinLockInit
  <2>2. CASE SpinLock
    BY <2>2 DEF SpinLock, SpinTake
  <2>3. CASE SpinIsLocked
    BY <2>3 DEF SpinIsLocked
  <2>4. CASE SpinTrylock
    BY <2>4 DEF SpinTrylock
  <2>5. CASE SpinUnlock
    BY <2>5 DEF SpinUnlock, SpinDrop
  <2>6. CASE SpinLockIrqsave
    BY <2>6 DEF SpinLockIrqsave, SpinTake
  <2>7. CASE SpinUnlockIrqrestore
    BY <2>7 DEF SpinUnlockIrqrestore, SpinDrop
  <2>8. CASE SpinLockIrq
    BY <2>8 DEF SpinLockIrq, SpinTake
  <2>9. CASE SpinUnlockIrq
    BY <2>9 DEF SpinUnlockIrq, SpinDrop
  <2>10. CASE SpinLockBh
    BY <2>10 DEF SpinLockBh, SpinTake
  <2>11. CASE SpinUnlockBh
    BY <2>11 DEF SpinUnlockBh, SpinDrop
  <2>12. QED
    BY Zenon, <2>1, <2>2, <2>3, <2>4, <2>5, <2>6, <2>7, <2>8, <2>9, <2>10, <2>11 DEF Spinlock
<1>2. ASSUME UNCHANGED smp, Statement, ~Spinlock PROVE ContextInv'
  <2>1. dir # "spinlock" /\ dir' = dir
    BY <1>2, StatementDir, StatementKeepsDir DEF Statement
  <2>2. UNCHANGED <<ctxVars, flag>>
    BY <1>2 DEF Statement, Mutex1, Registration, Walk, locksVars
  <2>3. QED
    BY <1>2, <2>1, <2>2 DEF ctxVars
<1>3. CASE Load
  BY <1>3, SMTT(40) DEF Load, Insmod, LocksLoad, Entry, ctxVars, kernelVars
<1>4. CASE Unload
  BY <1>4 DEF Unload, Rmmod, ExitEntry, ctxVars, kernelVars, locksVars
<1>5. CASE LoaderStep
  BY <1>5 DEF LoaderStep, DoOneInitcall, FreeModule, ctxVars, kernelVars, locksVars
<1>6. CASE Synchronize
  BY <1>6 DEF Synchronize, SynchronizeIrq, Goto, ctxVars, kernelVars, locksVars
<1>7. CASE Away
  BY <1>7 DEF Away, Switch, Irq, Atomic, ctxVars, locksVars
<1>8. CASE Back
  BY <1>8 DEF Back, Resume, ctxVars, locksVars
<1>9. CASE Call \/ CallEnds \/ Others
  <2>1. UNCHANGED <<smp, cpu, preempt_count, bh, irqs, dir, pc, sl, flag>>
    BY <1>9 DEF Call, CallEnds, Others, ctxVars, kernelVars, locksVars
  <2>2. QED
    BY <2>1
<1>10. CASE UNCHANGED vars
  BY <1>10 DEF vars, ctxVars, kernelVars, locksVars
<1>11. QED
  BY Zenon, <1>1, <1>2, <1>3, <1>4, <1>5, <1>6, <1>7, <1>8, <1>9, <1>10 DEF Next, Self

\* Every step keeps the mutex held exactly between lock and unlock.
LEMMA MutexStep == ASSUME MutexInv, [Next]_vars PROVE MutexInv'
<1> USE DEF MutexInv, MutexHeld
<1>1. CASE Mutex1
  BY <1>1 DEF Mutex1, MutexInit, MutexLock, MutexIsLocked, MutexTrylock, MutexLockSignal,
     MutexUnlock, Goto
<1>2. CASE Statement /\ ~Mutex1
  <2>1. dir # "mutex1" /\ dir' = dir
    BY <1>2, StatementDir, StatementKeepsDir DEF Statement
  <2>2. CASE Spinlock
    BY <2>1, <2>2 DEF Spinlock, Goto, SpinLockInit, SpinLock, SpinTake, SpinDrop, SpinIsLocked,
       SpinTrylock, SpinUnlock, SpinLockIrqsave, SpinUnlockIrqrestore, SpinLockIrq,
       SpinUnlockIrq, SpinLockBh, SpinUnlockBh
  <2>3. CASE Memory1
    BY <2>1, <2>3 DEF Memory1, MemPage, MemPages, MemAddress, Alloc, Free, Goto
  <2>4. CASE Memory2
    BY <2>1, <2>4 DEF Memory2, MemZeroed, MemObject, MemVirtual, MemHigh, Kmap, Alloc, Free, Goto
  <2>5. CASE LinkList
    BY <2>1, <2>5 DEF LinkList, ListAlloc, ListAdd, PrintList, ListAddTail, ListDel, ListFree, Goto
  <2>6. CASE RadixTree
    BY <2>1, <2>6 DEF RadixTree, RadixInsert, RadixLookup, RadixDelete, Goto
  <2>7. CASE Registration
    BY <2>1, <2>7 DEF Registration, RequestIrq, FreeIrq, WaitIrq, KallsymsLookupName,
       RegisterKprobe, UnregisterKprobe, WaitHits, Goto
  <2>8. CASE Walk
    BY <2>1, <2>8 DEF Walk, WalkBegin, WalkStep, WalkEnd, Goto
  <2>9. QED
    BY <1>2, <2>2, <2>3, <2>4, <2>5, <2>6, <2>7, <2>8 DEF Statement
<1>3. CASE Load
  BY <1>3, DirsKnown DEF Load, Insmod, LocksLoad, Entry
<1>4. CASE Unload
  BY <1>4 DEF Unload, Rmmod, ExitEntry, locksVars
<1>5. CASE LoaderStep
  BY <1>5 DEF LoaderStep, DoOneInitcall, FreeModule, locksVars
<1>6. CASE Synchronize
  BY <1>6 DEF Synchronize, SynchronizeIrq, Goto, locksVars
<1>7. CASE Away \/ Back
  BY <1>7 DEF Away, Back, Switch, Irq, Resume, locksVars
<1>8. CASE Call \/ CallEnds \/ Others
  BY <1>8 DEF Call, CallEnds, Others, locksVars
<1>9. CASE UNCHANGED vars
  BY <1>9 DEF vars, locksVars
<1>10. QED
  BY <1>1, <1>2, <1>3, <1>4, <1>5, <1>6, <1>7, <1>8, <1>9 DEF Next, Self

\* The context holds initially.
LEMMA ContextInit == Init => ContextInv /\ MutexInv
  BY DEF Init, CodeKoInit, LocksInit, ContextInv, MutexInv, MutexHeld

\* No task takes the CPU from a spin lock's section, and no interrupt from
\* one with interrupts disabled.
THEOREM SectionSafe == Spec => []SectionUndisturbed
<1>1. ContextInv => SectionUndisturbed
  BY DEF ContextInv, SectionUndisturbed
<1>2. QED
  BY <1>1, ContextInit, ContextStep, PTL DEF Spec

\* Every init function returns with bottom halves and interrupts enabled, with
\* preemption enabled on SMP, and no module sleeps in atomic context.
THEOREM ContextSafe == Spec => []ContextBalanced
<1>1. ASSUME ContextInv, pc \in {"return", "error"}
      PROVE  /\ bh = "on" /\ irqs = "on"
             /\ smp => preempt_count = 0
  BY <1>1 DEF ContextInv, SpinLabels, SpinSection, SpinBefore
<1>2. ASSUME ContextInv, pc \in Sleeping PROVE ~Atomic
  BY <1>2 DEF ContextInv, SpinLabels, SpinSection, SpinBefore, Sleeping, Atomic
<1>3. ContextInv => ContextBalanced
  BY <1>1, <1>2 DEF ContextBalanced
<1>4. QED
  BY <1>3, ContextInit, ContextStep, PTL DEF Spec

-----------------------------------------------------------------------------
(* Containers *)

\* A stack of the nodes 0, ..., n-1, and what start() leaves of it.
Stack(n) == [k \in 1 .. n |-> n - k]

Rest == SubSeq(Stack(NODES), 1, NODES - 1)

\* The list of link_list and what has been printed of it, at every statement.
ListAt ==
  \/ pc \in {"kmalloc", "error"} /\ mylist = <<>> /\ out = <<>>
  \/ pc = "list_add" /\ mylist = Stack(i) /\ out = <<>>
  \/ pc = "print_1" /\ mylist = Stack(NODES) /\ out = <<>>
  \/ pc = "list_add_tail" /\ mylist = Stack(NODES) /\ out = <<Stack(NODES)>>
  \/ pc = "print_2" /\ mylist = Append(Stack(NODES), Temp) /\ out = <<Stack(NODES)>>
  \/ pc = "list_del" /\ mylist = Append(Stack(NODES), Temp)
       /\ out = <<Stack(NODES), Append(Stack(NODES), Temp)>>
  \/ pc = "print_3" /\ mylist = Rest /\ out = <<Stack(NODES), Append(Stack(NODES), Temp)>>
  \/ pc \in {"kfree", "return", "live", "gone"} /\ mylist = Rest
       /\ out = <<Stack(NODES), Append(Stack(NODES), Temp), Rest>>

\* Its nodes are allocated from the first to the last list operation.
Allocated ==
  /\ pc = "kmalloc" => \A k \in 0 .. i - 1 : k \in fvar
  /\ pc \in {"list_add", "print_1", "list_add_tail", "print_2", "list_del", "print_3"} =>
       \A k \in 0 .. NODES - 1 : k \in fvar

\* The tree of radix_tree and what has been found in it.
TreeAt ==
  \/ pc \in {"radix_tree_insert", "error"} /\ mytree = {} /\ out = <<>>
  \/ pc = "lookup_failkey" /\ mytree = {Key} /\ out = <<>>
  \/ pc = "lookup_key" /\ mytree = {Key} /\ out = <<FALSE>>
  \/ pc = "delete_failkey" /\ mytree = {Key} /\ out = <<FALSE, TRUE>>
  \/ pc = "delete_key" /\ mytree = {Key} /\ out = <<FALSE, TRUE, FALSE>>
  \/ pc \in {"return", "live", "gone"} /\ mytree = {} /\ out = <<FALSE, TRUE, FALSE, TRUE>>

\* Only link_list uses mylist and only radix_tree uses mytree.
ContainersInv ==
  /\ dir = "link_list" => ListAt /\ Allocated
  /\ dir # "link_list" => Temp \notin Range(mylist)
  /\ dir = "radix_tree" => TreeAt
  /\ dir # "radix_tree" => mytree = {}

\* Only spinlock and mutex1 use the locks.
LocksInv ==
  /\ dir # "spinlock" => sl = "free"
  /\ dir # "mutex1" => m = "free"

\* The list after n nodes have been pushed at its head.
LEMMA StackIs ==
  ASSUME NEW n \in Nat
  PROVE  /\ Stack(n) \in Seq(Nat)
         /\ Len(Stack(n)) = n
         /\ \A k \in 1 .. n : Stack(n)[k] = n - k
         /\ n = 0 => Stack(n) = <<>>
BY DEF Stack

\* Sequences with the same entries are the same.
LEMMA SameEntries ==
  ASSUME NEW S, NEW a \in Seq(S), NEW b \in Seq(S), Len(a) = Len(b), \A k \in 1 .. Len(a) : a[k] = b[k]
  PROVE  a = b
<1>1. a = [k \in 1 .. Len(a) |-> a[k]] /\ b = [k \in 1 .. Len(b) |-> b[k]]
  OBVIOUS
<1> QED
  BY <1>1

\* list_add() at the head.
LEMMA Pushed ==
  ASSUME NEW n \in Nat, NEW b \in Seq(Nat)
  PROVE  /\ <<n>> \o b \in Seq(Nat)
         /\ Len(<<n>> \o b) = Len(b) + 1
         /\ \A k \in 1 .. Len(b) + 1 : (<<n>> \o b)[k] = IF k = 1 THEN n ELSE b[k - 1]
OBVIOUS

\* list_add() of node n turns the stack of n nodes into that of n + 1.
LEMMA StackGrows ==
  ASSUME NEW n \in Nat
  PROVE  <<n>> \o Stack(n) = Stack(n + 1)
<1>1. Stack(n) \in Seq(Nat) /\ Len(Stack(n)) = n
  BY StackIs
<1>2. \A k \in 1 .. n : Stack(n)[k] = n - k
  BY StackIs
<1>3. n + 1 \in Nat
  OBVIOUS
<1>4. Stack(n + 1) \in Seq(Nat) /\ Len(Stack(n + 1)) = n + 1
  BY <1>3, StackIs
<1>5. \A k \in 1 .. n + 1 : Stack(n + 1)[k] = n + 1 - k
  BY <1>3, StackIs
<1>6. <<n>> \o Stack(n) \in Seq(Nat) /\ Len(<<n>> \o Stack(n)) = n + 1
  BY <1>1, Pushed
<1>7. \A k \in 1 .. n + 1 : (<<n>> \o Stack(n))[k] = IF k = 1 THEN n ELSE Stack(n)[k - 1]
  BY <1>1, Pushed
<1>8. \A k \in 1 .. n + 1 : (<<n>> \o Stack(n))[k] = n + 1 - k
  <2> TAKE k \in 1 .. n + 1
  <2>1. k # 1 => k - 1 \in 1 .. n
    OBVIOUS
  <2>2. k # 1 => Stack(n)[k - 1] = n + 1 - k
    BY <1>2, <2>1
  <2>3. CASE k = 1
    BY <1>7, <2>3
  <2>4. CASE k # 1
    BY <1>7, <2>2, <2>4
  <2> QED
    BY <2>3, <2>4
<1>9. \A k \in 1 .. n + 1 : (<<n>> \o Stack(n))[k] = Stack(n + 1)[k]
  BY <1>5, <1>8
<1> QED
  BY <1>4, <1>6, <1>9, SameEntries

\* list_del() of the entry at place p.
LEMMA UnlinkedAt ==
  ASSUME NEW l, NEW n, NEW p \in 1 .. Len(l), \A j \in 1 .. Len(l) : l[j] = n <=> j = p
  PROVE  Unlinked(l, n) = SubSeq(l, 1, p - 1) \o SubSeq(l, p + 1, Len(l))
<1> DEFINE c == CHOOSE j \in 1 .. Len(l) : l[j] = n
<1>1. c = p
  OBVIOUS
<1>2. Unlinked(l, n) = SubSeq(l, 1, c - 1) \o SubSeq(l, c + 1, Len(l))
  BY Zenon DEF Unlinked
<1> HIDE DEF c
<1> QED
  BY <1>1, <1>2

\* The two list_del() calls of link_list take the node on the stack and the last
\* one of the array off the list.
LEMMA UnlinkedTwice ==
  Unlinked(Unlinked(Append(Stack(NODES), Temp), Temp), 0) = Rest
<1>0. NODES \in Nat /\ NODES > 0
  BY NodesAssumption
<1> DEFINE s == Stack(NODES)
           a == Append(s, Temp)
<1>1. s \in Seq(Nat) /\ Len(s) = NODES /\ \A k \in 1 .. NODES : s[k] = NODES - k
  BY <1>0, StackIs
<1> HIDE DEF s
<1>2. a \in Seq(Nat) /\ Len(a) = NODES + 1 /\ a[NODES+1] = Temp /\ \A k \in 1 .. NODES : a[k] = s[k]
  BY <1>0, <1>1 DEF Temp
<1>3. SubSeq(a, 1, NODES) = s /\ SubSeq(a, NODES + 2, NODES + 1) = <<>>
  <2>1. SubSeq(a, 1, NODES) \in Seq(Nat) /\ Len(SubSeq(a, 1, NODES)) = NODES
        /\ \A k \in 1 .. NODES : SubSeq(a, 1, NODES)[k] = s[k]
    BY <1>0, <1>2
  <2> HIDE DEF a
  <2>4. SubSeq(a, 1, NODES) = s
    BY <1>1, <2>1, SameEntries
  <2>5. SubSeq(a, NODES + 2, NODES + 1) = <<>>
    BY <1>0, <1>2
  <2> QED
    BY <2>4, <2>5
<1> HIDE DEF a
<1> DEFINE p == NODES + 1
<1>4. p \in 1 .. Len(a) /\ \A j \in 1 .. Len(a) : a[j] = Temp <=> j = p
  BY <1>0, <1>1, <1>2 DEF Temp
<1>6. p - 1 = NODES /\ p + 1 = NODES + 2 /\ p = NODES + 1
  BY <1>0
<1> HIDE DEF p
<1>5. Unlinked(a, Temp) = SubSeq(a, 1, p - 1) \o SubSeq(a, p + 1, Len(a))
  BY <1>4, UnlinkedAt, Zenon
<1>7. Unlinked(a, Temp) = s \o <<>>
  BY <1>2, <1>3, <1>5, <1>6
<1>8. s \o <<>> = s
  BY <1>1
<1>9. NODES \in 1 .. Len(s) /\ \A j \in 1 .. Len(s) : s[j] = 0 <=> j = NODES
  BY <1>0, <1>1
<1>10. Unlinked(s, 0) = SubSeq(s, 1, NODES - 1) \o SubSeq(s, NODES + 1, Len(s))
  BY <1>9, UnlinkedAt, Zenon
<1>11. SubSeq(s, NODES + 1, Len(s)) = <<>>
  BY <1>0, <1>1
<1>12. SubSeq(s, 1, NODES - 1) \o <<>> = SubSeq(s, 1, NODES - 1)
  <2>1. SubSeq(s, 1, NODES - 1) \in Seq(Nat)
    BY <1>0, <1>1
  <2> QED
    BY <2>1
<1>13. Unlinked(s, 0) = SubSeq(s, 1, NODES - 1)
  BY <1>10, <1>11, <1>12
<1> QED
  BY <1>7, <1>8, <1>13 DEF a, s, Rest

\* The list without its last node, the first one pushed.
LEMMA RestIs ==
  /\ Rest \in Seq(Nat)
  /\ Len(Rest) = NODES - 1
  /\ \A k \in 1 .. NODES - 1 : Rest[k] \in 0 .. NODES - 1
<1>0. NODES \in Nat /\ NODES > 0
  BY NodesAssumption
<1>1. Stack(NODES) \in Seq(Nat) /\ Len(Stack(NODES)) = NODES /\ \A k \in 1 .. NODES : Stack(NODES)[k] = NODES - k
  BY <1>0, StackIs
<1>2. Rest \in Seq(Nat) /\ Len(Rest) = NODES - 1 /\ \A k \in 1 .. NODES - 1 : Rest[k] = Stack(NODES)[k]
  BY <1>0, <1>1 DEF Rest
<1>3. ASSUME NEW k \in 1 .. NODES - 1 PROVE Rest[k] \in 0 .. NODES - 1
  <2>1. k \in 1 .. NODES /\ NODES - k \in 0 .. NODES - 1
    BY <1>0, <1>3
  <2>2. Rest[k] = NODES - k
    BY <1>1, <1>2, <1>3, <2>1
  <2> QED
    BY <2>1, <2>2
<1> QED
  BY <1>2, <1>3

\* Appending x to a, entry by entry.
LEMMA AppendIs ==
  ASSUME NEW S, NEW a \in Seq(S), NEW x \in S, NEW b \in Seq(S), Len(b) = Len(a) + 1,
         \A k \in 1 .. Len(a) : a[k] = b[k], b[Len(b)] = x
  PROVE  Append(a, x) = b
<1>1. Append(a, x) \in Seq(S) /\ Len(Append(a, x)) = Len(b)
  OBVIOUS
<1>2. ASSUME NEW k \in 1 .. Len(b) PROVE Append(a, x)[k] = b[k]
  OBVIOUS
<1> QED
  BY <1>1, <1>2, SameEntries

\* One line of output.
LEMMA AppendOne ==
  ASSUME NEW w
  PROVE  Append(<<>>, w) = <<w>>
OBVIOUS

\* The same for two lines of output.
LEMMA AppendTwo ==
  ASSUME NEW w, NEW x
  PROVE  Append(<<w>>, x) = <<w, x>>
<1> DEFINE S == {w, x}
           a == <<w>>
           b == <<w, x>>
<1>1. /\ a \in Seq(S) /\ b \in Seq(S) /\ x \in S
      /\ Len(b) = Len(a) + 1
      /\ \A k \in 1 .. Len(a) : a[k] = b[k]
      /\ b[Len(b)] = x
  OBVIOUS
<1> HIDE DEF S, a, b
<1>2. Append(a, x) = b
  BY <1>1, AppendIs
<1> QED
  BY <1>2 DEF a, b

\* The same for three lines of output.
LEMMA AppendThree ==
  ASSUME NEW w, NEW x, NEW y
  PROVE  Append(<<w, x>>, y) = <<w, x, y>>
<1> DEFINE S == {w, x, y}
           a == <<w, x>>
           b == <<w, x, y>>
<1>1. /\ a \in Seq(S) /\ b \in Seq(S) /\ y \in S
      /\ Len(b) = Len(a) + 1
      /\ \A k \in 1 .. Len(a) : a[k] = b[k]
      /\ b[Len(b)] = y
  OBVIOUS
<1> HIDE DEF S, a, b
<1>2. Append(a, y) = b
  BY <1>1, AppendIs
<1> QED
  BY <1>2 DEF a, b

\* The same for four lines of output.
LEMMA AppendFour ==
  ASSUME NEW w, NEW x, NEW y, NEW z
  PROVE  Append(<<w, x, y>>, z) = <<w, x, y, z>>
<1> DEFINE S == {w, x, y, z}
           a == <<w, x, y>>
           b == <<w, x, y, z>>
<1>1. /\ a \in Seq(S) /\ b \in Seq(S) /\ z \in S
      /\ Len(b) = Len(a) + 1
      /\ \A k \in 1 .. Len(a) : a[k] = b[k]
      /\ b[Len(b)] = z
  OBVIOUS
<1> HIDE DEF S, a, b
<1>2. Append(a, z) = b
  BY <1>1, AppendIs
<1> QED
  BY <1>2 DEF a, b

\* link_list keeps its list as the statement says.
LEMMA ListStep ==
  ASSUME dir = "link_list", ListAt, Allocated, NodesInv, LinkList
  PROVE  ListAt' /\ Allocated'
<1>0. NODES \in Nat /\ NODES > 0 /\ i \in 0 .. NODES - 1
  BY NodesAssumption DEF NodesInv
<1>1. CASE ListAlloc
  <2>1. mylist = <<>> /\ out = <<>> /\ UNCHANGED <<mylist, out>> /\ pc = "kmalloc"
    BY <1>1 DEF ListAlloc, ListAt
  <2>2. CASE pc' = "error"
    BY <2>1, <2>2 DEF ListAt, Allocated
  <2>3. CASE fvar' = fvar \cup {i} /\ i' = (i + 1) % NODES
             /\ pc' = IF i + 1 = NODES THEN "list_add" ELSE pc
    <3>1. i' = IF i + 1 = NODES THEN 0 ELSE i + 1
      BY <1>0, <2>3, WrapIndex
    <3>2. \A k \in 0 .. i : k \in fvar'
      BY <1>0, <2>1, <2>3 DEF Allocated
    <3>3. Stack(0) = <<>>
      BY StackIs
    <3>4. CASE i + 1 = NODES
      BY <1>0, <2>1, <2>3, <3>1, <3>2, <3>3, <3>4 DEF ListAt, Allocated
    <3>5. CASE i + 1 # NODES
      BY <1>0, <2>1, <2>3, <3>1, <3>2, <3>5 DEF ListAt, Allocated
    <3> QED
      BY <3>4, <3>5
  <2> QED
    BY <1>1, <2>2, <2>3 DEF ListAlloc
<1>2. CASE ListAdd
  <2>1. /\ mylist = Stack(i) /\ out = <<>> /\ UNCHANGED <<fvar, out>> /\ pc = "list_add"
        /\ mylist' = <<i>> \o Stack(i) /\ i' = (i + 1) % NODES
        /\ pc' = IF i + 1 = NODES THEN "print_1" ELSE pc
    BY <1>2 DEF ListAdd, ListAt
  <2>2. i' = IF i + 1 = NODES THEN 0 ELSE i + 1
    BY <1>0, <2>1, WrapIndex
  <2>3. mylist' = Stack(i + 1)
    BY <1>0, <2>1, StackGrows
  <2>4. Allocated'
    BY <2>1 DEF Allocated
  <2>5. ListAt'
    BY <2>1, <2>2, <2>3 DEF ListAt
  <2> QED
    BY <2>4, <2>5
<1>3. CASE PrintList("print_1", "list_add_tail")
  <2>1. pc = "print_1" /\ pc' = "list_add_tail" /\ out' = Append(out, mylist) /\ UNCHANGED <<mylist, fvar>>
    BY <1>3 DEF PrintList, Goto
  <2>2. mylist = Stack(NODES) /\ out = <<>>
    BY <2>1 DEF ListAt
  <2>3. out' = <<Stack(NODES)>>
    BY <2>1, <2>2
  <2>4. ListAt'
    BY <2>1, <2>2, <2>3 DEF ListAt
  <2> QED
    BY <2>1, <2>4 DEF Allocated
<1>4. CASE ListAddTail
  BY <1>4 DEF ListAddTail, Goto, ListAt, Allocated
<1>5. CASE PrintList("print_2", "list_del")
  <2>1. pc = "print_2" /\ pc' = "list_del" /\ out' = Append(out, mylist) /\ UNCHANGED <<mylist, fvar>>
    BY <1>5 DEF PrintList, Goto
  <2>2. mylist = Append(Stack(NODES), Temp) /\ out = <<Stack(NODES)>>
    BY <2>1 DEF ListAt
  <2>3. out' = <<Stack(NODES), Append(Stack(NODES), Temp)>>
    BY <2>1, <2>2, AppendTwo, Zenon
  <2>4. ListAt'
    BY <2>1, <2>2, <2>3 DEF ListAt
  <2> QED
    BY <2>1, <2>4 DEF Allocated
<1>6. CASE ListDel
  BY <1>6, UnlinkedTwice DEF ListDel, Goto, ListAt, Allocated
<1>7. CASE PrintList("print_3", "kfree")
  <2>1. pc = "print_3" /\ pc' = "kfree" /\ out' = Append(out, mylist) /\ UNCHANGED <<mylist, fvar>>
    BY <1>7 DEF PrintList, Goto
  <2>2. mylist = Rest /\ out = <<Stack(NODES), Append(Stack(NODES), Temp)>>
    BY <2>1 DEF ListAt
  <2>3. out' = <<Stack(NODES), Append(Stack(NODES), Temp), Rest>>
    BY <2>1, <2>2, AppendThree, Zenon
  <2>4. ListAt'
    BY <2>1, <2>2, <2>3 DEF ListAt
  <2> QED
    BY <2>1, <2>4 DEF Allocated
<1>8. CASE ListFree
  BY <1>8 DEF ListFree, Goto, ListAt, Allocated
<1> QED
  BY <1>1, <1>2, <1>3, <1>4, <1>5, <1>6, <1>7, <1>8 DEF LinkList

\* radix_tree keeps its tree as the statement says.
LEMMA TreeStep ==
  ASSUME dir = "radix_tree", TreeAt, RadixTree
  PROVE  TreeAt'
<1>1. Key \in {Key} /\ FailKey \notin {Key} /\ {Key} \ {Key} = {} /\ {Key} \ {FailKey} = {Key}
  BY DEF Key, FailKey
<1>2. CASE RadixInsert
  BY <1>2 DEF RadixInsert, TreeAt
<1>3. CASE RadixLookup("lookup_failkey", FailKey, "lookup_key")
  <2>1. /\ pc = "lookup_failkey" /\ pc' = "lookup_key" /\ out' = Append(out, FailKey \in mytree)
        /\ mytree' = mytree
    BY <1>3 DEF RadixLookup, Goto
  <2>2. mytree = {Key} /\ out = <<>>
    BY <2>1 DEF TreeAt
  <2>3. (FailKey \in mytree) = FALSE /\ mytree' = {Key}
    BY <1>1, <2>1, <2>2
  <2>4. out' = <<FALSE>>
    BY <2>1, <2>2, <2>3, AppendOne, Zenon
  <2> QED
    BY <2>1, <2>3, <2>4 DEF TreeAt
<1>4. CASE RadixLookup("lookup_key", Key, "delete_failkey")
  <2>1. /\ pc = "lookup_key" /\ pc' = "delete_failkey" /\ out' = Append(out, Key \in mytree)
        /\ mytree' = mytree
    BY <1>4 DEF RadixLookup, Goto
  <2>2. mytree = {Key} /\ out = <<FALSE>>
    BY <2>1 DEF TreeAt
  <2>3. (Key \in mytree) = TRUE /\ mytree' = {Key}
    BY <1>1, <2>1, <2>2
  <2>4. out' = <<FALSE, TRUE>>
    BY <2>1, <2>2, <2>3, AppendTwo, Zenon
  <2> QED
    BY <2>1, <2>3, <2>4 DEF TreeAt
<1>5. CASE RadixDelete("delete_failkey", FailKey, "delete_key")
  <2>1. /\ pc = "delete_failkey" /\ pc' = "delete_key" /\ out' = Append(out, FailKey \in mytree)
        /\ mytree' = mytree \ {FailKey}
    BY <1>5 DEF RadixDelete, Goto
  <2>2. mytree = {Key} /\ out = <<FALSE, TRUE>>
    BY <2>1 DEF TreeAt
  <2>3. (FailKey \in mytree) = FALSE /\ mytree' = {Key}
    BY <1>1, <2>1, <2>2
  <2>4. out' = <<FALSE, TRUE, FALSE>>
    BY <2>1, <2>2, <2>3, AppendThree, Zenon
  <2> QED
    BY <2>1, <2>3, <2>4 DEF TreeAt
<1>6. CASE RadixDelete("delete_key", Key, "return")
  <2>1. /\ pc = "delete_key" /\ pc' = "return" /\ out' = Append(out, Key \in mytree)
        /\ mytree' = mytree \ {Key}
    BY <1>6 DEF RadixDelete, Goto
  <2>2. mytree = {Key} /\ out = <<FALSE, TRUE, FALSE>>
    BY <2>1 DEF TreeAt
  <2>3. (Key \in mytree) = TRUE /\ mytree' = {}
    BY <1>1, <2>1, <2>2
  <2>4. out' = <<FALSE, TRUE, FALSE, TRUE>>
    BY <2>1, <2>2, <2>3, AppendFour, Zenon
  <2> QED
    BY <2>1, <2>3, <2>4 DEF TreeAt
<1> QED
  BY <1>2, <1>3, <1>4, <1>5, <1>6 DEF RadixTree

\* The rest of the list, and the empty list, are not on the stack.
LEMMA RestOffStack == Temp \notin Range(Rest) /\ Temp \notin Range(<<>>)
<1>1. DOMAIN Rest = 1 .. NODES - 1 /\ \A k \in 1 .. NODES - 1 : Rest[k] # NODES
  BY NodesAssumption, RestIs
<1> QED
  BY <1>1 DEF Range, Temp

\* Where nothing changes, nothing changes.
LEMMA ContainersUnchanged ==
  ASSUME ContainersInv, UNCHANGED <<dir, pc, i, containersVars>>
  PROVE  ContainersInv'
  BY DEF ContainersInv, ListAt, Allocated, TreeAt, containersVars

\* Every step keeps the containers as their statements say.
LEMMA ContainersStep == ASSUME ContainersInv, NodesInv, [Next]_vars PROVE ContainersInv'
<1>1. CASE Statement /\ LinkList
  <2>1. dir = "link_list" /\ dir' = dir /\ UNCHANGED mytree
    BY <1>1, StatementDir, StatementKeepsDir DEF LinkList
  <2>2. ListAt' /\ Allocated'
    BY <1>1, <2>1, ListStep DEF ContainersInv
  <2> QED
    BY <2>1, <2>2 DEF ContainersInv
<1>2. CASE Statement /\ RadixTree
  <2>1. dir = "radix_tree" /\ dir' = dir /\ UNCHANGED mylist
    BY <1>2, StatementDir, StatementKeepsDir DEF RadixTree
  <2>2. TreeAt'
    BY <1>2, <2>1, TreeStep DEF ContainersInv
  <2> QED
    BY <2>1, <2>2 DEF ContainersInv
<1>3. CASE Statement /\ ~LinkList /\ ~RadixTree
  <2>1. dir \notin {"link_list", "radix_tree"} /\ dir' = dir /\ UNCHANGED containersVars
    BY <1>3, StatementDir, StatementKeepsDir DEF Statement
  <2> QED
    BY <2>1 DEF ContainersInv, containersVars
<1>4. CASE Load
  <2>1. PICK d \in Dirs : Insmod(d)
    BY <1>4 DEF Load
  <2>2. dir' = d /\ pc' = Entry[d] /\ i' = 0
    BY <2>1 DEF Insmod
  <2>3. d = "link_list" => pc' = "kmalloc"
    BY <2>2 DEF Entry
  <2>4. d = "radix_tree" => pc' = "radix_tree_insert"
    BY <2>2 DEF Entry
  <2>5. mylist' = <<>> /\ mytree' = {} /\ out' = <<>>
    BY <1>4 DEF Load, ContainersLoad
  <2>6. d = "link_list" => ListAt' /\ Allocated'
    BY <2>2, <2>3, <2>5 DEF ListAt, Allocated
  <2>7. d = "radix_tree" => TreeAt'
    BY <2>4, <2>5 DEF TreeAt
  <2>8. Temp \notin Range(mylist')
    BY <2>5, RestOffStack
  <2> QED
    BY <2>2, <2>5, <2>6, <2>7, <2>8 DEF ContainersInv
<1>5. CASE Unload
  <2>1. pc = "live" /\ pc' = ExitEntry(dir) /\ UNCHANGED <<dir, i, containersVars>>
    BY <1>5 DEF Unload, Rmmod
  <2>2. dir \in {"link_list", "radix_tree"} => pc' = "gone"
    BY <2>1 DEF ExitEntry
  <2> QED
    BY <2>1, <2>2 DEF ContainersInv, ListAt, Allocated, TreeAt, containersVars
<1>6. CASE LoaderStep
  <2>1. UNCHANGED <<mylist, mytree, out>>
    BY <1>6 DEF LoaderStep, containersVars
  <2>2. CASE pc = "return"
    <3>1. dir' = dir /\ pc' = "live"
      BY <1>6, <2>2 DEF LoaderStep, DoOneInitcall, FreeModule
    <3> QED
      BY <2>1, <2>2, <3>1 DEF ContainersInv, ListAt, Allocated, TreeAt
  <2>3. CASE pc \in {"error", "gone"}
    <3>1. dir' = "none"
      BY <1>6, <2>3 DEF LoaderStep, DoOneInitcall, FreeModule
    <3>2. dir = "link_list" => mylist \in {<<>>, Rest}
      BY <2>3 DEF ContainersInv, ListAt
    <3>3. dir = "radix_tree" => mytree = {}
      BY <2>3 DEF ContainersInv, TreeAt
    <3>4. Temp \notin Range(mylist)
      BY <3>2, RestOffStack DEF ContainersInv
    <3> QED
      BY <2>1, <3>1, <3>3, <3>4 DEF ContainersInv
  <2> QED
    BY <1>6, <2>2, <2>3 DEF LoaderStep, DoOneInitcall, FreeModule
<1>7. CASE Synchronize
  <2>1. dir = "interrupt01" /\ UNCHANGED <<dir, containersVars>>
    BY <1>7 DEF Synchronize, SynchronizeIrq, Goto
  <2> QED
    BY <2>1 DEF ContainersInv, containersVars
<1>8. CASE Away \/ Back
  BY <1>8, ContainersUnchanged DEF Away, Back, Switch, Irq, Resume
<1>9. CASE Call \/ CallEnds \/ Others
  BY <1>9, ContainersUnchanged DEF Call, CallEnds, Others
<1>10. CASE UNCHANGED vars
  BY <1>10, ContainersUnchanged DEF vars
<1> QED
  BY <1>1, <1>2, <1>3, <1>4, <1>5, <1>6, <1>7, <1>8, <1>9, <1>10 DEF Next, Self

\* Every step leaves a lock of another directory alone.
LEMMA LocksStep == ASSUME LocksInv, ContextInv, MutexInv, [Next]_vars PROVE LocksInv'
<1> USE DEF LocksInv
<1>1. CASE Statement
  <2>1. dir' = dir
    BY <1>1, StatementKeepsDir
  <2>2. dir # "spinlock" => UNCHANGED sl
    BY <1>1, StatementDir DEF Statement, Mutex1, locksVars
  <2>3. dir # "mutex1" => UNCHANGED m
    BY <1>1, StatementDir DEF Statement, Spinlock, locksVars
  <2> QED
    BY <2>1, <2>2, <2>3
<1>2. CASE Load
  BY <1>2 DEF Load, LocksLoad
<1>3. CASE LoaderStep
  <2>1. pc \in {"return", "error", "gone"} /\ UNCHANGED locksVars
    BY <1>3 DEF LoaderStep, DoOneInitcall, FreeModule
  <2>2. pc \notin SpinSection /\ pc \notin MutexHeld
    BY <2>1 DEF SpinSection, MutexHeld
  <2>3. sl = "free"
    BY <2>2 DEF ContextInv
  <2>4. m = "free"
    BY <2>2 DEF MutexInv
  <2> QED
    BY <2>1, <2>3, <2>4 DEF locksVars
<1>4. CASE Unload
  BY <1>4 DEF Unload, Rmmod, locksVars
<1>5. CASE Synchronize
  BY <1>5 DEF Synchronize, SynchronizeIrq, Goto, locksVars
<1>6. CASE Away \/ Back
  BY <1>6 DEF Away, Back, Switch, Irq, Resume, locksVars
<1>7. CASE Call \/ CallEnds \/ Others
  BY <1>7 DEF Call, CallEnds, Others, locksVars
<1>8. CASE UNCHANGED vars
  BY <1>8 DEF vars, locksVars
<1> QED
  BY <1>1, <1>2, <1>3, <1>4, <1>5, <1>6, <1>7, <1>8 DEF Next, Self

\* The containers and the locks are in order initially.
LEMMA ContainersBegin == Init => ContainersInv /\ LocksInv /\ NodesInv
  BY RestOffStack DEF Init, CodeKoInit, ContainersInit, LocksInit, ContainersInv, LocksInv, NodesInv

\* Whatever start() leaves behind when it returns, nothing of it is on its
\* stack: not the list, the tree, the spin lock or the mutex.
THEOREM StackSafe == Spec => []NothingOnStack
<1>1. ASSUME ContainersInv, LocksInv, ContextInv, MutexInv PROVE NothingOnStack
  <2> SUFFICES ASSUME pc \in Returned
               PROVE  Temp \notin Range(mylist) /\ mytree = {} /\ sl = "free" /\ m = "free"
    BY DEF NothingOnStack
  <2>1. pc \notin SpinSection /\ pc \notin MutexHeld
    BY DEF Returned, SpinSection, MutexHeld
  <2>2. sl = "free" /\ m = "free"
    BY <1>1, <2>1 DEF LocksInv, ContextInv, MutexInv
  <2>3. dir = "link_list" => mylist \in {<<>>, Rest}
    BY <1>1 DEF ContainersInv, ListAt, Returned
  <2>4. Temp \notin Range(mylist)
    BY <1>1, <2>3, RestOffStack DEF ContainersInv
  <2>5. mytree = {}
    BY <1>1 DEF ContainersInv, TreeAt, Returned
  <2> QED
    BY <2>2, <2>4, <2>5
<1> QED
  BY <1>1, ContainersBegin, ContextInit, ContainersStep, LocksStep, NodesStep, ContextStep,
     MutexStep, PTL DEF Spec

\* The beginnings of three lines of output.
LEMMA PrefixesThree ==
  ASSUME NEW x, NEW y, NEW z, NEW p, p = <<x, y, z>>
  PROVE  /\ Len(p) = 3
         /\ SubSeq(p, 1, 0) = <<>>
         /\ SubSeq(p, 1, 1) = <<x>>
         /\ SubSeq(p, 1, 2) = <<x, y>>
         /\ SubSeq(p, 1, 3) = <<x, y, z>>
<1> DEFINE S == {x, y, z}
<1>0. Len(p) = 3 /\ p \in Seq(S) /\ p[1] = x /\ p[2] = y /\ p[3] = z
  OBVIOUS
<1>1. SubSeq(p, 1, 0) = <<>>
  <2> DEFINE a == SubSeq(p, 1, 0)
             b == <<>>
  <2>1. a \in Seq(S) /\ Len(a) = 0 /\ \A j \in 1 .. 0 : a[j] = p[j]
    BY <1>0
  <2>2. b \in Seq(S) /\ Len(b) = 0
    OBVIOUS
  <2> HIDE DEF S, a, b
  <2>3. a = b
    BY <1>0, <2>1, <2>2, SameEntries
  <2> QED
    BY <2>3 DEF a, b
<1>2. SubSeq(p, 1, 1) = <<x>>
  <2> DEFINE a == SubSeq(p, 1, 1)
             b == <<x>>
  <2>1. a \in Seq(S) /\ Len(a) = 1 /\ \A j \in 1 .. 1 : a[j] = p[j]
    BY <1>0
  <2>2. b \in Seq(S) /\ Len(b) = 1 /\ b[1] = x
    OBVIOUS
  <2> HIDE DEF S, a, b
  <2>3. a = b
    BY <1>0, <2>1, <2>2, SameEntries
  <2> QED
    BY <2>3 DEF a, b
<1>3. SubSeq(p, 1, 2) = <<x, y>>
  <2> DEFINE a == SubSeq(p, 1, 2)
             b == <<x, y>>
  <2>1. a \in Seq(S) /\ Len(a) = 2 /\ \A j \in 1 .. 2 : a[j] = p[j]
    BY <1>0
  <2>2. b \in Seq(S) /\ Len(b) = 2 /\ b[1] = x /\ b[2] = y
    OBVIOUS
  <2> HIDE DEF S, a, b
  <2>3. a = b
    BY <1>0, <2>1, <2>2, SameEntries
  <2> QED
    BY <2>3 DEF a, b
<1>4. SubSeq(p, 1, 3) = <<x, y, z>>
  <2> DEFINE a == SubSeq(p, 1, 3)
             b == <<x, y, z>>
  <2>1. a \in Seq(S) /\ Len(a) = 3 /\ \A j \in 1 .. 3 : a[j] = p[j]
    BY <1>0
  <2>2. b \in Seq(S) /\ Len(b) = 3 /\ b[1] = x /\ b[2] = y /\ b[3] = z
    OBVIOUS
  <2> HIDE DEF S, a, b
  <2>3. a = b
    BY <1>0, <2>1, <2>2, SameEntries
  <2> QED
    BY <2>3 DEF a, b
<1> QED
  BY <1>0, <1>1, <1>2, <1>3, <1>4

\* The beginnings of four lines of output.
LEMMA PrefixesFour ==
  ASSUME NEW w, NEW x, NEW y, NEW z, NEW p, p = <<w, x, y, z>>
  PROVE  /\ Len(p) = 4
         /\ SubSeq(p, 1, 0) = <<>>
         /\ SubSeq(p, 1, 1) = <<w>>
         /\ SubSeq(p, 1, 2) = <<w, x>>
         /\ SubSeq(p, 1, 3) = <<w, x, y>>
         /\ SubSeq(p, 1, 4) = <<w, x, y, z>>
<1> DEFINE S == {w, x, y, z}
<1>0. Len(p) = 4 /\ p \in Seq(S) /\ p[1] = w /\ p[2] = x /\ p[3] = y /\ p[4] = z
  OBVIOUS
<1>1. SubSeq(p, 1, 0) = <<>>
  <2> DEFINE a == SubSeq(p, 1, 0)
             b == <<>>
  <2>1. a \in Seq(S) /\ Len(a) = 0 /\ \A j \in 1 .. 0 : a[j] = p[j]
    BY <1>0
  <2>2. b \in Seq(S) /\ Len(b) = 0
    OBVIOUS
  <2> HIDE DEF S, a, b
  <2>3. a = b
    BY <1>0, <2>1, <2>2, SameEntries
  <2> QED
    BY <2>3 DEF a, b
<1>2. SubSeq(p, 1, 1) = <<w>>
  <2> DEFINE a == SubSeq(p, 1, 1)
             b == <<w>>
  <2>1. a \in Seq(S) /\ Len(a) = 1 /\ \A j \in 1 .. 1 : a[j] = p[j]
    BY <1>0
  <2>2. b \in Seq(S) /\ Len(b) = 1 /\ b[1] = w
    OBVIOUS
  <2> HIDE DEF S, a, b
  <2>3. a = b
    BY <1>0, <2>1, <2>2, SameEntries
  <2> QED
    BY <2>3 DEF a, b
<1>3. SubSeq(p, 1, 2) = <<w, x>>
  <2> DEFINE a == SubSeq(p, 1, 2)
             b == <<w, x>>
  <2>1. a \in Seq(S) /\ Len(a) = 2 /\ \A j \in 1 .. 2 : a[j] = p[j]
    BY <1>0
  <2>2. b \in Seq(S) /\ Len(b) = 2 /\ b[1] = w /\ b[2] = x
    OBVIOUS
  <2> HIDE DEF S, a, b
  <2>3. a = b
    BY <1>0, <2>1, <2>2, SameEntries
  <2> QED
    BY <2>3 DEF a, b
<1>4. SubSeq(p, 1, 3) = <<w, x, y>>
  <2> DEFINE a == SubSeq(p, 1, 3)
             b == <<w, x, y>>
  <2>1. a \in Seq(S) /\ Len(a) = 3 /\ \A j \in 1 .. 3 : a[j] = p[j]
    BY <1>0
  <2>2. b \in Seq(S) /\ Len(b) = 3 /\ b[1] = w /\ b[2] = x /\ b[3] = y
    OBVIOUS
  <2> HIDE DEF S, a, b
  <2>3. a = b
    BY <1>0, <2>1, <2>2, SameEntries
  <2> QED
    BY <2>3 DEF a, b
<1>5. SubSeq(p, 1, 4) = <<w, x, y, z>>
  <2> DEFINE a == SubSeq(p, 1, 4)
             b == <<w, x, y, z>>
  <2>1. a \in Seq(S) /\ Len(a) = 4 /\ \A j \in 1 .. 4 : a[j] = p[j]
    BY <1>0
  <2>2. b \in Seq(S) /\ Len(b) = 4 /\ b[1] = w /\ b[2] = x /\ b[3] = y /\ b[4] = z
    OBVIOUS
  <2> HIDE DEF S, a, b
  <2>3. a = b
    BY <1>0, <2>1, <2>2, SameEntries
  <2> QED
    BY <2>3 DEF a, b
<1> QED
  BY <1>0, <1>1, <1>2, <1>3, <1>4, <1>5

\* Every list is printed while all its nodes are allocated, and what is
\* printed, or found in the tree, is what the code announces, for any number of
\* nodes.
THEOREM PrintsSafe == Spec => []PrintsLiveNodes
<1>1. ASSUME ContainersInv, dir = "link_list", pc \in {"print_1", "print_2", "print_3"}
      PROVE  Range(mylist) \subseteq fvar \cup {Temp}
  <2>0. NODES \in Nat /\ NODES > 0
    BY NodesAssumption
  <2>1. /\ Stack(NODES) \in Seq(Nat) /\ Len(Stack(NODES)) = NODES
        /\ \A k \in 1 .. NODES : Stack(NODES)[k] = NODES - k
    BY <2>0, StackIs
  <2>2. \A k \in 0 .. NODES - 1 : k \in fvar
    BY <1>1 DEF ContainersInv, Allocated
  <2>3. CASE pc = "print_1"
    <3>1. mylist = Stack(NODES)
      BY <1>1, <2>3 DEF ContainersInv, ListAt
    <3>2. DOMAIN mylist = 1 .. NODES /\ \A k \in 1 .. NODES : mylist[k] \in fvar
      BY <2>0, <2>1, <2>2, <3>1
    <3> QED
      BY <3>2 DEF Range
  <2>4. CASE pc = "print_2"
    <3>1. mylist = Append(Stack(NODES), Temp)
      BY <1>1, <2>4 DEF ContainersInv, ListAt
    <3>2. DOMAIN mylist = 1 .. NODES + 1
      BY <2>0, <2>1, <3>1
    <3>3. \A k \in 1 .. NODES + 1 : mylist[k] \in fvar \/ mylist[k] = Temp
      BY <2>0, <2>1, <2>2, <3>1
    <3> QED
      BY <3>2, <3>3 DEF Range
  <2>5. CASE pc = "print_3"
    <3>1. mylist = Rest
      BY <1>1, <2>5 DEF ContainersInv, ListAt
    <3>2. DOMAIN mylist = 1 .. NODES - 1 /\ \A k \in 1 .. NODES - 1 : mylist[k] \in fvar
      BY <2>0, <2>2, <3>1, RestIs
    <3> QED
      BY <3>2 DEF Range
  <2> QED
    BY <1>1, <2>3, <2>4, <2>5
<1>2. ASSUME ContainersInv, dir = "link_list"
      PROVE  \E k \in 0 .. Len(Printed) : out = SubSeq(Printed, 1, k)
  <2> DEFINE a == Stack(NODES)
             b == Append(Stack(NODES), Temp)
  <2>1. Printed = <<a, b, Rest>>
    BY <1>2, Zenon DEF Printed, Stack, Rest
  <2>2. out \in {<<>>, <<a>>, <<a, b>>, <<a, b, Rest>>}
    BY <1>2 DEF ContainersInv, ListAt
  <2> HIDE DEF a, b
  <2>3. /\ Len(Printed) = 3
        /\ SubSeq(Printed, 1, 0) = <<>> /\ SubSeq(Printed, 1, 1) = <<a>>
        /\ SubSeq(Printed, 1, 2) = <<a, b>> /\ SubSeq(Printed, 1, 3) = <<a, b, Rest>>
    BY <2>1, PrefixesThree, Zenon
  <2> DEFINE F(k) == SubSeq(Printed, 1, k)
  <2>4. out = F(0) \/ out = F(1) \/ out = F(2) \/ out = F(3)
    BY <2>2, <2>3, Zenon
  <2>5. \A k \in 0 .. 3 : k \in 0 .. Len(Printed)
    BY <2>3
  <2> HIDE DEF F
  <2>6. \E k \in 0 .. 3 : out = F(k)
    BY <2>4
  <2> QED
    BY <2>5, <2>6 DEF F
<1>3. ASSUME ContainersInv, dir = "radix_tree"
      PROVE  \E k \in 0 .. Len(Printed) : out = SubSeq(Printed, 1, k)
  <2> DEFINE n == FALSE
             y == TRUE
  <2>1. Printed = <<n, y, n, y>>
    BY <1>3, Zenon DEF Printed
  <2>2. out \in {<<>>, <<n>>, <<n, y>>, <<n, y, n>>, <<n, y, n, y>>}
    BY <1>3 DEF ContainersInv, TreeAt
  <2> HIDE DEF n, y
  <2>3. /\ Len(Printed) = 4
        /\ SubSeq(Printed, 1, 0) = <<>> /\ SubSeq(Printed, 1, 1) = <<n>>
        /\ SubSeq(Printed, 1, 2) = <<n, y>> /\ SubSeq(Printed, 1, 3) = <<n, y, n>>
        /\ SubSeq(Printed, 1, 4) = <<n, y, n, y>>
    BY <2>1, PrefixesFour, SMT
  <2> DEFINE F(k) == SubSeq(Printed, 1, k)
  <2>4. out = F(0) \/ out = F(1) \/ out = F(2) \/ out = F(3) \/ out = F(4)
    BY <2>2, <2>3, Zenon
  <2>5. \A k \in 0 .. 4 : k \in 0 .. Len(Printed)
    BY <2>3
  <2> HIDE DEF F
  <2>6. \E k \in 0 .. 4 : out = F(k)
    BY <2>4
  <2> QED
    BY <2>5, <2>6 DEF F
<1>4. ContainersInv => PrintsLiveNodes
  BY <1>1, <1>2, <1>3 DEF PrintsLiveNodes
<1> QED
  BY <1>4, ContainersBegin, ContainersStep, NodesStep, PTL DEF Spec

=============================================================================
