# Verification of the lkb kernel modules

The repository is a collection of small Linux kernel modules, each of which shows
one kernel facility: work queues, wait queues, threads, RCU, character devices,
trees, locks, memory. This directory models them in TLA+, checks the models with
TLC on small instances and proves their main safety properties with TLAPS for
every value of their constants.

The modules are short, but several of them have an interrupt, a worker thread, a
kernel thread, a signal, an RCU callback or a second process running beside the
task that loads and unloads them. The order of those steps is what no test of the
repository reaches, and it is what the models are about.

## Inventory

| part | state | operations | runs beside | hard behaviour |
|---|---|---|---|---|
| `work_queue_dedicated` | `wq`, `work`, `f[14]`, `moving_val`, list `head` | `start`, `my_interrupt`, `work_handler`, `print_list`, `stops` | interrupt line, worker thread, allocator | interrupt before, during and after everything; failed allocation in the middle; order of tear-down |
| `wait_queue` | `wq`, `condition`, `mytask` | `start`, `mfoo`, `stops` | one kernel thread | wake-up between test and sleep |
| `work_queue_global` | `condition`, heap object with wait queue and work item | `start`, `do_work_handler`, `stops` | shared worker, signals | lifetime of the wait queue, interrupted wait, removal with work pending |
| `thread01` | `g_work[5]`, list `gwl`, threads | `km_init`, `start_mythread`, `mfoo`, `km_exit` | five threads | stopping a thread in any phase, freeing afterwards |
| `rcu` | list, `mylist_lock`, `flag`, callback | `start` (readers, update, delete), `destroy_old_structure`, `end` | RCU callbacks | continuing from a replaced or deleted node, lock released in the loop |
| `mmap`, `ioctl` | major number 150, `buffer`, open files, mappings | `*_init`, `*_exit`, `dev_open`, `dev_mmap`, `dev_ioctl`, `dev_release`, the two user programs | several processes, loading and unloading | two drivers on one number, a buffer freed by every release |
| `red_black_tree` | tree, `root` | `insert`, `search`, `print` | nothing | any insertion order, duplicates, uninitialised parent pointers |
| `spinlock`, `mutex1` | one lock on the stack; preemption count, interrupts, bottom halves of the CPU | every lock, trylock and unlock call of `start` | interrupts, other tasks | trylock without SMP, interrupts and task switches in a section |
| `memory1`, `memory2` | pages and objects | allocate and free in turn | allocator | release on every return path, by the right allocator |
| `link_list`, `radix_tree` | a global list, a global tree | add, print, delete, look up | allocator | nodes freed while linked, variables of a dead stack frame |
| `interrupt01`, `kprobe`, `kprobe1` | a registration | register, handle, unregister | interrupts, probe hits, other CPUs | removal during a call, unregistering what was not registered |
| `task_struct` | the loop variable | `for_each_process()` | forks, exits, grace periods | a walk without `rcu_read_lock()` |
| `kernfs`, `container_of`, `basic`, `basic_debug` | none that lasts | messages | nothing | see "Not modelled" |

The modules do not call one another. `mmap` and `ioctl` interact because both
claim major number 150 and the device node of the same name; `wait_queue` and
`work_queue_global` use the same kernel macro, `wait_event_interruptible()`. Every
Makefile builds a module of the same name (`obj-m += code.o`), so the kernel holds one
of them at a time, and a module finds the kernel (its pages, registrations, the
context of the CPU) as the modules before it left it. `Loader` composes ten of them
on this one slot.

## Modules

| module | models | abstraction |
|---|---|---|
| `WorkQueueDedicated` | `work_queue_dedicated/code.c` | one action per statement that another actor can observe; nodes are elements of `Node`; the batch size 14 is the constant `N` |
| `WorkQueueDedicatedProofs`, `MCWorkQueueDedicated` | | proofs; instance for TLC |
| `WaitEvent` | `wait_event_interruptible()`, external | test, enqueue, re-test, sleep and dequeue are separate steps |
| `Await` | what a caller of that macro relies on | abstract: `Raise`, `Pass`, `Interrupt` |
| `WaitQueue`, `WaitProofs` | `wait_queue/code.c` | messages are short names; `msleep()` is no step, since any delay is possible between two steps |
| `WorkQueueGlobal`, `WaitProofs` | `work_queue_global/code.c` | `my_data` is "raw", "live" or "freed"; an access to it when freed is a fault; what `WaitQueue` has under the same name begins with `Global` |
| `MCWaits` | either of the two in the slot | adds nothing but the choice |
| `Thread01`, `Thread01Proofs` | `thread01/code.c` | `ELEMENTS` is a constant |
| `Rcu`, `RcuProofs` | `rcu/code.c` | next and prev pointers of every node; `preempt` says whether the kernel is preemptible; `element` is a constant |
| `CharDevices`, `CharDevicesProofs` | `mmap/`, `ioctl/` | two drivers and any number of processes running the two programs; values copied are left out, return codes kept |
| `RedBlackTree`, `RedBlackTreeProofs`, `MCRedBlackTree` | `red_black_tree/code.c` | each round of the loops of `insert()`, `search()` and `print()` is a step; the array's contents are a constant set |
| `CodeKo` | the slot for `code.ko`, insmod, rmmod, `do_one_initcall()`, the CPU; external but for the entry points | the CPU executes this task, another task or an interrupt; `smp` and `preempt` say how the kernel was built |
| `Locks` | `spinlock/code.c`, `mutex1/code.c` | one action per call; without SMP there is no lock word, only the preemption count |
| `Memory` | `memory1/code.c`, `memory2/code.c` | a block is its allocator and its number of pages; slab objects are smaller than a page and count as none |
| `Containers` | `link_list/code.c`, `radix_tree/code.c` | a list is the sequence of its nodes, a radix tree the set of its keys |
| `Handlers` | `interrupt01/code.c`, `kprobe/code.c`, `kprobe1/code.c` | a registration and the call in progress |
| `TaskWalk`, `TaskWalkProofs` | `task_struct/code.c`; fork, exit and grace period external | next pointers of the processes, those of exited ones included |
| `Loader`, `LoaderProofs` | the ten directories above on one slot | `Statement` is the next statement of whichever is loaded |

Names follow the source: an action is named after the function or the kernel call
it models, a variable after the C variable. `pc` is the next statement of the task
that runs insmod and rmmod. A bad access (a null or destroyed queue, freed memory,
the text of a removed module) or a second unlock sets `fault`, and the machine stops
there: nothing is claimed about a kernel that has gone wrong. `MfooAfterUnload` and
`HandlerAfterUnload` are the steps at which a thread or a work item goes on in a module
that is gone. A liveness property counts a fault as an end, so it says nothing against it. Operators whose comment starts with
"Faulty variant" are deliberate errors that show that a property can fail; no
specification uses them.

Kernel services are modelled by what the modules rely on:

- `free_irq()` removes the handler and waits for one in progress; `flush_workqueue()`
  and `destroy_workqueue()` wait until the queue is empty; a work item that is
  pending is not queued twice, one that is running is.
- `kthread_stop()` blocks; a thread stopped before it first runs never enters its
  function and the call returns -EINTR.
- A grace period ends when every CPU has been preemptible once. Without kernel
  preemption `start()` prevents that until it returns.
- `kmalloc()`, `kthread_create()`, `request_irq()`, `remap_pfn_range()` and the copies
  from and to user space may fail at any call.
- `spin_lock()` disables preemption, the irq variants interrupts as well, the bh variant
  bottom halves. Without SMP nothing else happens, so `spin_trylock()` always succeeds.
- `mutex_lock_interruptible()` and `mutex_lock_killable()` look at signals only when they
  have to wait. The mutex is on `start()`'s stack, so nobody can make them wait, and the
  -EINTR of which `mutex1/code.c:83-88` speaks cannot come back here.
- `do_one_initcall()` enables preemption and interrupts again if an init function has
  left them disabled.
- `unregister_kprobe()` does nothing to a probe that was never armed, and waits for the
  hits in progress.
- A new process is linked at the tail of the list of processes; an exited one is
  unlinked, keeps its next pointer, and is freed after a grace period.
- An uninitialised parent pointer of a tree node is 0, the node's own address, or
  something else; in the last case the model stops.

## What the runs check

Runs that pass:

- `wqd_all`: `ListMatchesArray` (list and array describe the same batch, through
  failed allocations and flushes), `FlushPrintsBatch`, `TypeOK` (the indexes stay within `f[]`), `NoFaultOnceReady` (no fault
  from the end of `start()` to the end of `stops()`), `QuietAfterUnload`; and that an
  interrupt during a run of the handler leads to another run (`InterruptServed`) and
  `stops()` ends (`UnloadTerminates`). Batches of two and five nodes give two complete
  batches with a node to spare, so that reset, refill and exhaustion all happen.
- `waits`: one of the two modules that call `wait_event_interruptible()` is loaded.
  `NoLostWakeup` and `GlobalNoLostWakeup`; `AwaitSpec` and `AwaitSafe`, the refinement of the
  abstract wait by each, with signals in the second; `AwaitEnds`, its liveness part, for
  both; `HandlerOwnsData` about the heap object; `MessagesOrdered`: which of the messages
  in `wait_queue/output` are ordered whatever the scheduler does; and that the thread
  and insmod get to their end (`ThreadExits`, `StartTerminates`), unless the module is
  removed under a running thread or handler. No bound is needed.
- `thread_unload`: `NoThreadAfterUnload`, `StopsLiveThread`, `FreedAfterStop`,
  `UnloadTerminates` with the code's five threads.
- `rcu_list`: `ListWellFormed`, `LockReleasedOnce`, `ReadersPrint`, `NoUseAfterFree`
  (non-preemptible kernels), `DeletedNodeFreed` with the code's five nodes. The delete
  loop unlocks `mylist_lock` on its way, and a second unlock would be a fault.
- `dev_lifetime`: `MajorFollowsDriver` (the number both drivers claim leads to the one
  that is in the kernel), `BufferLiveUntilRelease` (the buffer exists, and is behind every
  mapping, from the load to the exit function or the first release) and `ProcessesEnd`,
  with two processes of each program, the least for one process to free what another
  of its kind uses and for both drivers to have two clients. `mmap_example_exit()` frees
  the buffer in one step and unregisters the device in the next.
- `rb_any`: `SearchTree`, `SearchCorrect`, `PrintsAscending`, `Terminates` for all 3125
  arrays of five values from 1 to 5, which are all insertion orders and all patterns
  of duplicates, and values searched for below, among and above them.
- `code_ko`: ten modules loaded and unloaded in any order, on kernels with and without
  SMP and preemption, under interrupts, task switches, handlers on other CPUs, forks,
  exits and failing allocations. `SectionUndisturbed` and `ContextBalanced`
  are about locks, `MemoryReturned` about every return path of `memory1` and `memory2` and the
  successful one of `link_list`, `NothingOnStack` and `PrintsLiveNodes` about the containers,
  `HandlersHaveText` about registrations, `WalkCorrect` about the walk over the
  processes, and `CodeReturns` says that init and exit functions end. The instance has
  the code's five nodes; ten pages, the largest request, so that every
  allocation can succeed and one page lost by any module makes a later one fail;
  and three processes, the least for the walk to stand on one that has left the list
  while a neighbour leaves and another is added behind both.

Runs that end in a counterexample, each against a sentence of the repository:

- `wqg_freed_queue`: the handler frees the wait queue under the waiting task
  (`work_queue_global/code.c:85`).
- `rcu_reader`: on a preemptible kernel the deleted node is freed before the loop has
  read its successor (`rcu/code.c:220`).
- `dev_double_free`: load, run the program, unload: `buffer` is freed twice
  (`mmap/code.c:127`).
- `rb_print`: nothing initialises the parent pointers. In the trace that of the first node
  happens to hold the node's own address, so `rb_next()` returns NULL and `print()` ends
  after one value (`red_black_tree/code.c:157`). With any other value `rb_next()` follows
  the pointer at the first node without a right child.
- `spin_trylock`: without SMP `spin_trylock()` takes the lock that `start()` holds
  (`spinlock/code.c:88`), although `spinlock/code.c:86` says "Return 0 if cannot take lock.
  Or Lock already taken." The level of preemption it takes is not given back, which is
  why `ContextBalanced` speaks of preemption on SMP only.

The models also contain behaviour that no run states a property against: an
interrupt between `request_irq()` and the creation of the queue calls `queue_work()` with
a null queue (`work_queue_dedicated/code.c:124`; `NoFaultOnceReady` starts after it); a failed `kmalloc()` in
`link_list` leaks the nodes before it (`link_list/code.c:54-57`), and a successful load leaves freed nodes on the
global list; with CONFIG_PREEMPT the walk of `task_struct` can read a freed process; the list
is not emptied at exit although `work_queue_dedicated/code.c:49` says so; a signal ends
`work_queue_global`'s wait early, and `stops()` there does not wait for the work item, as `wait_queue`'s does not wait for
`mfoo()`; a failed load of `mmap` leaves its registration, and a driver can be unloaded under
an open file; `mmap_example_exit()` frees the buffer while the device can still be mapped;
`rcu`'s `end()` does not wait for the callback; an unknown ioctl succeeds although
`ioctl/code.c:40-41` speaks of ENOTTY; close() of a mapped file does not release it
although `mmap/mmap.c:64` says so; `spin_lock_bh()` does not disable interrupts although
`spinlock/code.c:132` and `:138` say so; `radix_tree_insert()` returns 0 on success although
`radix_tree/code.c:77` says "Return 0 on failure" (the code tests it the right way round).

Deadlock is not checked: every module really stops, loaded for ever or removed.

## Fairness

Weak fairness is assumed of the worker thread, of an interrupt handler in progress,
of kernel threads and processes, and of RCU: the kernel schedules them. Of the task that
loads or removes a module it is assumed only where a property needs it: of `start()` in
`WaitQueue`, `WorkQueueGlobal` and `Rcu`, of the stopping loop and the frees of
`km_exit()` in `Thread01`, of the whole program in `RedBlackTree`, and in
`WorkQueueDedicated` of `stops()` from `free_irq()` on. There neither `start()` nor
`synchronize_irq()` is fair, and no property says that they return. No fairness is
assumed of interrupts, signals, the success of allocations, or a request to load or
unload. Every fairness condition ends with a fault.

In `Loader` the task that runs insmod and rmmod loses the CPU to interrupts and other
tasks again and again, so its steps are never enabled for good, and weak fairness
would promise nothing. The scheduler and the end of every interrupt return the CPU
to it infinitely often; hence strong fairness of its statements (`Self`) and of the
return to it (`Back`), and weak fairness of handlers in progress. `synchronize_irq()` is
left out: interrupts may keep it waiting. `Load`, `Unload`, interrupts, task switches,
hits, forks and exits are not fair.

## What is proved

- `WorkQueueDedicatedProofs`, for every `N > 0` and every `Node`: `[]TypeOK`,
  `[]ListMatchesArray`, `[]FlushPrintsBatch`, `[]NoFaultOnceReady`, `[]QuietAfterUnload`.
  None of the last four is inductive. The invariant `IInv` adds the control part (what
  each statement of `start()` and `stops()` implies about the interrupt line and the
  queue), what `work_handler()` knows about its loop index at each statement, and that
  listed nodes are allocated, so that `kmalloc()` cannot return one of them again. The heart of the
  argument is `FlushLoop`: by `ListMatchesArray` the node `f[i]` is the last of the list,
  so `list_del()` is legal and leaves the correspondence with one node less.
- `WaitProofs`, about `WaitQueue`: `[]NoLostWakeup`, `[]MessagesOrdered`, and that the module implements
  `Await`'s safety part. `IInv` ties `condition` to the progress of `start()` and says that
  a task in the interruptible state is on the queue, where the second wake-up finds it.
  `LogInv` adds which messages each statement has behind it (`SaidInv`), so that a
  message is new when it is written and those it has to follow are in the log.
- `Thread01Proofs`, for every `ELEMENTS > 0`: `[]TypeOK`, `[]NoThreadAfterUnload`,
  `[]StopsLiveThread`, `[]FreedAfterStop`. `IInv` says that the list holds
  every slot once, that descriptors are live until the last loop, and that the threads
  in front of the cursor have ended.
- `RcuProofs`, for every `element`: `[]LockReleasedOnce` (`LockInv`, and `UnlockInv`, which
  needs to know that the delete loop meets its node once); `[]NoUseAfterFree` from the
  fact that nothing is freed before a non-preemptible `start()` has returned;
  `[]ListWellFormed` and `[]ReadersPrint`. The last two say what the pointers lead to.
  The invariant gives the list in closed form, as the sequence of its nodes at each
  stage (newest first, with the replacement, without the deleted node), and a loop's
  cursor as a position in it; that following the next pointers yields this sequence
  is proved by induction over the length of the walk.
- `WaitProofs`, about `WorkQueueGlobal`: `[]GlobalNoLostWakeup`, `[]HandlerOwnsData`, and
  `AwaitSafe`, the refinement of the safety part of `Await`, with signals. `GlobalInv` relates the phases of the handler to `condition`, to the life of
  `my_data` and to the state of the waiter.
- `CharDevicesProofs`, for any set of processes: `[]MajorFollowsDriver` and
  `[]BufferLiveUntilRelease`. The latter is not inductive: the device can be opened before
  there is a buffer, so `IInv` adds that until then nothing is mapped through it
  (`LoadingInv`), and that files and major number lead to the driver only while it is
  there (`RegisteredInv`).
- `LoaderProofs`, for every number of pages, nodes and processes: `[]HandlersHaveText`
  (`HandlersInv`: a registration belongs to the directory that is loaded and to the part
  of its life between its two calls), `[]MemoryReturned` (`MemoryInv`: at every statement,
  the block held has the kind and size its release will name, and free pages and held
  pages add up to `PAGES`; `NodesInv` for the loops of `link_list`), and
  `[]SectionUndisturbed`, `[]ContextBalanced` (`ContextInv`: the context of the CPU and the
  lock word as a function of the statement, also while another task or an interrupt has
  the CPU). `MemoryReturned` leaves out the failing path of `link_list`, which leaks.
- `LoaderProofs`, for every number of nodes: `[]NothingOnStack` and `[]PrintsLiveNodes`.
  `ContainersInv` gives list, tree and what was printed at every statement of `link_list`
  and `radix_tree`: the list is `Stack(i)` while nodes are pushed, then has `temp` behind it,
  and is `Rest` once `temp` and the first node are deleted. The other directories
  leave list and tree alone.
- `TaskWalkProofs`, for any set of processes: `[]WalkCorrect`. Neither the list nor what
  was printed says why the walk comes across no process twice, since it may follow
  pointers of processes that have left the list. `WalkInv` therefore asserts that there
  is a rank of the processes along which all next pointers, stale ones included,
  ascend, and that no pointer from a process the walk may stand on jumps over one
  that was linked all the time. A fork gives the new process the
  highest rank; exits, grace periods and the walk keep the ranks.
- `RedBlackTreeProofs`, for every number of nodes, every array and every value searched
  for: `[]SearchTree`, `[]SearchCorrect`, `[]PrintsAscending`. `IInv` says that the links
  are a search tree: there is a function `sub` from nodes to sets of nodes with
  `sub[m]` made up of `m`, smaller values on its left and larger ones on its right. It
  also says where the loops are. While `insert()` walks, every node outside the subtree
  it stands on is on the same side of the new value as of that subtree (`Fits`),
  which is why linking the new node below the last one visited is right; while
  `search()` walks, the value is in the subtree if it is anywhere. A child has a larger
  index than its parent, and this is what the inductions go by: that reading in
  order gives `sub[root]` ascending (`InOrderIs`), that the leftmost node is the least
  (`LeftMostIs`), and that nodes outside a subtree are on one side of it (`Apart`).
  From these, `rb_next()` of a node with a right child is its successor (`NextIs`).

The assumptions are the named ASSUMEs of the modules: positive sizes, a null
pointer that is no node, a list head that is no forked process, and arrays and
keys of integers.

Three definitions are recursive functions that walk a structure: `Chain` in `Rcu`,
`InOrder` and `LeftMost` in `RedBlackTree`. Induction theorems with an operator as
parameter are out of the provers' reach, so the induction is over a set of numbers
(`SetInduction`, from the fact that a set of naturals has a least element). The
function itself is a CHOOSE; the proofs first show that a function with its
equation exists (`Repeated` does so for any step repeated a number of times), and then
use the equation.

So every invariant that a run checks is a theorem. Only model-checked is what needs
fairness: `InterruptServed`, `UnloadTerminates` (of both modules), `AwaitEnds`,
`ThreadExits`, `StartTerminates`, `DeletedNodeFreed`, `ProcessesEnd`, `Terminates` and
`CodeReturns`. The runs that end in a counterexample are TLC's as well.

## Plan

Done: work queues, waits, threads, RCU, devices and tree, each on its own; then the
ten small modules, composed on the one module slot; then the proofs for the global
work queue, the devices, the small modules and the walk; then those of the messages,
the lists and the tree.

Left, should the code grow: a kernel with two interrupt lines shared between modules of
different names, once a Makefile builds one; `kernfs`, once something uses the root it
creates.

## Not modelled

- `kernfs` creates a root with `kernfs_create_root()` that nothing mounts, uses or
  destroys, and its callbacks return 0; the source calls it work in progress. A
  model would have one step.
- `container_of` applies the macro to a variable that is in no struct and writes
  through the result. What that write hits depends on the compiler's stack layout,
  about which the repository says nothing; the rest of the function is messages.
- `basic` and `basic_debug` print two messages; `README.md` and `function_index` are text.
- Data that no property needs: the text of messages, the values copied by `ioctl`, page
  contents, the addresses of kernel objects.
- The larger modules are not composed with `Loader`: their load and unload are in their
  own modules, and what they could leave to the next one (a work item, a callback or a
  mapping that outlives its module) already stops the machine there.
