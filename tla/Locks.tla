-------------------------------- MODULE Locks --------------------------------
(***************************************************************************)
(* src/spinlock/code.c and src/mutex1/code.c: start() takes a lock on its  *)
(* own stack in every way the kernel offers.  No other task ever knows the *)
(* lock, so it is always free when start() wants it.                       *)
(***************************************************************************)
EXTENDS CodeKo

VARIABLES
  sl,    \* the lock word, "free" or "taken"; never taken without CONFIG_SMP
  flag,  \* the interrupt state saved by spin_lock_irqsave()
  m      \* the mutex: "free" or "start"

locksVars == <<sl, flag, m>>

LocksInit == sl = "free" /\ flag = "on" /\ m = "free"

LocksLoad == sl' = "free" /\ flag' = "on" /\ m' = "free"

-----------------------------------------------------------------------------
(* spinlock *)

\* spin_lock() would spin on a taken lock.
Take ==
  /\ sl = "free"
  /\ sl' = IF smp THEN "taken" ELSE "free"
  /\ preempt_count' = preempt_count + 1

Drop == sl' = "free" /\ preempt_count' = preempt_count - 1

SpinTake(a, b, i1, b1) ==
  /\ Goto("spinlock", a, b)
  /\ Take
  /\ irqs' = i1
  /\ bh' = b1
  /\ UNCHANGED i

SpinDrop(a, b, i1, b1) ==
  /\ Goto("spinlock", a, b)
  /\ Drop
  /\ irqs' = i1
  /\ bh' = b1
  /\ UNCHANGED <<i, flag>>

SpinLockInit ==
  /\ Goto("spinlock", "spin_lock_init", "spin_lock")
  /\ sl' = "free"
  /\ UNCHANGED <<i, flag, ctxVars>>

SpinLock == SpinTake("spin_lock", "spin_is_locked", irqs, bh) /\ UNCHANGED flag

SpinIsLocked ==
  /\ Goto("spinlock", "spin_is_locked", "spin_trylock")
  /\ i' = IF sl = "taken" THEN 1 ELSE 0
  /\ UNCHANGED <<sl, flag, ctxVars>>

\* It fails on a taken lock.  Without a lock word it always succeeds, and
\* disables preemption once more.
SpinTrylock ==
  /\ Goto("spinlock", "spin_trylock", "spin_unlock")
  /\ i' = IF sl = "taken" THEN 0 ELSE 1
  /\ IF sl = "taken" THEN UNCHANGED <<sl, preempt_count>> ELSE Take
  /\ UNCHANGED <<flag, bh, irqs>>

SpinUnlock == SpinDrop("spin_unlock", "spin_lock_irqsave", irqs, bh)

\* Faulty variant: the version without irqsave is called.
SpinLockNoIrqsave ==
  SpinTake("spin_lock_irqsave", "spin_unlock_irqrestore", irqs, bh) /\ UNCHANGED flag

SpinLockIrqsave ==
  SpinTake("spin_lock_irqsave", "spin_unlock_irqrestore", "off", bh) /\ flag' = irqs

SpinUnlockIrqrestore == SpinDrop("spin_unlock_irqrestore", "spin_lock_irq", flag, bh)

SpinLockIrq == SpinTake("spin_lock_irq", "spin_unlock_irq", "off", bh) /\ UNCHANGED flag

SpinUnlockIrq == SpinDrop("spin_unlock_irq", "spin_lock_bh", "on", bh)

SpinLockBh == SpinTake("spin_lock_bh", "spin_unlock_bh", irqs, "off") /\ UNCHANGED flag

\* Faulty variant: the lock is released with plain spin_unlock().
SpinUnlockNoBh == SpinDrop("spin_unlock_bh", "return", irqs, bh)

SpinUnlockBh == SpinDrop("spin_unlock_bh", "return", irqs, "on")

Spinlock ==
  /\ \/ SpinLockInit \/ SpinLock \/ SpinIsLocked \/ SpinTrylock \/ SpinUnlock
     \/ SpinLockIrqsave \/ SpinUnlockIrqrestore \/ SpinLockIrq \/ SpinUnlockIrq
     \/ SpinLockBh \/ SpinUnlockBh
  /\ UNCHANGED m

-----------------------------------------------------------------------------
(* mutex1 *)

MutexInit == Goto("mutex1", "mutex_init", "mutex_lock") /\ m' = "free" /\ UNCHANGED i

MutexLock ==
  /\ Goto("mutex1", "mutex_lock", "mutex_is_locked")
  /\ m = "free"
  /\ m' = "start"
  /\ UNCHANGED i

MutexIsLocked ==
  /\ Goto("mutex1", "mutex_is_locked", "mutex_trylock")
  /\ i' = IF m = "free" THEN 0 ELSE 1
  /\ UNCHANGED m

\* Faulty variant: mutex_lock() on the mutex that start() holds.
MutexLockTwice ==
  /\ Goto("mutex1", "mutex_trylock", "mutex_unlock_1")
  /\ m = "free"
  /\ m' = "start"
  /\ UNCHANGED i

MutexTrylock ==
  /\ Goto("mutex1", "mutex_trylock", "mutex_unlock_1")
  /\ i' = IF m = "free" THEN 1 ELSE 0
  /\ m' = "start"

\* mutex_lock_interruptible() and mutex_lock_killable() look at signals only
\* while they wait, and nobody else can make them wait.
MutexLockSignal(a, b) ==
  /\ Goto("mutex1", a, b)
  /\ m = "free"
  /\ m' = "start"
  /\ i' = 0

MutexUnlock(a, b) ==
  /\ Goto("mutex1", a, b)
  /\ m' = "free"
  /\ UNCHANGED i

Mutex1 ==
  /\ \/ MutexInit \/ MutexLock \/ MutexIsLocked \/ MutexTrylock
     \/ MutexUnlock("mutex_unlock_1", "mutex_lock_interruptible")
     \/ MutexLockSignal("mutex_lock_interruptible", "mutex_unlock_2")
     \/ MutexUnlock("mutex_unlock_2", "mutex_lock_killable")
     \/ MutexLockSignal("mutex_lock_killable", "mutex_unlock_3")
     \/ MutexUnlock("mutex_unlock_3", "return")
  /\ UNCHANGED <<sl, flag, ctxVars>>

=============================================================================
