-------------------------------- MODULE Locks --------------------------------
(* Spin locks and the mutexes made of them (spinlock.c, mutexes.c), with the *)
(* preemption and the interrupts they hold off.                              *)
(*                                                                           *)
(* A context is a thread, which runs on its processor when it is the current *)
(* one there, or the interrupt handler of a processor, which runs over the   *)
(* current thread and as it: current, and the counters in it, are that       *)
(* thread's.  Lock "irq" is taken with spin_lock_irqsave, by handlers too;   *)
(* lock "plain", as behind a mutex, with spin_lock and by threads only.      *)
EXTENDS Integers, FiniteSets

CONSTANTS
  LkCpus, LkThreads,
  LkCpuOf,        \* the processor of each thread
  MaxLocks,       \* bound: locks each context takes
  NoOwner

ASSUME LocksAssumption ==
  /\ LkCpuOf \in [LkThreads -> LkCpus] /\ LkCpus \cap LkThreads = {}
  /\ MaxLocks \in [LkThreads \cup LkCpus -> Nat]

VARIABLES
  slock,       \* which locks are taken
  owner, break_lock,
  preempt_count, lock_count,   \* of each thread
  currentOn,   \* the thread each processor runs
  irqs,        \* processors with interrupts enabled
  lk,          \* what each context is doing; a handler is named by its processor
  takes,       \* how often it took a lock
  ownerBug     \* BUG_ON(lock->owner != current) fired

lkVars == <<slock, owner, break_lock, preempt_count, lock_count, currentOn, irqs,
            lk, takes, ownerBug>>

SpinLocks == {"irq", "plain"}
Contexts == LkThreads \cup LkCpus
CpuOf(x) == IF x \in LkCpus THEN x ELSE LkCpuOf[x]
current(x) == currentOn[CpuOf(x)]
LkIdle == [step |-> "idle", lock |-> "plain", flags |-> TRUE]
HandlerRuns(c) == lk[c].step # "idle"
\* Whether x has its processor.
Runs(x) == IF x \in LkCpus THEN HandlerRuns(x)
           ELSE currentOn[LkCpuOf[x]] = x /\ ~HandlerRuns(LkCpuOf[x])

LkInit ==
  /\ slock = {} /\ owner = [l \in SpinLocks |-> NoOwner] /\ break_lock = [l \in SpinLocks |-> FALSE]
  /\ preempt_count = [t \in LkThreads |-> 0] /\ lock_count = [t \in LkThreads |-> 0]
  /\ currentOn \in [LkCpus -> LkThreads] /\ \A c \in LkCpus : LkCpuOf[currentOn[c]] = c
  /\ irqs = LkCpus /\ lk = [x \in Contexts |-> LkIdle]
  /\ takes = [x \in Contexts |-> 0] /\ ownerBug = FALSE

AtStep(x, step) == lk[x].step = step /\ Runs(x)
Become(x, step) == lk' = [lk EXCEPT ![x].step = step]
Preemption(x, n) == preempt_count' = [preempt_count EXCEPT ![current(x)] = @ + n]
Irqs(c, on) == irqs' = IF on THEN irqs \cup {c} ELSE irqs \ {c}
IsIrqsave(x) == lk[x].lock = "irq"

\* preempt_schedule, from preempt_enable or on return from an interrupt: only
\* with a zero count and interrupts enabled.
Schedule(c, t) ==
  /\ ~HandlerRuns(c) /\ c \in irqs /\ preempt_count[currentOn[c]] = 0
  /\ LkCpuOf[t] = c /\ t # currentOn[c]
  /\ currentOn' = [currentOn EXCEPT ![c] = t]
  /\ UNCHANGED <<slock, owner, break_lock, preempt_count, lock_count, irqs, lk, takes, ownerBug>>

\* do_event: the handler runs with interrupts off and IRQ_ACTIVE in the count.
IRQ_ACTIVE == 100
Interrupt(c) ==
  /\ c \in irqs /\ ~HandlerRuns(c) /\ takes[c] < MaxLocks[c]
  /\ Irqs(c, FALSE) /\ Preemption(c, IRQ_ACTIVE)
  /\ lk' = [lk EXCEPT ![c] = [step |-> "disable", lock |-> "irq", flags |-> TRUE]]
  /\ UNCHANGED <<slock, owner, break_lock, lock_count, currentOn, takes, ownerBug>>
InterruptReturns(c) ==
  /\ AtStep(c, "done")
  /\ Irqs(c, TRUE) /\ Preemption(c, -IRQ_ACTIVE)
  /\ Become(c, "idle")
  /\ UNCHANGED <<slock, owner, break_lock, lock_count, currentOn, takes, ownerBug>>

\* A thread calls spin_lock_irqsave or spin_lock (mutex_lock) ...
Lock(t, l) ==
  /\ AtStep(t, "idle") /\ takes[t] < MaxLocks[t]
  /\ lk' = [lk EXCEPT ![t] = [step |-> "disable", lock |-> l, flags |-> TRUE]]
  /\ UNCHANGED <<slock, owner, break_lock, preempt_count, lock_count, currentOn, irqs, takes, ownerBug>>
\* ... or mutex_try_lock, once or, timed, again and again: it gives up if the
\* lock is taken, and otherwise calls spin_lock.
mutex_try_lock(t) ==
  /\ AtStep(t, "idle") /\ takes[t] < MaxLocks[t] /\ "plain" \notin slock
  /\ Become(t, "tried")
  /\ UNCHANGED <<slock, owner, break_lock, preempt_count, lock_count, currentOn, irqs, takes, ownerBug>>
TryLocks(t) ==
  /\ AtStep(t, "tried")
  /\ lk' = [lk EXCEPT ![t] = [step |-> "disable", lock |-> "plain", flags |-> TRUE]]
  /\ UNCHANGED <<slock, owner, break_lock, preempt_count, lock_count, currentOn, irqs, takes, ownerBug>>

\* os_spin_lock, os_spin_lock_irqsave: preempt_disable, local_irq_save ...
PreemptDisable(x) ==
  /\ AtStep(x, "disable") /\ Preemption(x, 1)
  /\ Become(x, IF IsIrqsave(x) THEN "save" ELSE "try")
  /\ UNCHANGED <<slock, owner, break_lock, lock_count, currentOn, irqs, takes, ownerBug>>
IrqSave_none(x) ==    \* Mutant: interrupts stay as they are.
  /\ AtStep(x, "save")
  /\ lk' = [lk EXCEPT ![x].step = "try", ![x].flags = CpuOf(x) \in irqs]
  /\ UNCHANGED <<slock, owner, break_lock, preempt_count, lock_count, currentOn, irqs, takes, ownerBug>>
IrqSave(x) ==
  /\ AtStep(x, "save") /\ Irqs(CpuOf(x), FALSE)
  /\ lk' = [lk EXCEPT ![x].step = "try", ![x].flags = CpuOf(x) \in irqs]
  /\ UNCHANGED <<slock, owner, break_lock, preempt_count, lock_count, currentOn, takes, ownerBug>>
\* ... _raw_spin_trylock ...
TryLock(x) ==
  /\ AtStep(x, "try")
  /\ slock' = slock \cup {lk[x].lock}
  /\ Become(x, IF lk[x].lock \in slock THEN "restore" ELSE "own")
  /\ UNCHANGED <<owner, break_lock, preempt_count, lock_count, currentOn, irqs, takes, ownerBug>>
\* ... if it failed, interrupts and preemption are allowed again ...
IrqRestore(x) ==
  /\ AtStep(x, "restore")
  /\ IF IsIrqsave(x) THEN Irqs(CpuOf(x), lk[x].flags) ELSE UNCHANGED irqs
  /\ Become(x, "enable")
  /\ UNCHANGED <<slock, owner, break_lock, preempt_count, lock_count, currentOn, takes, ownerBug>>
PreemptEnable(x) ==
  /\ AtStep(x, "enable") /\ Preemption(x, -1)
  /\ break_lock' = [break_lock EXCEPT ![lk[x].lock] = TRUE]
  /\ Become(x, "spin")
  /\ UNCHANGED <<slock, owner, lock_count, currentOn, irqs, takes, ownerBug>>
\* ... until the lock looks free or another waiter got it.
Spin(x) ==
  /\ AtStep(x, "spin") /\ (lk[x].lock \notin slock \/ ~break_lock[lk[x].lock])
  /\ Become(x, "disable")
  /\ UNCHANGED <<slock, owner, break_lock, preempt_count, lock_count, currentOn, irqs, takes, ownerBug>>
Own(x) ==
  /\ AtStep(x, "own")
  /\ break_lock' = [break_lock EXCEPT ![lk[x].lock] = FALSE]
  /\ owner' = [owner EXCEPT ![lk[x].lock] = current(x)]
  /\ lock_count' = [lock_count EXCEPT ![current(x)] = @ + 1]
  /\ takes' = [takes EXCEPT ![x] = @ + 1]
  /\ Become(x, "held")
  /\ UNCHANGED <<slock, preempt_count, currentOn, irqs, ownerBug>>

\* os_spin_unlock, os_spin_unlock_irqrestore.
Unlock(x) ==
  /\ AtStep(x, "held")
  /\ ownerBug' = (ownerBug \/ owner[lk[x].lock] # current(x))
  /\ lock_count' = [lock_count EXCEPT ![current(x)] = @ - 1]
  /\ owner' = [owner EXCEPT ![lk[x].lock] = NoOwner]
  /\ Become(x, "release")
  /\ UNCHANGED <<slock, break_lock, preempt_count, currentOn, irqs, takes>>
ReleaseLock(x) ==
  /\ AtStep(x, "release")
  /\ slock' = slock \ {lk[x].lock}
  /\ Become(x, "leave")
  /\ UNCHANGED <<owner, break_lock, preempt_count, lock_count, currentOn, irqs, takes, ownerBug>>
Leave(x) ==
  /\ AtStep(x, "leave")
  /\ IF IsIrqsave(x) THEN Irqs(CpuOf(x), lk[x].flags) ELSE UNCHANGED irqs
  /\ Preemption(x, -1)
  /\ Become(x, IF x \in LkCpus THEN "done" ELSE "idle")
  /\ UNCHANGED <<slock, owner, break_lock, lock_count, currentOn, takes, ownerBug>>

LkNext ==
  \/ \E c \in LkCpus : Interrupt(c) \/ InterruptReturns(c) \/ \E t \in LkThreads : Schedule(c, t)
  \/ \E t \in LkThreads :
       mutex_try_lock(t) \/ TryLocks(t) \/ \E l \in SpinLocks : Lock(t, l)
  \/ \E x \in Contexts :
       \/ PreemptDisable(x) \/ IrqSave(x) \/ TryLock(x) \/ IrqRestore(x) \/ PreemptEnable(x)
       \/ Spin(x) \/ Own(x) \/ Unlock(x) \/ ReleaseLock(x) \/ Leave(x)

\* ---- Properties ----
HoldsLock(x, l) == lk[x].lock = l /\ lk[x].step \in {"own", "held", "release"}
WantsLock(x, l) == lk[x].lock = l /\ lk[x].step \in {"disable", "save", "try", "restore", "enable", "spin"}

\* Locks exclude and their owner is the thread that unlocks them, also when it
\* is a handler that does; and no processor waits for itself: the holder of a
\* lock keeps its processor, and whoever spins there, a thread or a handler
\* over it, spins for a lock held on another one.
LocksHoldProcessors ==
  /\ ~ownerBug
  /\ \A l \in SpinLocks, x, y \in Contexts : HoldsLock(x, l) /\ HoldsLock(y, l) => x = y
  /\ \A l \in SpinLocks, x \in Contexts : HoldsLock(x, l) =>
       /\ l \in slock /\ currentOn[CpuOf(x)] \in {x} \cup (IF x \in LkCpus THEN LkThreads ELSE {})
       /\ \A y \in Contexts : WantsLock(y, l) /\ Runs(y) => CpuOf(y) # CpuOf(x)
  /\ \A t \in LkThreads :
       lock_count[t] = Cardinality({x \in Contexts :
         lk[x].step = "held" /\ (x = t \/ (x \in LkCpus /\ currentOn[x] = t))})
=============================================================================
