---------------------------- MODULE KernelProofs ----------------------------
(* Proofs about the kernel's smaller parts (MCKernel): spin locks and        *)
(* preemption (Locks), the clocks (Clock), the domain's own grants and its   *)
(* mappings of other domains' (Grants), event channels (Events) and          *)
(* idle processors (Idle).  Each part has an inductive invariant; a          *)
(* behaviour of MCKernel exercises one part, so the invariant of the whole   *)
(* is the invariant of that part.                                            *)
EXTENDS MCKernel, TLAPS, FiniteSetTheorems, WellFoundedInduction

\* A set of natural numbers that is not empty has a least element, and Min is one.
LEMMA MinIsLeast ==
  ASSUME NEW S \in SUBSET Nat, S # {}
  PROVE  Min(S) \in S /\ \A y \in S : Min(S) <= y
<1>1. \E z \in S : \A y \in S : ~(<<y, z>> \in OpToRel(<, Nat))
  BY WFMin, NatLessThanWellFounded
<1>2. PICK z \in S : \A y \in S : ~(<<y, z>> \in OpToRel(<, Nat))
  BY <1>1
<1>3. ASSUME NEW y \in S, ~(z <= y) PROVE FALSE
  <2>1. y < z
    BY <1>3
  <2>2. <<y, z>> \in OpToRel(<, Nat)
    BY <2>1 DEF OpToRel
  <2> QED BY <1>2, <2>2
<1> QED BY <1>3 DEF Min

-----------------------------------------------------------------------------
(* Locks *)

LSteps == {"idle", "tried", "disable", "save", "try", "restore", "enable", "spin",
           "own", "held", "release", "leave", "done"}
\* The steps before preempt_enable, with the count raised, and the ones of
\* these with interrupts off.
Counted == {"save", "try", "restore", "enable", "own", "held", "release", "leave"}
Closed == {"try", "restore", "own", "held", "release", "leave"}
Holding == {"own", "held", "release"}

LTypeOK ==
  /\ slock \in SUBSET SpinLocks
  /\ owner \in [SpinLocks -> LkThreads \cup {NoOwner}] /\ break_lock \in [SpinLocks -> BOOLEAN]
  /\ preempt_count \in [LkThreads -> Int] /\ lock_count \in [LkThreads -> Int]
  /\ currentOn \in [LkCpus -> LkThreads] /\ \A c \in LkCpus : LkCpuOf[currentOn[c]] = c
  /\ irqs \in SUBSET LkCpus
  /\ lk \in [Contexts -> [step : LSteps, lock : SpinLocks, flags : BOOLEAN]]
  /\ takes \in [Contexts -> Nat] /\ ownerBug = FALSE

Raised(x) == IF lk[x].step \in Counted THEN 1 ELSE 0
Held(x) == IF lk[x].step = "held" THEN 1 ELSE 0

\* A handler has the irq lock in hand and interrupts off.
LHandlers == \A c \in LkCpus :
  /\ lk[c].step # "tried"
  /\ HandlerRuns(c) => lk[c].lock = "irq" /\ c \notin irqs
  /\ lk[c].step \in Closed => ~lk[c].flags
\* A thread that has raised its count keeps its processor, and one that holds
\* interrupts off keeps them off.
LThreads == \A t \in LkThreads :
  /\ lk[t].step # "done"
  /\ lk[t].step \in Counted => currentOn[LkCpuOf[t]] = t
  /\ lk[t].step \in Closed /\ lk[t].lock = "irq" =>
       LkCpuOf[t] \notin irqs /\ ~HandlerRuns(LkCpuOf[t])
\* What the handler over a thread adds to its counters.
OverHandler(t) == currentOn[LkCpuOf[t]] = t /\ HandlerRuns(LkCpuOf[t])
LPreempts == \A t \in LkThreads :
  preempt_count[t] =
    Raised(t) + (IF OverHandler(t) THEN IRQ_ACTIVE + Raised(LkCpuOf[t]) ELSE 0)
LCounts == \A t \in LkThreads :
  lock_count[t] = Held(t) + (IF OverHandler(t) THEN Held(LkCpuOf[t]) ELSE 0)
LHolders ==
  /\ \A x \in Contexts : lk[x].step \in Holding => lk[x].lock \in slock
  /\ \A x, y \in Contexts :
       lk[x].step \in Holding /\ lk[y].step \in Holding /\ lk[x].lock = lk[y].lock => x = y
  /\ \A x \in Contexts : lk[x].step = "held" => owner[lk[x].lock] = current(x)

LocksInv == LTypeOK /\ LHandlers /\ LThreads /\ LPreempts /\ LCounts /\ LHolders

Doings == [step : LSteps, lock : SpinLocks, flags : BOOLEAN]
\* A context's record after a step.
LEMMA BecomeTyped ==
  ASSUME lk \in [Contexts -> Doings], NEW x \in Contexts, NEW s \in LSteps, Become(x, s)
  PROVE  /\ lk' \in [Contexts -> Doings]
         /\ \A y \in Contexts : y # x => lk'[y] = lk[y]
         /\ lk'[x].step = s /\ lk'[x].lock = lk[x].lock /\ lk'[x].flags = lk[x].flags
<1> PICK d : d = [lk[x] EXCEPT !.step = s]
  OBVIOUS
<1>1. d \in Doings /\ d.step = s /\ d.lock = lk[x].lock /\ d.flags = lk[x].flags
  BY DEF Doings
<1>2. lk' = [lk EXCEPT ![x] = d]
  BY DEF Become
<1> QED BY <1>1, <1>2

\* A context that stays counted keeps the counts of preempt_disable what they are.
LEMMA PreemptsFollow ==
  ASSUME LocksInv, NEW x \in Contexts, Runs(x), lk[x].step # "idle", UNCHANGED currentOn,
         NEW s, \A y \in Contexts : lk'[y].step = IF y = x THEN s ELSE lk[y].step,
         x \in LkCpus => s # "idle",
         NEW n \in Int, (IF s \in Counted THEN 1 ELSE 0) = Raised(x) + n,
         preempt_count' = [preempt_count EXCEPT ![current(x)] = @ + n]
  PROVE  LPreempts'
<1> SUFFICES ASSUME NEW t \in LkThreads
    PROVE preempt_count'[t] = Raised(t)' + (IF OverHandler(t)' THEN IRQ_ACTIVE + Raised(LkCpuOf[t])' ELSE 0)
  BY DEF LPreempts
<1>1. Raised(x)' = Raised(x) + n /\ \A y \in Contexts : y # x => Raised(y)' = Raised(y)
  BY DEF Raised
<1>3. /\ t \in Contexts /\ LkCpuOf[t] \in Contexts /\ t \notin LkCpus /\ LkCpuOf[t] \notin LkThreads
      /\ LkCpuOf[t] \in LkCpus /\ currentOn[LkCpuOf[t]] \in LkThreads
      /\ \A c \in LkCpus : LkCpuOf[currentOn[c]] = c
  BY LocksAssumption DEF Contexts, LocksInv, LTypeOK
<1>2. OverHandler(t)' <=> OverHandler(t)
  <2>1. lk'[LkCpuOf[t]].step # "idle" <=> lk[LkCpuOf[t]].step # "idle"
    BY <1>3
  <2> QED BY <2>1 DEF OverHandler, HandlerRuns
<1>4. preempt_count[t] \in Int /\ Raised(t) \in Int /\ Raised(LkCpuOf[t]) \in Int /\ IRQ_ACTIVE \in Int
  BY DEF LocksInv, LTypeOK, Raised, IRQ_ACTIVE
<1>5. preempt_count[t] = Raised(t) + (IF OverHandler(t) THEN IRQ_ACTIVE + Raised(LkCpuOf[t]) ELSE 0)
  BY DEF LocksInv, LPreempts
<1>6. CASE t = current(x)
  <2>1. CASE x \in LkThreads
    <3>1. t = x /\ LkCpuOf[t] # x /\ ~OverHandler(t)
      BY <1>3, <1>6, <2>1, LocksAssumption DEF current, CpuOf, Runs, OverHandler
    <3> QED BY <1>1, <1>2, <1>3, <1>4, <1>5, <1>6, <3>1 DEF LocksInv, LTypeOK
  <2>2. CASE x \in LkCpus
    <3>1. t # x /\ LkCpuOf[t] = x /\ OverHandler(t)
      BY <1>3, <1>6, <2>2, LocksAssumption DEF current, CpuOf, Runs, OverHandler
    <3> QED BY <1>1, <1>2, <1>3, <1>4, <1>5, <1>6, <3>1 DEF LocksInv, LTypeOK
  <2> QED BY <2>1, <2>2 DEF Contexts
<1>7. CASE t # current(x)
  <2>1. t # x /\ (OverHandler(t) => LkCpuOf[t] # x)
    <3>1. CASE x \in LkThreads
      BY <1>3, <1>7, <3>1, LocksAssumption DEF current, CpuOf, Runs
    <3>2. CASE x \in LkCpus
      BY <1>3, <1>7, <3>2 DEF current, CpuOf, OverHandler
    <3> QED BY <3>1, <3>2 DEF Contexts
  <2>2. preempt_count'[t] = preempt_count[t]
    BY <1>7 DEF LocksInv, LTypeOK
  <2> QED BY <1>1, <1>2, <1>3, <1>4, <1>5, <2>1, <2>2
<1> QED BY <1>6, <1>7

\* lock_count follows the context that takes or gives up the thread's lock.
LEMMA CountsFollow ==
  ASSUME LocksInv, NEW x \in Contexts, Runs(x), lk[x].step # "idle", UNCHANGED currentOn,
         NEW s, \A y \in Contexts : lk'[y].step = IF y = x THEN s ELSE lk[y].step,
         x \in LkCpus => s # "idle",
         NEW n \in Int, (IF s = "held" THEN 1 ELSE 0) = Held(x) + n,
         lock_count' = [lock_count EXCEPT ![current(x)] = @ + n]
  PROVE  LCounts'
<1> SUFFICES ASSUME NEW t \in LkThreads
    PROVE lock_count'[t] = Held(t)' + (IF OverHandler(t)' THEN Held(LkCpuOf[t])' ELSE 0)
  BY DEF LCounts
<1>1. Held(x)' = Held(x) + n /\ \A y \in Contexts : y # x => Held(y)' = Held(y)
  BY DEF Held
<1>3. /\ t \in Contexts /\ LkCpuOf[t] \in Contexts /\ t \notin LkCpus /\ LkCpuOf[t] \notin LkThreads
      /\ LkCpuOf[t] \in LkCpus /\ currentOn[LkCpuOf[t]] \in LkThreads
      /\ \A c \in LkCpus : LkCpuOf[currentOn[c]] = c
  BY LocksAssumption DEF Contexts, LocksInv, LTypeOK
<1>2. OverHandler(t)' <=> OverHandler(t)
  <2>1. lk'[LkCpuOf[t]].step # "idle" <=> lk[LkCpuOf[t]].step # "idle"
    BY <1>3
  <2> QED BY <2>1 DEF OverHandler, HandlerRuns
<1>4. lock_count[t] \in Int /\ Held(t) \in Int /\ Held(LkCpuOf[t]) \in Int /\ IRQ_ACTIVE \in Int
  BY DEF LocksInv, LTypeOK, Held, IRQ_ACTIVE
<1>5. lock_count[t] = Held(t) + (IF OverHandler(t) THEN Held(LkCpuOf[t]) ELSE 0)
  BY DEF LocksInv, LCounts
<1>6. CASE t = current(x)
  <2>1. CASE x \in LkThreads
    <3>1. t = x /\ LkCpuOf[t] # x /\ ~OverHandler(t)
      BY <1>3, <1>6, <2>1, LocksAssumption DEF current, CpuOf, Runs, OverHandler
    <3> QED BY <1>1, <1>2, <1>3, <1>4, <1>5, <1>6, <3>1 DEF LocksInv, LTypeOK
  <2>2. CASE x \in LkCpus
    <3>1. t # x /\ LkCpuOf[t] = x /\ OverHandler(t)
      BY <1>3, <1>6, <2>2, LocksAssumption DEF current, CpuOf, Runs, OverHandler
    <3> QED BY <1>1, <1>2, <1>3, <1>4, <1>5, <1>6, <3>1 DEF LocksInv, LTypeOK
  <2> QED BY <2>1, <2>2 DEF Contexts
<1>7. CASE t # current(x)
  <2>1. t # x /\ (OverHandler(t) => LkCpuOf[t] # x)
    <3>1. CASE x \in LkThreads
      BY <1>3, <1>7, <3>1, LocksAssumption DEF current, CpuOf, Runs
    <3>2. CASE x \in LkCpus
      BY <1>3, <1>7, <3>2 DEF current, CpuOf, OverHandler
    <3> QED BY <3>1, <3>2 DEF Contexts
  <2>2. lock_count'[t] = lock_count[t]
    BY <1>7 DEF LocksInv, LTypeOK
  <2> QED BY <1>1, <1>2, <1>3, <1>4, <1>5, <2>1, <2>2
<1> QED BY <1>6, <1>7

\* The interrupt handler begins.
LEMMA InterruptKept ==
  ASSUME LocksInv, NEW c \in LkCpus, Interrupt(c)
  PROVE  LocksInv'
<1> USE LocksAssumption DEF LocksInv, Interrupt, Contexts, SpinLocks, AtStep, Runs, Irqs, Preemption, CpuOf, HandlerRuns, current, IsIrqsave
<1>1. LTypeOK'
  BY DEF LTypeOK, LSteps, LHolders, IRQ_ACTIVE, LHandlers, LThreads
<1>2. LHandlers'
  BY DEF LTypeOK, LHandlers, Closed
<1>3. LThreads'
  BY DEF LTypeOK, LHandlers, LThreads, LPreempts, OverHandler, Raised, Counted, Closed, IRQ_ACTIVE
<1>4. LPreempts'
  BY DEF LTypeOK, LHandlers, LThreads, LPreempts, OverHandler, Raised, Counted, IRQ_ACTIVE
<1>5. LCounts'
  BY DEF LTypeOK, LHandlers, LThreads, LCounts, OverHandler, Held, Counted
<1>6. LHolders'
  BY DEF LTypeOK, LHandlers, LThreads, LHolders, Holding, Counted
<1> QED BY <1>1, <1>2, <1>3, <1>4, <1>5, <1>6

\* The interrupt handler returns.
LEMMA InterruptReturnsKept ==
  ASSUME LocksInv, NEW c \in LkCpus, InterruptReturns(c)
  PROVE  LocksInv'
<1> USE LocksAssumption DEF LocksInv, InterruptReturns, Contexts, SpinLocks, AtStep, Runs, Irqs, Preemption, CpuOf, HandlerRuns, current, IsIrqsave
<1>1. LTypeOK'
  <2>1. c \in Contexts /\ ("idle") \in LSteps /\ Become(c, "idle") /\ lk \in [Contexts -> Doings]
    BY DEF LSteps, LTypeOK, Doings
  <2>2. lk' \in [Contexts -> Doings]
    BY <2>1, BecomeTyped
  <2>3. lk[c] \in Doings /\ current(c) \in LkThreads
    BY DEF LTypeOK, Doings
  <2>4. preempt_count' \in [LkThreads -> Int] /\ lock_count' \in [LkThreads -> Int]
    BY <2>3 DEF LTypeOK, IRQ_ACTIVE
  <2>5. /\ slock' \in SUBSET SpinLocks /\ owner' \in [SpinLocks -> LkThreads \cup {NoOwner}]
        /\ break_lock' \in [SpinLocks -> BOOLEAN] /\ takes' \in [Contexts -> Nat]
    BY <2>3 DEF LTypeOK, Doings
  <2>6. /\ irqs' \in SUBSET LkCpus /\ ownerBug' = FALSE /\ currentOn' \in [LkCpus -> LkThreads]
        /\ \A d \in LkCpus : LkCpuOf[currentOn[d]] = d
    BY <2>3 DEF LTypeOK, Doings, LHolders, Become
  <2> QED BY <2>2, <2>4, <2>5, <2>6 DEF LTypeOK, Doings
<1> USE DEF Become
<1>2. LHandlers'
  BY DEF LTypeOK, LHandlers, Closed
<1>3. LThreads'
  BY DEF LTypeOK, LHandlers, LThreads, LPreempts, OverHandler, Raised, Counted, Closed, IRQ_ACTIVE
<1>4. LPreempts'
  BY DEF LTypeOK, LHandlers, LThreads, LPreempts, OverHandler, Raised, Counted, IRQ_ACTIVE
<1>5. LCounts'
  BY DEF LTypeOK, LHandlers, LThreads, LCounts, OverHandler, Held, Counted
<1>6. LHolders'
  BY DEF LTypeOK, LHandlers, LThreads, LHolders, Holding, Counted
<1> QED BY <1>1, <1>2, <1>3, <1>4, <1>5, <1>6

\* A processor changes threads, where preempt_disable lets it.
LEMMA ScheduleKept ==
  ASSUME LocksInv, NEW c \in LkCpus, NEW t \in LkThreads, Schedule(c, t)
  PROVE  LocksInv'
<1> USE LocksAssumption DEF LocksInv, Schedule, Contexts, SpinLocks, AtStep, Runs, Irqs, Preemption, CpuOf, HandlerRuns, current, IsIrqsave
<1>1. LTypeOK'
  BY DEF LTypeOK, LSteps, LHolders, IRQ_ACTIVE, LHandlers, LThreads
<1>2. LHandlers'
  BY DEF LTypeOK, LHandlers, Closed
<1>3. LThreads'
  BY DEF LTypeOK, LHandlers, LThreads, LPreempts, OverHandler, Raised, Counted, Closed, IRQ_ACTIVE
<1>4. LPreempts'
  BY DEF LTypeOK, LHandlers, LThreads, LPreempts, OverHandler, Raised, Counted, IRQ_ACTIVE
<1>5. LCounts'
  BY DEF LTypeOK, LHandlers, LThreads, LCounts, OverHandler, Held, Counted
<1>6. LHolders'
  <2>1. ASSUME NEW x \in Contexts, lk[x].step = "held"
        PROVE  current(x)' = current(x)
    BY <2>1 DEF LTypeOK, LThreads, LPreempts, OverHandler, Raised, Counted, Holding
  <2> QED BY <2>1 DEF LTypeOK, LHolders
<1> QED BY <1>1, <1>2, <1>3, <1>4, <1>5, <1>6

\* mutex_try_lock takes the lock or gives up.
LEMMA mutex_try_lockKept ==
  ASSUME LocksInv, NEW t \in LkThreads, mutex_try_lock(t)
  PROVE  LocksInv'
<1> USE LocksAssumption DEF LocksInv, mutex_try_lock, Contexts, SpinLocks, AtStep, Runs, Irqs, Preemption, CpuOf, HandlerRuns, current, IsIrqsave
<1>1. LTypeOK'
  <2>1. t \in Contexts /\ ("tried") \in LSteps /\ Become(t, "tried") /\ lk \in [Contexts -> Doings]
    BY DEF LSteps, LTypeOK, Doings
  <2>2. lk' \in [Contexts -> Doings]
    BY <2>1, BecomeTyped
  <2>3. lk[t] \in Doings /\ current(t) \in LkThreads
    BY DEF LTypeOK, Doings
  <2>4. preempt_count' \in [LkThreads -> Int] /\ lock_count' \in [LkThreads -> Int]
    BY <2>3 DEF LTypeOK, IRQ_ACTIVE
  <2>5. /\ slock' \in SUBSET SpinLocks /\ owner' \in [SpinLocks -> LkThreads \cup {NoOwner}]
        /\ break_lock' \in [SpinLocks -> BOOLEAN] /\ takes' \in [Contexts -> Nat]
    BY <2>3 DEF LTypeOK, Doings
  <2>6. /\ irqs' \in SUBSET LkCpus /\ ownerBug' = FALSE /\ currentOn' \in [LkCpus -> LkThreads]
        /\ \A d \in LkCpus : LkCpuOf[currentOn[d]] = d
    BY <2>3 DEF LTypeOK, Doings, LHolders, Become
  <2> QED BY <2>2, <2>4, <2>5, <2>6 DEF LTypeOK, Doings
<1> USE DEF Become
<1>2. LHandlers'
  BY DEF LTypeOK, LHandlers, Closed
<1>3. LThreads'
  BY DEF LTypeOK, LHandlers, LThreads, LPreempts, OverHandler, Raised, Counted, Closed, IRQ_ACTIVE
<1>4. LPreempts'
  BY DEF LTypeOK, LHandlers, LThreads, LPreempts, OverHandler, Raised, Counted, IRQ_ACTIVE
<1>5. LCounts'
  BY DEF LTypeOK, LHandlers, LThreads, LCounts, OverHandler, Held, Counted
<1>6. LHolders'
  BY DEF LTypeOK, LHandlers, LThreads, LHolders, Holding, Counted
<1> QED BY <1>1, <1>2, <1>3, <1>4, <1>5, <1>6

\* spin_trylock and os_spin_trylock begin.
LEMMA TryLocksKept ==
  ASSUME LocksInv, NEW t \in LkThreads, TryLocks(t)
  PROVE  LocksInv'
<1> USE LocksAssumption DEF LocksInv, TryLocks, Contexts, SpinLocks, AtStep, Runs, Irqs, Preemption, CpuOf, HandlerRuns, current, IsIrqsave
<1>1. LTypeOK'
  BY DEF LTypeOK, LSteps, LHolders, IRQ_ACTIVE, LHandlers, LThreads
<1>2. LHandlers'
  BY DEF LTypeOK, LHandlers, Closed
<1>3. LThreads'
  BY DEF LTypeOK, LHandlers, LThreads, LPreempts, OverHandler, Raised, Counted, Closed, IRQ_ACTIVE
<1>4. LPreempts'
  BY DEF LTypeOK, LHandlers, LThreads, LPreempts, OverHandler, Raised, Counted, IRQ_ACTIVE
<1>5. LCounts'
  BY DEF LTypeOK, LHandlers, LThreads, LCounts, OverHandler, Held, Counted
<1>6. LHolders'
  BY DEF LTypeOK, LHandlers, LThreads, LHolders, Holding, Counted
<1> QED BY <1>1, <1>2, <1>3, <1>4, <1>5, <1>6

\* os_spin_lock begins.
LEMMA LockKept ==
  ASSUME LocksInv, NEW t \in LkThreads, NEW l \in SpinLocks, Lock(t, l)
  PROVE  LocksInv'
<1> USE LocksAssumption DEF LocksInv, Lock, Contexts, SpinLocks, AtStep, Runs, Irqs, Preemption, CpuOf, HandlerRuns, current, IsIrqsave
<1>1. LTypeOK'
  BY DEF LTypeOK, LSteps, LHolders, IRQ_ACTIVE, LHandlers, LThreads
<1>2. LHandlers'
  BY DEF LTypeOK, LHandlers, Closed
<1>3. LThreads'
  BY DEF LTypeOK, LHandlers, LThreads, LPreempts, OverHandler, Raised, Counted, Closed, IRQ_ACTIVE
<1>4. LPreempts'
  BY DEF LTypeOK, LHandlers, LThreads, LPreempts, OverHandler, Raised, Counted, IRQ_ACTIVE
<1>5. LCounts'
  BY DEF LTypeOK, LHandlers, LThreads, LCounts, OverHandler, Held, Counted
<1>6. LHolders'
  BY DEF LTypeOK, LHandlers, LThreads, LHolders, Holding, Counted
<1> QED BY <1>1, <1>2, <1>3, <1>4, <1>5, <1>6

\* preempt_disable of os_spin_lock.
LEMMA PreemptDisableKept ==
  ASSUME LocksInv, NEW x \in Contexts, PreemptDisable(x)
  PROVE  LocksInv'
<1>4. LPreempts'
  <2> PICK s : s = (IF IsIrqsave(x) THEN "save" ELSE "try")
    OBVIOUS
  <2>1. Runs(x) /\ lk[x].step # "idle" /\ UNCHANGED currentOn /\ (x \in LkCpus => s # "idle")
    BY DEF PreemptDisable, AtStep
  <2>2. \A y \in Contexts : lk'[y].step = IF y = x THEN s ELSE lk[y].step
    BY DEF LocksInv, LTypeOK, PreemptDisable, Become
  <2>3. PICK n \in Int : n = 1
    OBVIOUS
  <2>4. preempt_count' = [preempt_count EXCEPT ![current(x)] = @ + n]
    BY <2>3 DEF LocksInv, LTypeOK, PreemptDisable, AtStep, Runs, Preemption, current, CpuOf
  <2>5. (IF s \in Counted THEN 1 ELSE 0) = Raised(x) + n
    BY <2>3 DEF Raised, Counted, PreemptDisable, AtStep
  <2> QED BY <2>1, <2>2, <2>4, <2>5, PreemptsFollow
<1>5. LCounts'
  <2> PICK s : s = (IF IsIrqsave(x) THEN "save" ELSE "try")
    OBVIOUS
  <2>1. Runs(x) /\ lk[x].step # "idle" /\ UNCHANGED currentOn /\ (x \in LkCpus => s # "idle")
    BY DEF PreemptDisable, AtStep
  <2>2. \A y \in Contexts : lk'[y].step = IF y = x THEN s ELSE lk[y].step
    BY DEF LocksInv, LTypeOK, PreemptDisable, Become
  <2>3. PICK n \in Int : n = 0
    OBVIOUS
  <2>4. lock_count' = [lock_count EXCEPT ![current(x)] = @ + n]
    BY <2>3 DEF LocksInv, LTypeOK, PreemptDisable, AtStep, Runs, Preemption, current, CpuOf
  <2>5. (IF s = "held" THEN 1 ELSE 0) = Held(x) + n
    BY <2>3 DEF Held, Counted, PreemptDisable, AtStep
  <2> QED BY <2>1, <2>2, <2>4, <2>5, CountsFollow
<1> USE LocksAssumption DEF LocksInv, PreemptDisable, Contexts, SpinLocks, AtStep, Runs, Irqs, Preemption, CpuOf, HandlerRuns, current, IsIrqsave
<1>1. LTypeOK'
  <2>1. x \in Contexts /\ (IF IsIrqsave(x) THEN "save" ELSE "try") \in LSteps /\ Become(x, IF IsIrqsave(x) THEN "save" ELSE "try") /\ lk \in [Contexts -> Doings]
    BY DEF LSteps, LTypeOK, Doings
  <2>2. lk' \in [Contexts -> Doings]
    BY <2>1, BecomeTyped
  <2>3. lk[x] \in Doings /\ current(x) \in LkThreads
    BY DEF LTypeOK, Doings
  <2>4. preempt_count' \in [LkThreads -> Int] /\ lock_count' \in [LkThreads -> Int]
    BY <2>3 DEF LTypeOK, IRQ_ACTIVE
  <2>5. /\ slock' \in SUBSET SpinLocks /\ owner' \in [SpinLocks -> LkThreads \cup {NoOwner}]
        /\ break_lock' \in [SpinLocks -> BOOLEAN] /\ takes' \in [Contexts -> Nat]
    BY <2>3 DEF LTypeOK, Doings
  <2>6. /\ irqs' \in SUBSET LkCpus /\ ownerBug' = FALSE /\ currentOn' \in [LkCpus -> LkThreads]
        /\ \A d \in LkCpus : LkCpuOf[currentOn[d]] = d
    BY <2>3 DEF LTypeOK, Doings, LHolders, Become
  <2> QED BY <2>2, <2>4, <2>5, <2>6 DEF LTypeOK, Doings
<1> USE DEF Become
<1>2. LHandlers'
  BY DEF LTypeOK, LHandlers, Closed
<1>3. LThreads'
  BY DEF LTypeOK, LHandlers, LThreads, LPreempts, OverHandler, Raised, Counted, Closed, IRQ_ACTIVE
<1>6. LHolders'
  BY DEF LTypeOK, LHandlers, LThreads, LHolders, Holding, Counted
<1> QED BY <1>1, <1>2, <1>3, <1>4, <1>5, <1>6

\* local_irq_save.
LEMMA IrqSaveKept ==
  ASSUME LocksInv, NEW x \in Contexts, IrqSave(x)
  PROVE  LocksInv'
<1> USE LocksAssumption DEF LocksInv, IrqSave, Contexts, SpinLocks, AtStep, Runs, Irqs, Preemption, CpuOf, HandlerRuns, current, IsIrqsave
<1>1. LTypeOK'
  BY DEF LTypeOK, LSteps, LHolders, IRQ_ACTIVE, LHandlers, LThreads
<1>2. LHandlers'
  BY DEF LTypeOK, LHandlers, Closed
<1>3. LThreads'
  BY DEF LTypeOK, LHandlers, LThreads, LPreempts, OverHandler, Raised, Counted, Closed, IRQ_ACTIVE
<1>4. LPreempts'
  BY DEF LTypeOK, LHandlers, LThreads, LPreempts, OverHandler, Raised, Counted, IRQ_ACTIVE
<1>5. LCounts'
  BY DEF LTypeOK, LHandlers, LThreads, LCounts, OverHandler, Held, Counted
<1>6. LHolders'
  BY DEF LTypeOK, LHandlers, LThreads, LHolders, Holding, Counted
<1> QED BY <1>1, <1>2, <1>3, <1>4, <1>5, <1>6

\* The attempt to take the lock itself.
LEMMA TryLockKept ==
  ASSUME LocksInv, NEW x \in Contexts, TryLock(x)
  PROVE  LocksInv'
<1> USE LocksAssumption DEF LocksInv, TryLock, Contexts, SpinLocks, AtStep, Runs, Irqs, Preemption, CpuOf, HandlerRuns, current, IsIrqsave
<1>1. LTypeOK'
  <2>1. x \in Contexts /\ (IF lk[x].lock \in slock THEN "restore" ELSE "own") \in LSteps /\ Become(x, IF lk[x].lock \in slock THEN "restore" ELSE "own") /\ lk \in [Contexts -> Doings]
    BY DEF LSteps, LTypeOK, Doings
  <2>2. lk' \in [Contexts -> Doings]
    BY <2>1, BecomeTyped
  <2>3. lk[x] \in Doings /\ current(x) \in LkThreads
    BY DEF LTypeOK, Doings
  <2>4. preempt_count' \in [LkThreads -> Int] /\ lock_count' \in [LkThreads -> Int]
    BY <2>3 DEF LTypeOK, IRQ_ACTIVE
  <2>5. /\ slock' \in SUBSET SpinLocks /\ owner' \in [SpinLocks -> LkThreads \cup {NoOwner}]
        /\ break_lock' \in [SpinLocks -> BOOLEAN] /\ takes' \in [Contexts -> Nat]
    BY <2>3 DEF LTypeOK, Doings
  <2>6. /\ irqs' \in SUBSET LkCpus /\ ownerBug' = FALSE /\ currentOn' \in [LkCpus -> LkThreads]
        /\ \A d \in LkCpus : LkCpuOf[currentOn[d]] = d
    BY <2>3 DEF LTypeOK, Doings, LHolders, Become
  <2> QED BY <2>2, <2>4, <2>5, <2>6 DEF LTypeOK, Doings
<1> USE DEF Become
<1>2. LHandlers'
  BY DEF LTypeOK, LHandlers, Closed
<1>3. LThreads'
  BY DEF LTypeOK, LHandlers, LThreads, LPreempts, OverHandler, Raised, Counted, Closed, IRQ_ACTIVE
<1>4. LPreempts'
  BY DEF LTypeOK, LHandlers, LThreads, LPreempts, OverHandler, Raised, Counted, IRQ_ACTIVE
<1>5. LCounts'
  BY DEF LTypeOK, LHandlers, LThreads, LCounts, OverHandler, Held, Counted
<1>6. LHolders'
  BY DEF LTypeOK, LHandlers, LThreads, LHolders, Holding, Counted
<1> QED BY <1>1, <1>2, <1>3, <1>4, <1>5, <1>6

\* local_irq_restore.
LEMMA IrqRestoreKept ==
  ASSUME LocksInv, NEW x \in Contexts, IrqRestore(x)
  PROVE  LocksInv'
<1> USE LocksAssumption DEF LocksInv, IrqRestore, Contexts, SpinLocks, AtStep, Runs, Irqs, Preemption, CpuOf, HandlerRuns, current, IsIrqsave
<1>1. LTypeOK'
  <2>1. x \in Contexts /\ ("enable") \in LSteps /\ Become(x, "enable") /\ lk \in [Contexts -> Doings]
    BY DEF LSteps, LTypeOK, Doings
  <2>2. lk' \in [Contexts -> Doings]
    BY <2>1, BecomeTyped
  <2>3. lk[x] \in Doings /\ current(x) \in LkThreads
    BY DEF LTypeOK, Doings
  <2>4. preempt_count' \in [LkThreads -> Int] /\ lock_count' \in [LkThreads -> Int]
    BY <2>3 DEF LTypeOK, IRQ_ACTIVE
  <2>5. /\ slock' \in SUBSET SpinLocks /\ owner' \in [SpinLocks -> LkThreads \cup {NoOwner}]
        /\ break_lock' \in [SpinLocks -> BOOLEAN] /\ takes' \in [Contexts -> Nat]
    BY <2>3 DEF LTypeOK, Doings
  <2>6. /\ irqs' \in SUBSET LkCpus /\ ownerBug' = FALSE /\ currentOn' \in [LkCpus -> LkThreads]
        /\ \A d \in LkCpus : LkCpuOf[currentOn[d]] = d
    BY <2>3 DEF LTypeOK, Doings, LHolders, Become
  <2> QED BY <2>2, <2>4, <2>5, <2>6 DEF LTypeOK, Doings
<1> USE DEF Become
<1>2. LHandlers'
  BY DEF LTypeOK, LHandlers, Closed
<1>3. LThreads'
  BY DEF LTypeOK, LHandlers, LThreads, LPreempts, OverHandler, Raised, Counted, Closed, IRQ_ACTIVE
<1>4. LPreempts'
  BY DEF LTypeOK, LHandlers, LThreads, LPreempts, OverHandler, Raised, Counted, IRQ_ACTIVE
<1>5. LCounts'
  BY DEF LTypeOK, LHandlers, LThreads, LCounts, OverHandler, Held, Counted
<1>6. LHolders'
  BY DEF LTypeOK, LHandlers, LThreads, LHolders, Holding, Counted
<1> QED BY <1>1, <1>2, <1>3, <1>4, <1>5, <1>6

\* preempt_enable, when the lock was not free.
LEMMA PreemptEnableKept ==
  ASSUME LocksInv, NEW x \in Contexts, PreemptEnable(x)
  PROVE  LocksInv'
<1>4. LPreempts'
  <2> PICK s : s = "spin"
    OBVIOUS
  <2>1. Runs(x) /\ lk[x].step # "idle" /\ UNCHANGED currentOn /\ (x \in LkCpus => s # "idle")
    BY DEF PreemptEnable, AtStep
  <2>2. \A y \in Contexts : lk'[y].step = IF y = x THEN s ELSE lk[y].step
    BY DEF LocksInv, LTypeOK, PreemptEnable, Become
  <2>3. PICK n \in Int : n = -1
    OBVIOUS
  <2>4. preempt_count' = [preempt_count EXCEPT ![current(x)] = @ + n]
    BY <2>3 DEF LocksInv, LTypeOK, PreemptEnable, AtStep, Runs, Preemption, current, CpuOf
  <2>5. (IF s \in Counted THEN 1 ELSE 0) = Raised(x) + n
    BY <2>3 DEF Raised, Counted, PreemptEnable, AtStep
  <2> QED BY <2>1, <2>2, <2>4, <2>5, PreemptsFollow
<1> USE LocksAssumption DEF LocksInv, PreemptEnable, Contexts, SpinLocks, AtStep, Runs, Irqs, Preemption, CpuOf, HandlerRuns, current, IsIrqsave
<1>1. LTypeOK'
  <2>1. x \in Contexts /\ ("spin") \in LSteps /\ Become(x, "spin") /\ lk \in [Contexts -> Doings]
    BY DEF LSteps, LTypeOK, Doings
  <2>2. lk' \in [Contexts -> Doings]
    BY <2>1, BecomeTyped
  <2>3. lk[x] \in Doings /\ current(x) \in LkThreads
    BY DEF LTypeOK, Doings
  <2>4. preempt_count' \in [LkThreads -> Int] /\ lock_count' \in [LkThreads -> Int]
    BY <2>3 DEF LTypeOK, IRQ_ACTIVE
  <2>5. /\ slock' \in SUBSET SpinLocks /\ owner' \in [SpinLocks -> LkThreads \cup {NoOwner}]
        /\ break_lock' \in [SpinLocks -> BOOLEAN] /\ takes' \in [Contexts -> Nat]
    BY <2>3 DEF LTypeOK, Doings
  <2>6. /\ irqs' \in SUBSET LkCpus /\ ownerBug' = FALSE /\ currentOn' \in [LkCpus -> LkThreads]
        /\ \A d \in LkCpus : LkCpuOf[currentOn[d]] = d
    BY <2>3 DEF LTypeOK, Doings, LHolders, Become
  <2> QED BY <2>2, <2>4, <2>5, <2>6 DEF LTypeOK, Doings
<1> USE DEF Become
<1>2. LHandlers'
  BY DEF LTypeOK, LHandlers, Closed
<1>3. LThreads'
  BY DEF LTypeOK, LHandlers, LThreads, LPreempts, OverHandler, Raised, Counted, Closed, IRQ_ACTIVE
<1>5. LCounts'
  BY DEF LTypeOK, LHandlers, LThreads, LCounts, OverHandler, Held, Counted
<1>6. LHolders'
  BY DEF LTypeOK, LHandlers, LThreads, LHolders, Holding, Counted
<1> QED BY <1>1, <1>2, <1>3, <1>4, <1>5, <1>6

\* The lock is waited for.
LEMMA SpinKept ==
  ASSUME LocksInv, NEW x \in Contexts, Spin(x)
  PROVE  LocksInv'
<1> USE LocksAssumption DEF LocksInv, Spin, Contexts, SpinLocks, AtStep, Runs, Irqs, Preemption, CpuOf, HandlerRuns, current, IsIrqsave
<1>1. LTypeOK'
  <2>1. x \in Contexts /\ ("disable") \in LSteps /\ Become(x, "disable") /\ lk \in [Contexts -> Doings]
    BY DEF LSteps, LTypeOK, Doings
  <2>2. lk' \in [Contexts -> Doings]
    BY <2>1, BecomeTyped
  <2>3. lk[x] \in Doings /\ current(x) \in LkThreads
    BY DEF LTypeOK, Doings
  <2>4. preempt_count' \in [LkThreads -> Int] /\ lock_count' \in [LkThreads -> Int]
    BY <2>3 DEF LTypeOK, IRQ_ACTIVE
  <2>5. /\ slock' \in SUBSET SpinLocks /\ owner' \in [SpinLocks -> LkThreads \cup {NoOwner}]
        /\ break_lock' \in [SpinLocks -> BOOLEAN] /\ takes' \in [Contexts -> Nat]
    BY <2>3 DEF LTypeOK, Doings
  <2>6. /\ irqs' \in SUBSET LkCpus /\ ownerBug' = FALSE /\ currentOn' \in [LkCpus -> LkThreads]
        /\ \A d \in LkCpus : LkCpuOf[currentOn[d]] = d
    BY <2>3 DEF LTypeOK, Doings, LHolders, Become
  <2> QED BY <2>2, <2>4, <2>5, <2>6 DEF LTypeOK, Doings
<1> USE DEF Become
<1>2. LHandlers'
  BY DEF LTypeOK, LHandlers, Closed
<1>3. LThreads'
  BY DEF LTypeOK, LHandlers, LThreads, LPreempts, OverHandler, Raised, Counted, Closed, IRQ_ACTIVE
<1>4. LPreempts'
  BY DEF LTypeOK, LHandlers, LThreads, LPreempts, OverHandler, Raised, Counted, IRQ_ACTIVE
<1>5. LCounts'
  BY DEF LTypeOK, LHandlers, LThreads, LCounts, OverHandler, Held, Counted
<1>6. LHolders'
  BY DEF LTypeOK, LHandlers, LThreads, LHolders, Holding, Counted
<1> QED BY <1>1, <1>2, <1>3, <1>4, <1>5, <1>6

\* The owner is noted.
LEMMA OwnKept ==
  ASSUME LocksInv, NEW x \in Contexts, Own(x)
  PROVE  LocksInv'
<1>5. LCounts'
  <2> PICK s : s = "held"
    OBVIOUS
  <2>1. Runs(x) /\ lk[x].step # "idle" /\ UNCHANGED currentOn /\ (x \in LkCpus => s # "idle")
    BY DEF Own, AtStep
  <2>2. \A y \in Contexts : lk'[y].step = IF y = x THEN s ELSE lk[y].step
    BY DEF LocksInv, LTypeOK, Own, Become
  <2>3. PICK n \in Int : n = 1
    OBVIOUS
  <2>4. lock_count' = [lock_count EXCEPT ![current(x)] = @ + n]
    BY <2>3 DEF LocksInv, LTypeOK, Own, AtStep, Runs, Preemption, current, CpuOf
  <2>5. (IF s = "held" THEN 1 ELSE 0) = Held(x) + n
    BY <2>3 DEF Held, Counted, Own, AtStep
  <2> QED BY <2>1, <2>2, <2>4, <2>5, CountsFollow
<1> USE LocksAssumption DEF LocksInv, Own, Contexts, SpinLocks, AtStep, Runs, Irqs, Preemption, CpuOf, HandlerRuns, current, IsIrqsave
<1>1. LTypeOK'
  <2>1. x \in Contexts /\ ("held") \in LSteps /\ Become(x, "held") /\ lk \in [Contexts -> Doings]
    BY DEF LSteps, LTypeOK, Doings
  <2>2. lk' \in [Contexts -> Doings]
    BY <2>1, BecomeTyped
  <2>3. lk[x] \in Doings /\ current(x) \in LkThreads
    BY DEF LTypeOK, Doings
  <2>4. preempt_count' \in [LkThreads -> Int] /\ lock_count' \in [LkThreads -> Int]
    BY <2>3 DEF LTypeOK, IRQ_ACTIVE
  <2>5. /\ slock' \in SUBSET SpinLocks /\ owner' \in [SpinLocks -> LkThreads \cup {NoOwner}]
        /\ break_lock' \in [SpinLocks -> BOOLEAN] /\ takes' \in [Contexts -> Nat]
    BY <2>3 DEF LTypeOK, Doings
  <2>6. /\ irqs' \in SUBSET LkCpus /\ ownerBug' = FALSE /\ currentOn' \in [LkCpus -> LkThreads]
        /\ \A d \in LkCpus : LkCpuOf[currentOn[d]] = d
    BY <2>3 DEF LTypeOK, Doings, LHolders, Become
  <2> QED BY <2>2, <2>4, <2>5, <2>6 DEF LTypeOK, Doings
<1> USE DEF Become
<1>2. LHandlers'
  BY DEF LTypeOK, LHandlers, Closed
<1>3. LThreads'
  BY DEF LTypeOK, LHandlers, LThreads, LPreempts, OverHandler, Raised, Counted, Closed, IRQ_ACTIVE
<1>4. LPreempts'
  BY DEF LTypeOK, LHandlers, LThreads, LPreempts, OverHandler, Raised, Counted, IRQ_ACTIVE
<1>6. LHolders'
  BY DEF LTypeOK, LHandlers, LThreads, LHolders, Holding, Counted
<1> QED BY <1>1, <1>2, <1>3, <1>4, <1>5, <1>6

\* os_spin_unlock begins.
LEMMA UnlockKept ==
  ASSUME LocksInv, NEW x \in Contexts, Unlock(x)
  PROVE  LocksInv'
<1>5. LCounts'
  <2> PICK s : s = "release"
    OBVIOUS
  <2>1. Runs(x) /\ lk[x].step # "idle" /\ UNCHANGED currentOn /\ (x \in LkCpus => s # "idle")
    BY DEF Unlock, AtStep
  <2>2. \A y \in Contexts : lk'[y].step = IF y = x THEN s ELSE lk[y].step
    BY DEF LocksInv, LTypeOK, Unlock, Become
  <2>3. PICK n \in Int : n = -1
    OBVIOUS
  <2>4. lock_count' = [lock_count EXCEPT ![current(x)] = @ + n]
    BY <2>3 DEF LocksInv, LTypeOK, Unlock, AtStep, Runs, Preemption, current, CpuOf
  <2>5. (IF s = "held" THEN 1 ELSE 0) = Held(x) + n
    BY <2>3 DEF Held, Counted, Unlock, AtStep
  <2> QED BY <2>1, <2>2, <2>4, <2>5, CountsFollow
<1> USE LocksAssumption DEF LocksInv, Unlock, Contexts, SpinLocks, AtStep, Runs, Irqs, Preemption, CpuOf, HandlerRuns, current, IsIrqsave
<1>1. LTypeOK'
  <2>1. x \in Contexts /\ ("release") \in LSteps /\ Become(x, "release") /\ lk \in [Contexts -> Doings]
    BY DEF LSteps, LTypeOK, Doings
  <2>2. lk' \in [Contexts -> Doings]
    BY <2>1, BecomeTyped
  <2>3. lk[x] \in Doings /\ current(x) \in LkThreads
    BY DEF LTypeOK, Doings
  <2>4. preempt_count' \in [LkThreads -> Int] /\ lock_count' \in [LkThreads -> Int]
    BY <2>3 DEF LTypeOK, IRQ_ACTIVE
  <2>5. /\ slock' \in SUBSET SpinLocks /\ owner' \in [SpinLocks -> LkThreads \cup {NoOwner}]
        /\ break_lock' \in [SpinLocks -> BOOLEAN] /\ takes' \in [Contexts -> Nat]
    BY <2>3 DEF LTypeOK, Doings
  <2>6. /\ irqs' \in SUBSET LkCpus /\ ownerBug' = FALSE /\ currentOn' \in [LkCpus -> LkThreads]
        /\ \A d \in LkCpus : LkCpuOf[currentOn[d]] = d
    BY <2>3 DEF LTypeOK, Doings, LHolders, Become
  <2> QED BY <2>2, <2>4, <2>5, <2>6 DEF LTypeOK, Doings
<1> USE DEF Become
<1>2. LHandlers'
  BY DEF LTypeOK, LHandlers, Closed
<1>3. LThreads'
  BY DEF LTypeOK, LHandlers, LThreads, LPreempts, OverHandler, Raised, Counted, Closed, IRQ_ACTIVE
<1>4. LPreempts'
  BY DEF LTypeOK, LHandlers, LThreads, LPreempts, OverHandler, Raised, Counted, IRQ_ACTIVE
<1>6. LHolders'
  BY DEF LTypeOK, LHandlers, LThreads, LHolders, Holding, Counted
<1> QED BY <1>1, <1>2, <1>3, <1>4, <1>5, <1>6

\* The lock itself is released.
LEMMA ReleaseLockKept ==
  ASSUME LocksInv, NEW x \in Contexts, ReleaseLock(x)
  PROVE  LocksInv'
<1> USE LocksAssumption DEF LocksInv, ReleaseLock, Contexts, SpinLocks, AtStep, Runs, Irqs, Preemption, CpuOf, HandlerRuns, current, IsIrqsave
<1>1. LTypeOK'
  <2>1. x \in Contexts /\ ("leave") \in LSteps /\ Become(x, "leave") /\ lk \in [Contexts -> Doings]
    BY DEF LSteps, LTypeOK, Doings
  <2>2. lk' \in [Contexts -> Doings]
    BY <2>1, BecomeTyped
  <2>3. lk[x] \in Doings /\ current(x) \in LkThreads
    BY DEF LTypeOK, Doings
  <2>4. preempt_count' \in [LkThreads -> Int] /\ lock_count' \in [LkThreads -> Int]
    BY <2>3 DEF LTypeOK, IRQ_ACTIVE
  <2>5. /\ slock' \in SUBSET SpinLocks /\ owner' \in [SpinLocks -> LkThreads \cup {NoOwner}]
        /\ break_lock' \in [SpinLocks -> BOOLEAN] /\ takes' \in [Contexts -> Nat]
    BY <2>3 DEF LTypeOK, Doings
  <2>6. /\ irqs' \in SUBSET LkCpus /\ ownerBug' = FALSE /\ currentOn' \in [LkCpus -> LkThreads]
        /\ \A d \in LkCpus : LkCpuOf[currentOn[d]] = d
    BY <2>3 DEF LTypeOK, Doings, LHolders, Become
  <2> QED BY <2>2, <2>4, <2>5, <2>6 DEF LTypeOK, Doings
<1> USE DEF Become
<1>2. LHandlers'
  BY DEF LTypeOK, LHandlers, Closed
<1>3. LThreads'
  BY DEF LTypeOK, LHandlers, LThreads, LPreempts, OverHandler, Raised, Counted, Closed, IRQ_ACTIVE
<1>4. LPreempts'
  BY DEF LTypeOK, LHandlers, LThreads, LPreempts, OverHandler, Raised, Counted, IRQ_ACTIVE
<1>5. LCounts'
  BY DEF LTypeOK, LHandlers, LThreads, LCounts, OverHandler, Held, Counted
<1>6. LHolders'
  BY DEF LTypeOK, LHandlers, LThreads, LHolders, Holding, Counted
<1> QED BY <1>1, <1>2, <1>3, <1>4, <1>5, <1>6

\* Interrupts and preemption are allowed again.
LEMMA LeaveKept ==
  ASSUME LocksInv, NEW x \in Contexts, Leave(x)
  PROVE  LocksInv'
<1>4. LPreempts'
  <2> PICK s : s = (IF x \in LkCpus THEN "done" ELSE "idle")
    OBVIOUS
  <2>1. Runs(x) /\ lk[x].step # "idle" /\ UNCHANGED currentOn /\ (x \in LkCpus => s # "idle")
    BY DEF Leave, AtStep
  <2>2. \A y \in Contexts : lk'[y].step = IF y = x THEN s ELSE lk[y].step
    BY DEF LocksInv, LTypeOK, Leave, Become
  <2>3. PICK n \in Int : n = -1
    OBVIOUS
  <2>4. preempt_count' = [preempt_count EXCEPT ![current(x)] = @ + n]
    BY <2>3 DEF LocksInv, LTypeOK, Leave, AtStep, Runs, Preemption, current, CpuOf
  <2>5. (IF s \in Counted THEN 1 ELSE 0) = Raised(x) + n
    BY <2>3 DEF Raised, Counted, Leave, AtStep
  <2> QED BY <2>1, <2>2, <2>4, <2>5, PreemptsFollow
<1> USE LocksAssumption DEF LocksInv, Leave, Contexts, SpinLocks, AtStep, Runs, Irqs, Preemption, CpuOf, HandlerRuns, current, IsIrqsave
<1>1. LTypeOK'
  <2>1. x \in Contexts /\ (IF x \in LkCpus THEN "done" ELSE "idle") \in LSteps /\ Become(x, IF x \in LkCpus THEN "done" ELSE "idle") /\ lk \in [Contexts -> Doings]
    BY DEF LSteps, LTypeOK, Doings
  <2>2. lk' \in [Contexts -> Doings]
    BY <2>1, BecomeTyped
  <2>3. lk[x] \in Doings /\ current(x) \in LkThreads
    BY DEF LTypeOK, Doings
  <2>4. preempt_count' \in [LkThreads -> Int] /\ lock_count' \in [LkThreads -> Int]
    BY <2>3 DEF LTypeOK, IRQ_ACTIVE
  <2>5. /\ slock' \in SUBSET SpinLocks /\ owner' \in [SpinLocks -> LkThreads \cup {NoOwner}]
        /\ break_lock' \in [SpinLocks -> BOOLEAN] /\ takes' \in [Contexts -> Nat]
    BY <2>3 DEF LTypeOK, Doings
  <2>6. irqs' \in SUBSET LkCpus
    <3>1. CpuOf(x) \in LkCpus
      OBVIOUS
    <3>2. irqs' \in {irqs, irqs \cup {CpuOf(x)}, irqs \ {CpuOf(x)}}
      OBVIOUS
    <3> QED BY <3>1, <3>2 DEF LTypeOK
  <2>7. /\ ownerBug' = FALSE /\ currentOn' \in [LkCpus -> LkThreads]
        /\ \A c \in LkCpus : LkCpuOf[currentOn'[c]] = c
    BY DEF LTypeOK
  <2> QED BY <2>2, <2>4, <2>5, <2>6, <2>7 DEF LTypeOK, Doings
<1> USE DEF Become
<1>2. LHandlers'
  BY DEF LTypeOK, LHandlers, Closed
<1>3. LThreads'
  BY DEF LTypeOK, LHandlers, LThreads, LPreempts, OverHandler, Raised, Counted, Closed, IRQ_ACTIVE
<1>5. LCounts'
  BY DEF LTypeOK, LHandlers, LThreads, LCounts, OverHandler, Held, Counted
<1>6. LHolders'
  BY DEF LTypeOK, LHandlers, LThreads, LHolders, Holding, Counted
<1> QED BY <1>1, <1>2, <1>3, <1>4, <1>5, <1>6

\* Nothing is locked at first.
LEMMA LocksStart ==
  ASSUME LkInit
  PROVE  LocksInv
  BY LocksAssumption DEF LkInit, LocksInv, LTypeOK, LSteps, LHandlers, LThreads, LPreempts, LCounts, LHolders,
     LkIdle, Contexts, SpinLocks, Raised, Held, OverHandler, HandlerRuns, Counted, Closed, Holding

\* Every step keeps the invariant.
LEMMA LocksStep ==
  ASSUME LocksInv, LkNext
  PROVE  LocksInv'
<1>1. ASSUME NEW c \in LkCpus, Interrupt(c) \/ InterruptReturns(c) \/ \E t \in LkThreads : Schedule(c, t)
      PROVE  LocksInv'
  BY <1>1, InterruptKept, InterruptReturnsKept, ScheduleKept
<1>2. ASSUME NEW t \in LkThreads, mutex_try_lock(t) \/ TryLocks(t) \/ \E l \in SpinLocks : Lock(t, l)
      PROVE  LocksInv'
  BY <1>2, mutex_try_lockKept, TryLocksKept, LockKept
<1>3. ASSUME NEW x \in Contexts,
             \/ PreemptDisable(x) \/ IrqSave(x) \/ TryLock(x) \/ IrqRestore(x) \/ PreemptEnable(x)
             \/ Spin(x) \/ Own(x) \/ Unlock(x) \/ ReleaseLock(x) \/ Leave(x)
      PROVE  LocksInv'
  BY <1>3, PreemptDisableKept, IrqSaveKept, TryLockKept, IrqRestoreKept, PreemptEnableKept,
     SpinKept, OwnKept, UnlockKept, ReleaseLockKept, LeaveKept
<1> QED BY <1>1, <1>2, <1>3 DEF LkNext

\* A step of another part.
LEMMA LocksStay ==
  ASSUME LocksInv, UNCHANGED lkVars
  PROVE  LocksInv'
<1> USE DEF lkVars, LocksInv
<1>1. LTypeOK'
  BY DEF LTypeOK
<1>2. LHandlers'
  BY DEF LHandlers, HandlerRuns
<1>3. LThreads'
  BY DEF LThreads, OverHandler, HandlerRuns
<1>4. LPreempts'
  BY DEF LPreempts, OverHandler, HandlerRuns, Raised
<1>5. LCounts'
  BY DEF LCounts, OverHandler, HandlerRuns, Held
<1>6. LHolders'
  BY DEF LHolders, current, CpuOf
<1> QED BY <1>1, <1>2, <1>3, <1>4, <1>5, <1>6

\* The invariant says what LocksHoldProcessors says.
LEMMA LocksImply ==
  ASSUME LocksInv
  PROVE  LocksHoldProcessors
<1>1. \A l \in SpinLocks, x, y \in Contexts : HoldsLock(x, l) /\ HoldsLock(y, l) => x = y
  BY DEF LocksInv, LHolders, HoldsLock, Holding
<1>2. ASSUME NEW l \in SpinLocks, NEW x \in Contexts, HoldsLock(x, l)
      PROVE  l \in slock /\ currentOn[CpuOf(x)] \in {x} \cup (IF x \in LkCpus THEN LkThreads ELSE {})
  BY <1>2, LocksAssumption DEF LocksInv, LTypeOK, LHolders, HoldsLock, Holding, LThreads, Counted, CpuOf, Contexts
<1>3. ASSUME NEW l \in SpinLocks, NEW x \in Contexts, HoldsLock(x, l),
             NEW y \in Contexts, WantsLock(y, l), Runs(y)
      PROVE  CpuOf(y) # CpuOf(x)
  <2> SUFFICES ASSUME CpuOf(y) = CpuOf(x) PROVE FALSE
    OBVIOUS
  <2>1. CASE x \in LkThreads /\ y \in LkThreads
    BY <1>3, <2>1, LocksAssumption DEF LocksInv, LTypeOK, HoldsLock, WantsLock, Runs, LThreads, Counted, CpuOf
  <2>2. CASE x \in LkThreads /\ y \in LkCpus
    BY <1>3, <2>2, LocksAssumption DEF LocksInv, LTypeOK, HoldsLock, WantsLock, Runs, LThreads, LHandlers, HandlerRuns, Counted, Closed, CpuOf, SpinLocks
  <2>3. CASE x \in LkCpus /\ y \in LkThreads
    BY <1>3, <2>3, LocksAssumption DEF LocksInv, LTypeOK, HoldsLock, Runs, HandlerRuns, CpuOf
  <2>4. CASE x \in LkCpus /\ y \in LkCpus
    BY <1>3, <2>4, LocksAssumption DEF LocksInv, LTypeOK, HoldsLock, WantsLock, CpuOf
  <2> QED BY <2>1, <2>2, <2>3, <2>4 DEF Contexts
<1>4. ASSUME NEW t \in LkThreads
      PROVE  lock_count[t] = Cardinality({x \in Contexts :
               lk[x].step = "held" /\ (x = t \/ (x \in LkCpus /\ currentOn[x] = t))})
  <2> PICK c \in LkCpus : c = LkCpuOf[t]
    BY LocksAssumption
  <2> DEFINE mine == IF lk[t].step = "held" THEN {t} ELSE {}
             over == IF lk[c].step = "held" /\ currentOn[c] = t THEN {c} ELSE {}
             S == {x \in Contexts : lk[x].step = "held" /\ (x = t \/ (x \in LkCpus /\ currentOn[x] = t))}
  <2>1. S = mine \cup over /\ mine \cap over = {}
    <3>1. \A x \in LkCpus : currentOn[x] = t => x = c
      BY DEF LocksInv, LTypeOK
    <3> QED BY <3>1, LocksAssumption DEF Contexts
  <2>2. IsFiniteSet(mine) /\ Cardinality(mine) = Held(t)
    BY FS_EmptySet, FS_Singleton DEF Held
  <2>3. IsFiniteSet(over) /\ Cardinality(over) = (IF OverHandler(t) THEN Held(c) ELSE 0)
    <3>1. IsFiniteSet(over) /\ Cardinality(over) = IF lk[c].step = "held" /\ currentOn[c] = t THEN 1 ELSE 0
      BY FS_EmptySet, FS_Singleton
    <3> QED BY <3>1 DEF Held, OverHandler, HandlerRuns
  <2> HIDE DEF mine, over
  <2>4. Cardinality(mine \cup over) = Cardinality(mine) + Cardinality(over)
    <3>1. CASE over = {}
      <4>1. mine \cup over = mine /\ Cardinality(over) = 0 /\ Cardinality(mine) \in Int
        BY <2>2, <3>1, FS_EmptySet DEF Held
      <4>2. Cardinality(mine \cup over) = Cardinality(mine)
        BY <4>1, Zenon
      <4> QED BY <4>1, <4>2
    <3>2. CASE over = {c}
      <4>1. c \notin mine /\ mine \cup over = mine \cup {c} /\ Cardinality(over) = 1
        BY <2>1, <3>2, FS_Singleton
      <4> QED BY <2>2, <4>1, FS_AddElement
    <3> QED BY <3>1, <3>2 DEF over
  <2> QED BY <2>1, <2>2, <2>3, <2>4 DEF LocksInv, LCounts
<1> QED BY <1>1, <1>2, <1>3, <1>4 DEF LocksInv, LTypeOK, LocksHoldProcessors

-----------------------------------------------------------------------------
(* Time *)

Three == {"tsc", "sys", "scale"}
Values == [{"version", "tsc", "sys", "scale"} -> Nat]
WallValues == [{"version", "sec", "nsec"} -> Nat]
ReadSteps == {"sys", "tsc", "scale", "fresh", "compare"}
CopySteps == {"load", "store", "check"}
CallSteps == {"local", "time"} \cup ReadSteps \cup CopySteps
ThreadSteps == {"idle", "day", "unlock"} \cup CallSteps
IrqSteps == {"idle", "wall lock", "wall", "wall check"} \cup CallSteps
Calls == [pc : ThreadSteps \cup IrqSteps, i : 1..4, reg : Nat, local : Nat,
          back : {"idle", "compare", "wall lock"}, end : {"idle", "day"}, since : Nat,
          read : [Three -> Nat], day : [{"sec", "nsec"} -> Nat]]
Runs1 == [{"thread", "irq"} -> Calls]

\* Xen's values: of the update the version names, and while it is odd of this
\* or of the next.
XenValues(s, fields) ==
  \A f \in fields : \/ s[f] = s["version"] \div 2
                    \/ s["version"] % 2 = 1 /\ s[f] = (s["version"] \div 2) + 1
\* The copy holds the values of one update.
Steady(sh) == sh["version"] % 2 = 0 /\ \A f \in Three : sh[f] = sh["version"] \div 2
\* Whether the copy has the version that is current.
Even(s, sh) == s["version"] = sh["version"] /\ s["version"] % 2 = 0

Copying(q) == q.pc \in CopySteps
Progress(s, sh, q) ==
  Even(s, sh) =>
    /\ \A j \in 2..4 : j < q.i \/ q.pc = "check" => sh[Copied[j]] = s["version"] \div 2
    /\ q.pc = "store" /\ q.i > 1 => q.reg = s["version"] \div 2

ReadSoFar(q) ==
  CASE q.pc = "tsc" -> {"sys"} [] q.pc = "scale" -> {"sys", "tsc"}
    [] q.pc \in {"fresh", "compare"} -> Three [] OTHER -> {}
Reads(sh, q) ==
  q.pc \in ReadSteps =>
    /\ q.local <= sh["version"]
    /\ q.local = sh["version"] =>
         /\ \A f \in ReadSoFar(q) : q.read[f] = q.local \div 2
         /\ q.pc = "compare" => q.since <= q.local \div 2
Timely(s, q) ==
  /\ (q.pc \in ReadSteps \cup {"local"} \/ Copying(q)) => q.since <= s["version"] \div 2
  /\ Copying(q) /\ q.back = "compare" => q.local < s["version"]
  /\ q.pc = "time" => \E n \in Nat : q.since <= n /\ \A f \in Three : q.read[f] = n

Shape(r) ==
  /\ r["thread"].pc \in ThreadSteps /\ r["irq"].pc \in IrqSteps
  /\ Copying(r["thread"]) => r["thread"].back = "compare"
  /\ Copying(r["irq"]) => r["irq"].back \in {"compare", "wall lock"}
  /\ r["irq"].end = "idle"

\* The reads and the copies of its contexts, as far as they have come.
Sound(s, sh, r) ==
  /\ Copying(r["irq"]) => Progress(s, sh, r["irq"])
  /\ ~Copying(r["irq"]) /\ Copying(r["thread"]) => Progress(s, sh, r["thread"])
  /\ ~Copying(r["irq"]) /\ (r["irq"].pc # "idle" \/ ~Copying(r["thread"])) => Steady(sh)
  /\ r["irq"].pc # "idle" => ~(r["thread"].pc = "store" /\ r["thread"].i > 1)
  /\ \A x \in {"thread", "irq"} : Reads(sh, r[x]) /\ Timely(s, r[x])

\* What holds on a processor of Xen's values, their copy, its contexts and whether
\* it was interrupted between a load and its store.
ProcInv(s, sh, r, c, T) ==
  /\ s \in Values /\ sh \in Values /\ r \in Runs1 /\ Shape(r)
  /\ XenValues(s, Three) /\ sh["version"] <= s["version"]
  /\ \A x \in {"thread", "irq"} :
       r[x].pc = "store" /\ r[x].i = 1 =>
         r[x].reg <= s["version"] /\ (x = "irq" => sh["version"] <= r[x].reg)
  /\ c \notin T => Sound(s, sh, r)

WallSteps == {"wall", "wall check"}
WallProgress(q) ==
  Even(wc, shadow_ts) =>
    \A j \in 2..3 : j < q.i \/ q.pc = "wall check" =>
      shadow_ts[WallCopied[j]] = wc["version"] \div 2
InDay(q) == q.pc \in {"day", "unlock"} \/ (q.pc \in CallSteps /\ q.end = "day")
WallInv ==
  /\ wc \in WallValues /\ shadow_ts \in WallValues
  /\ XenValues(wc, {"sec", "nsec"}) /\ shadow_ts["version"] <= wc["version"]
  /\ lock \in {Free} \cup (ClockCpus \X {"thread", "irq"})
  /\ (\A c \in ClockCpus : lock # <<c, "irq">>) => shadow_ts["sec"] = shadow_ts["nsec"]
  /\ \A c \in ClockCpus :
       /\ run[c]["irq"].pc \in WallSteps <=> lock = <<c, "irq">>
       /\ run[c]["irq"].pc = "wall" => run[c]["irq"].i \in 1..3
       /\ run[c]["irq"].pc \in WallSteps => WallProgress(run[c]["irq"])
       /\ InDay(run[c]["thread"]) => lock = <<c, "thread">>
       /\ lock = <<c, "thread">> => run[c]["irq"].pc = "idle"
       /\ run[c]["thread"].pc = "unlock" => run[c]["thread"].day.sec = run[c]["thread"].day.nsec

ClockTimes ==
  /\ src \in [ClockCpus -> Values] /\ shadow \in [ClockCpus -> Values]
  /\ run \in [ClockCpus -> Runs1] /\ torn \subseteq ClockCpus
  /\ left \in [on : SUBSET ClockCpus, updates : Nat, walls : Nat, ticks : Nat, reads : Nat]
  /\ \A c \in ClockCpus : ProcInv(src[c], shadow[c], run[c], c, torn)

ClockInv == ClockTimes /\ WallInv

\* The halves of numbers that follow one another.
LEMMA Halves ==
  /\ \A v \in Nat : /\ v \div 2 \in Nat /\ v % 2 \in {0, 1}
                    /\ v % 2 = 0 => (v + 1) % 2 = 1 /\ (v + 1) \div 2 = v \div 2
                    /\ v % 2 = 1 => (v + 1) % 2 = 0 /\ (v + 1) \div 2 = (v \div 2) + 1
  /\ \A v, w \in Nat : v <= w => v \div 2 <= w \div 2
  OBVIOUS

\* The steps of a call are the thread's and the interrupt's.
LEMMA CallStepsOfBoth ==
  /\ \A p \in CallSteps : p \in ThreadSteps /\ p \in IrqSteps
  /\ "load" \in ThreadSteps /\ "load" \in IrqSteps
  /\ "store" \in ThreadSteps /\ "store" \in IrqSteps
  /\ "wall lock" \in IrqSteps
  BY DEF ThreadSteps, IrqSteps, CallSteps, CopySteps, ReadSteps

\* The processor's own step, outside a copy.
LEMMA QuietStep ==
  ASSUME NEW s, NEW sh, NEW r, NEW c, NEW T, ProcInv(s, sh, r, c, T),
         NEW x \in {"thread", "irq"}, ~Copying(r[x]), x = "irq" <=> r["irq"].pc # "idle",
         NEW q \in Calls, ~Copying(q), q.pc \in IF x = "irq" THEN IrqSteps ELSE ThreadSteps,
         x = "irq" => q.end = "idle",
         c \notin T => Reads(sh, q) /\ Timely(s, q)
  PROVE  ProcInv(s, sh, [r EXCEPT ![x] = q], c, T)
<1> PICK z : z = [r EXCEPT ![x] = q]
  OBVIOUS
<1> SUFFICES ProcInv(s, sh, z, c, T)
  OBVIOUS
<1>1. z \in Runs1 /\ z[x] = q /\ \A y \in {"thread", "irq"} : y # x => z[y] = r[y]
  BY DEF ProcInv, Sound, Runs1
<1>2. Shape(z)
  BY <1>1 DEF ProcInv, Sound, Shape
<1>3. q.pc # "store"
  BY DEF Copying, CopySteps
<1>4. c \notin T => /\ Copying(z["irq"]) => Progress(s, sh, z["irq"])
                    /\ ~Copying(z["irq"]) /\ Copying(z["thread"]) => Progress(s, sh, z["thread"])
                    /\ ~Copying(z["irq"]) /\ (z["irq"].pc # "idle" \/ ~Copying(z["thread"])) => Steady(sh)
                    /\ z["irq"].pc # "idle" => ~(z["thread"].pc = "store" /\ z["thread"].i > 1)
  <2>1. CASE x = "thread"
    BY <1>1, <1>3, <2>1 DEF ProcInv, Sound, Copying, CopySteps
  <2>2. CASE x = "irq"
    BY <1>1, <1>3, <2>2 DEF ProcInv, Sound
  <2> QED BY <2>1, <2>2
<1>5. c \notin T => \A y \in {"thread", "irq"} : Reads(sh, z[y]) /\ Timely(s, z[y])
  BY <1>1 DEF ProcInv, Sound
<1>6. \A y \in {"thread", "irq"} : z[y].pc = "store" /\ z[y].i = 1 =>
        z[y].reg <= s["version"] /\ (y = "irq" => sh["version"] <= z[y].reg)
  BY <1>1, <1>3 DEF ProcInv, Sound
<1>20. c \notin T => Sound(s, sh, z)
  BY <1>4, <1>5 DEF Sound
<1> QED BY <1>1, <1>2, <1>20, <1>6 DEF ProcInv

\* Xen's step: the copy has not the version that is current.
LEMMA XenStep ==
  ASSUME NEW s, NEW sh, NEW r, NEW c, NEW T, ProcInv(s, sh, r, c, T),
         NEW z \in Values, XenValues(z, Three), s["version"] <= z["version"], ~Even(z, sh)
  PROVE  ProcInv(z, sh, r, c, T)
<1>1. s["version"] \in Nat /\ z["version"] \in Nat /\ sh["version"] \in Nat
  BY DEF ProcInv, Sound, Values
<1>2. s["version"] \div 2 <= z["version"] \div 2 /\ s["version"] \div 2 \in Nat /\ z["version"] \div 2 \in Nat
  BY <1>1, Halves
<1>3. \A x \in {"thread", "irq"} : r[x] \in Calls
  BY DEF ProcInv, Sound, Runs1
<1>4. sh["version"] <= z["version"]
  BY <1>1 DEF ProcInv, Sound
<1>5. \A x \in {"thread", "irq"} : r[x].reg \in Nat /\ r[x].local \in Nat /\ r[x].since \in Nat
  BY <1>3 DEF Calls
<1>6. \A x \in {"thread", "irq"} : r[x].pc = "store" /\ r[x].i = 1 =>
        r[x].reg <= z["version"] /\ (x = "irq" => sh["version"] <= r[x].reg)
  BY <1>1, <1>5 DEF ProcInv, Sound
<1>7. \A x \in {"thread", "irq"} : Timely(s, r[x]) => Timely(z, r[x])
  BY <1>1, <1>2, <1>5 DEF Timely
<1>8. \A x \in {"thread", "irq"} : Progress(z, sh, r[x])
  BY DEF Progress
<1> QED BY <1>4, <1>6, <1>7, <1>8 DEF ProcInv, Sound

\* A copy begins, of the thread or of the timer interrupt.
LEMMA StartStep ==
  ASSUME NEW s, NEW sh, NEW r, NEW c, NEW T, ProcInv(s, sh, r, c, T),
         NEW x \in {"thread", "irq"}, ~Copying(r[x]),
         x = "thread" => r["irq"].pc = "idle",
         NEW q \in Calls, q.pc = "load", q.i = 1,
         q.back = "compare" \/ (x = "irq" /\ q.back = "wall lock"),
         x = "irq" => q.end = "idle",
         NEW U, c \in T => c \in U,
         x = "irq" => (c \notin U => ~(r["thread"].pc = "store" /\ r["thread"].i > 1)),
         c \notin U => Timely(s, q)
  PROVE  ProcInv(s, sh, [r EXCEPT ![x] = q], c, U)
<1> PICK z : z = [r EXCEPT ![x] = q]
  OBVIOUS
<1> SUFFICES ProcInv(s, sh, z, c, U)
  OBVIOUS
<1>1. z \in Runs1 /\ z[x] = q /\ \A y \in {"thread", "irq"} : y # x => z[y] = r[y]
  BY DEF ProcInv, Sound, Runs1
<1>2. Shape(z)
  BY <1>1 DEF ProcInv, Sound, Shape, ThreadSteps, IrqSteps, CallSteps, CopySteps
<1>3. Progress(s, sh, q) /\ Copying(q) /\ Reads(sh, q)
  <2>1. Progress(s, sh, q)
    <3>1. \A j \in 2..4 : ~(j < q.i \/ q.pc = "check")
      <4>1. q.i = 1 /\ q.pc = "load"
        OBVIOUS
      <4> HIDE DEF Calls
      <4> QED BY ONLY <4>1
    <3> QED BY <3>1 DEF Progress
  <2> QED BY <2>1 DEF Copying, CopySteps, Reads, ReadSteps
<1>4. c \notin U => /\ Copying(z["irq"]) => Progress(s, sh, z["irq"])
                    /\ ~Copying(z["irq"]) /\ Copying(z["thread"]) => Progress(s, sh, z["thread"])
                    /\ ~Copying(z["irq"]) /\ (z["irq"].pc # "idle" \/ ~Copying(z["thread"])) => Steady(sh)
                    /\ z["irq"].pc # "idle" => ~(z["thread"].pc = "store" /\ z["thread"].i > 1)
  <2>1. CASE x = "thread"
    BY <1>1, <1>3, <2>1 DEF ProcInv, Sound, Copying, CopySteps
  <2>2. CASE x = "irq"
    BY <1>1, <1>3, <2>2 DEF ProcInv, Sound
  <2> QED BY <2>1, <2>2
<1>5. c \notin U => \A y \in {"thread", "irq"} : Reads(sh, z[y]) /\ Timely(s, z[y])
  BY <1>1, <1>3 DEF ProcInv, Sound
<1>6. \A y \in {"thread", "irq"} : z[y].pc = "store" /\ z[y].i = 1 =>
        z[y].reg <= s["version"] /\ (y = "irq" => sh["version"] <= z[y].reg)
  BY <1>1, <1>3 DEF ProcInv, Sound
<1>20. c \notin U => Sound(s, sh, z)
  BY <1>4, <1>5 DEF Sound
<1> QED BY <1>1, <1>2, <1>20, <1>6 DEF ProcInv

\* A value is loaded: the current one, unless the version is odd.
LEMMA LoadStep ==
  ASSUME NEW s, NEW sh, NEW r, NEW c, NEW T, ProcInv(s, sh, r, c, T),
         NEW x \in {"thread", "irq"}, r[x].pc = "load", x = "irq" <=> r["irq"].pc # "idle"
  PROVE  ProcInv(s, sh, [r EXCEPT ![x] = [r[x] EXCEPT !.reg = s[Copied[r[x].i]], !.pc = "store"]], c, T)
<1> PICK q : q = [r[x] EXCEPT !.reg = s[Copied[r[x].i]], !.pc = "store"]
  OBVIOUS
<1> PICK z : z = [r EXCEPT ![x] = q]
  OBVIOUS
<1> SUFFICES ProcInv(s, sh, z, c, T)
  OBVIOUS
<1>1. r[x] \in Calls /\ r[x].i \in 1..4 /\ s \in Values
  BY DEF ProcInv, Sound, Runs1, Calls
<1>2. /\ Copied[1] = "version" /\ Copied[2] \in Three /\ Copied[3] \in Three /\ Copied[4] \in Three
      /\ s["version"] \in Nat /\ \A f \in Three : s[f] \in Nat
  BY <1>1 DEF Copied, Three, Values
<1>3. s[Copied[r[x].i]] \in Nat
  BY <1>1, <1>2
<1>4. /\ q \in Calls /\ q.pc = "store" /\ q.reg = s[Copied[r[x].i]]
      /\ q.i = r[x].i /\ q.back = r[x].back /\ q.local = r[x].local /\ q.since = r[x].since /\ q.end = r[x].end
  BY <1>1, <1>3 DEF Calls, ThreadSteps, CallSteps, CopySteps
<1>5. z \in Runs1 /\ z[x] = q /\ \A y \in {"thread", "irq"} : y # x => z[y] = r[y]
  BY <1>4 DEF ProcInv, Sound, Runs1
<1>6. Copying(r[x]) /\ Copying(q)
  BY <1>4 DEF Copying, CopySteps
<1>7. Shape(z)
  <2>1. q.pc \in ThreadSteps /\ q.pc \in IrqSteps
    BY <1>4, CallStepsOfBoth
  <2>2. CASE x = "thread"
    <3>1. r["thread"].back = "compare" /\ z["thread"] = q /\ z["irq"] = r["irq"] /\ q.back = "compare"
      BY <1>4, <1>5, <1>6, <2>2 DEF ProcInv, Sound, Shape
    <3> QED BY <2>1, <3>1 DEF ProcInv, Sound, Shape
  <2>3. CASE x = "irq"
    <3>1. /\ z["irq"] = q /\ z["thread"] = r["thread"] /\ q.back \in {"compare", "wall lock"}
          /\ q.end = "idle"
      BY <1>4, <1>5, <1>6, <2>3 DEF ProcInv, Sound, Shape
    <3> QED BY <2>1, <3>1 DEF ProcInv, Sound, Shape
  <2> QED BY <2>2, <2>3
<1>8. \A y \in {"thread", "irq"} : z[y].pc = "store" /\ z[y].i = 1 =>
        z[y].reg <= s["version"] /\ (y = "irq" => sh["version"] <= z[y].reg)
  BY <1>2, <1>4, <1>5 DEF ProcInv, Sound
<1>9. Progress(s, sh, r[x]) => Progress(s, sh, q)
  <2>1. Even(s, sh) /\ r[x].i > 1 => s[Copied[r[x].i]] = s["version"] \div 2
    <3>1. r[x].i > 1 => Copied[r[x].i] \in Three
      BY <1>1, <1>2
    <3> QED BY <1>2, <3>1 DEF Even, ProcInv, XenValues
  <2> QED BY <1>4, <2>1 DEF Progress
<1>10. Reads(sh, q) /\ (Timely(s, r[x]) => Timely(s, q))
  BY <1>4, <1>6 DEF Reads, Timely, ReadSteps
<1>11. c \notin T => /\ Copying(z["irq"]) => Progress(s, sh, z["irq"])
                     /\ ~Copying(z["irq"]) /\ Copying(z["thread"]) => Progress(s, sh, z["thread"])
                     /\ ~Copying(z["irq"]) /\ (z["irq"].pc # "idle" \/ ~Copying(z["thread"])) => Steady(sh)
                     /\ z["irq"].pc # "idle" => ~(z["thread"].pc = "store" /\ z["thread"].i > 1)
  <2>1. CASE x = "thread"
    BY <1>5, <1>6, <1>9, <2>1 DEF ProcInv, Sound, Copying, CopySteps
  <2>2. CASE x = "irq"
    BY <1>5, <1>6, <1>9, <2>2 DEF ProcInv, Sound
  <2> QED BY <2>1, <2>2
<1>12. c \notin T => \A y \in {"thread", "irq"} : Reads(sh, z[y]) /\ Timely(s, z[y])
  BY <1>5, <1>10 DEF ProcInv, Sound
<1>20. c \notin T => Sound(s, sh, z)
  BY <1>11, <1>12 DEF Sound
<1> QED BY <1>5, <1>7, <1>8, <1>20 DEF ProcInv

\* It is stored.
LEMMA StoreStep ==
  ASSUME NEW s, NEW sh, NEW r, NEW c, NEW T, ProcInv(s, sh, r, c, T),
         NEW x \in {"thread", "irq"}, r[x].pc = "store", x = "irq" <=> r["irq"].pc # "idle",
         NEW q, q = IF r[x].i = Len(Copied) THEN [r[x] EXCEPT !.pc = "check"]
                    ELSE [r[x] EXCEPT !.i = r[x].i + 1, !.pc = "load"]
  PROVE  ProcInv(s, [sh EXCEPT ![Copied[r[x].i]] = r[x].reg], [r EXCEPT ![x] = q], c, T)
<1> PICK i \in 1..4 : i = r[x].i
  BY DEF ProcInv, Sound, Runs1, Calls
<1> PICK z : z = [r EXCEPT ![x] = q]
  OBVIOUS
<1> PICK h : h = [sh EXCEPT ![Copied[i]] = r[x].reg]
  OBVIOUS
<1> SUFFICES ProcInv(s, h, z, c, T)
  OBVIOUS
<1>1. r[x] \in Calls /\ s \in Values /\ sh \in Values /\ r[x].reg \in Nat
  BY DEF ProcInv, Sound, Runs1, Calls
<1>2. /\ Copied[1] = "version" /\ Copied[2] = "tsc" /\ Copied[3] = "sys" /\ Copied[4] = "scale"
      /\ Len(Copied) = 4
  BY DEF Copied
<1>3. /\ q \in Calls /\ q.pc = IF i = 4 THEN "check" ELSE "load"
      /\ q.i = IF i = 4 THEN 4 ELSE i + 1
      /\ q.back = r[x].back /\ q.local = r[x].local /\ q.since = r[x].since /\ q.end = r[x].end
  <2>1. CASE i = 4
    BY <1>1, <1>2, <2>1 DEF Calls, ThreadSteps, CallSteps, CopySteps
  <2>2. CASE i # 4
    <3>1. "load" \in ThreadSteps \cup IrqSteps /\ i + 1 \in 1..4
      <4>1. i + 1 \in 1..4
        BY <2>2
      <4> QED BY <4>1 DEF ThreadSteps, CallSteps, CopySteps
    <3>2. q = [r[x] EXCEPT !.i = i + 1, !.pc = "load"]
      BY <1>2, <2>2
    <3> QED BY <1>1, <2>2, <3>1, <3>2 DEF Calls
  <2> QED BY <2>1, <2>2
<1>4. h \in Values /\ h[Copied[i]] = r[x].reg /\ \A f \in {"version"} \cup Three : f # Copied[i] => h[f] = sh[f]
  BY <1>1, <1>2 DEF Values, Three
<1>5. z \in Runs1 /\ z[x] = q /\ \A y \in {"thread", "irq"} : y # x => z[y] = r[y]
  BY <1>3 DEF ProcInv, Sound, Runs1
<1>6. Copying(r[x]) /\ Copying(q)
  BY <1>3 DEF Copying, CopySteps
<1>7. Shape(z)
  BY <1>3, <1>5, <1>6 DEF ProcInv, Sound, Shape, ThreadSteps, IrqSteps, CallSteps, CopySteps
<1>8. /\ h["version"] <= s["version"] /\ (x = "irq" => sh["version"] <= h["version"])
      /\ sh["version"] \in Nat /\ h["version"] \in Nat /\ s["version"] \in Nat
  <2>1. CASE i = 1
    BY <1>1, <1>2, <1>4, <2>1 DEF ProcInv, Sound, Values
  <2>2. CASE i # 1
    BY <1>1, <1>2, <1>4, <2>2 DEF ProcInv, Sound, Values
  <2> QED BY <2>1, <2>2
<1>9. \A y \in {"thread", "irq"} : z[y].pc = "store" /\ z[y].i = 1 =>
        z[y].reg <= s["version"] /\ (y = "irq" => h["version"] <= z[y].reg)
  <2>1. q.pc # "store"
    BY <1>3
  <2>2. CASE x = "thread"
    BY <1>5, <2>1, <2>2
  <2>3. CASE x = "irq"
    BY <1>5, <2>1, <2>3 DEF ProcInv, Sound
  <2> QED BY <2>2, <2>3
<1>10. ASSUME Progress(s, sh, r[x])
       PROVE  Progress(s, h, q)
  <2>1. SUFFICES ASSUME Even(s, h)
        PROVE  \A j \in 2..4 : j < q.i \/ q.pc = "check" => h[Copied[j]] = s["version"] \div 2
    BY <1>3 DEF Progress
  <2>2. CASE i = 1
    BY <1>3, <2>2
  <2>3. CASE i # 1
    <3>1. Even(s, sh) /\ i > 1
      BY <1>2, <1>4, <2>1, <2>3 DEF Even
    <3>2. r[x].reg = s["version"] \div 2 /\ \A j \in 2..4 : j < i => sh[Copied[j]] = s["version"] \div 2
      BY <1>10, <3>1 DEF Progress
    <3>3. \A j \in 2..4 : j < i => h[Copied[j]] = sh[Copied[j]]
      BY <1>2, <1>4 DEF Three
    <3>4. \A j \in 2..4 : j < q.i \/ q.pc = "check" => j < i \/ j = i
      BY <1>3
    <3> QED BY <1>4, <3>2, <3>3, <3>4
  <2> QED BY <2>2, <2>3
<1>11. Reads(h, q) /\ (Timely(s, r[x]) => Timely(s, q))
  BY <1>3, <1>6 DEF Reads, Timely, ReadSteps
<1>12. c \notin T => /\ Copying(z["irq"]) => Progress(s, h, z["irq"])
                     /\ ~Copying(z["irq"]) /\ Copying(z["thread"]) => Progress(s, h, z["thread"])
                     /\ ~Copying(z["irq"]) /\ (z["irq"].pc # "idle" \/ ~Copying(z["thread"])) => Steady(h)
                     /\ z["irq"].pc # "idle" => ~(z["thread"].pc = "store" /\ z["thread"].i > 1)
  <2>1. CASE x = "thread"
    BY <1>5, <1>6, <1>10, <2>1 DEF ProcInv, Sound, Copying, CopySteps
  <2>2. CASE x = "irq"
    BY <1>5, <1>6, <1>10, <2>2 DEF ProcInv, Sound
  <2> QED BY <2>1, <2>2
<1>13. c \notin T => \A y \in {"thread", "irq"} : Reads(h, z[y]) /\ Timely(s, z[y])
  <2>1. CASE x = "thread"
    <3>1. Reads(h, r["irq"])
      BY <2>1 DEF Reads, ReadSteps
    <3> QED BY <1>5, <1>11, <2>1, <3>1 DEF ProcInv, Sound
  <2>2. CASE x = "irq"
    <3>1. r["thread"].local \in Nat
      BY DEF ProcInv, Sound, Runs1, Calls
    <3>2. Reads(sh, r["thread"]) => Reads(h, r["thread"])
      BY <1>8, <2>2, <3>1 DEF Reads
    <3> QED BY <1>5, <1>11, <2>2, <3>2 DEF ProcInv, Sound
  <2> QED BY <2>1, <2>2
<1>20. c \notin T => Sound(s, h, z)
  BY <1>12, <1>13 DEF Sound
<1> QED BY <1>4, <1>5, <1>7, <1>8, <1>9, <1>20 DEF ProcInv

\* The copy is taken: it has the version that is current, which is even.
LEMMA TakenStep ==
  ASSUME NEW s, NEW sh, NEW r, NEW c, NEW T, ProcInv(s, sh, r, c, T),
         NEW x \in {"thread", "irq"}, r[x].pc = "check", x = "irq" <=> r["irq"].pc # "idle",
         Even(s, sh)
  PROVE  ProcInv(s, sh, [r EXCEPT ![x] = [r[x] EXCEPT !.pc = r[x].back]], c, T)
<1> PICK q : q = [r[x] EXCEPT !.pc = r[x].back]
  OBVIOUS
<1> PICK z : z = [r EXCEPT ![x] = q]
  OBVIOUS
<1> SUFFICES ProcInv(s, sh, z, c, T)
  OBVIOUS
<1>1. r[x] \in Calls /\ Copying(r[x]) /\ (r[x].back = "compare" \/ (x = "irq" /\ r[x].back = "wall lock"))
  BY DEF ProcInv, Sound, Runs1, Copying, CopySteps, Shape
<1>2. /\ q \in Calls /\ q.pc = r[x].back
      /\ q.back = r[x].back /\ q.local = r[x].local /\ q.since = r[x].since /\ q.end = r[x].end
  BY <1>1 DEF Calls, ThreadSteps, IrqSteps, CallSteps, ReadSteps
<1>3. z \in Runs1 /\ z[x] = q /\ \A y \in {"thread", "irq"} : y # x => z[y] = r[y]
  BY <1>2 DEF ProcInv, Sound, Runs1
<1>4. ~Copying(q) /\ q.pc # "idle"
  BY <1>1, <1>2 DEF Copying, CopySteps
<1>5. Shape(z)
  BY <1>1, <1>2, <1>3, <1>4 DEF ProcInv, Sound, Shape, ThreadSteps, IrqSteps, CallSteps, ReadSteps
<1>6. \A y \in {"thread", "irq"} : z[y].pc = "store" /\ z[y].i = 1 =>
        z[y].reg <= s["version"] /\ (y = "irq" => sh["version"] <= z[y].reg)
  BY <1>3, <1>4 DEF ProcInv, Sound, Copying, CopySteps
<1>7. Progress(s, sh, r[x]) => Steady(sh)
  <2>1. Copied[2] = "tsc" /\ Copied[3] = "sys" /\ Copied[4] = "scale"
    BY DEF Copied
  <2> QED BY <2>1 DEF Progress, Steady, Even, Three
<1>8. Timely(s, r[x]) => Reads(sh, q) /\ Timely(s, q)
  <2>1. q.local \in Nat /\ s["version"] \in Nat /\ sh["version"] = s["version"]
    BY <1>2 DEF Calls, ProcInv, Values, Even
  <2>2. CASE r[x].back = "compare"
    BY <1>1, <1>2, <1>4, <2>1, <2>2 DEF Timely, Reads
  <2>3. CASE r[x].back = "wall lock"
    BY <1>1, <1>2, <1>4, <2>3 DEF Timely, Reads, ReadSteps
  <2> QED BY <1>1, <2>2, <2>3
<1>9. c \notin T => /\ Copying(z["irq"]) => Progress(s, sh, z["irq"])
                    /\ ~Copying(z["irq"]) /\ Copying(z["thread"]) => Progress(s, sh, z["thread"])
                    /\ ~Copying(z["irq"]) /\ (z["irq"].pc # "idle" \/ ~Copying(z["thread"])) => Steady(sh)
                    /\ z["irq"].pc # "idle" => ~(z["thread"].pc = "store" /\ z["thread"].i > 1)
  <2>1. CASE x = "thread"
    BY <1>1, <1>3, <1>4, <1>7, <2>1 DEF ProcInv, Sound, Copying, CopySteps
  <2>2. CASE x = "irq"
    <3>1. Steady(sh) => ((r["thread"].pc = "store" => r["thread"].i = 1) => Progress(s, sh, r["thread"]))
      <4>1. Copied[2] = "tsc" /\ Copied[3] = "sys" /\ Copied[4] = "scale"
        BY DEF Copied
      <4> QED BY <4>1 DEF Progress, Steady, Even, Three
    <3>2. r["thread"].i \in 1..4
      BY DEF ProcInv, Sound, Runs1, Calls
    <3>3. ASSUME c \notin T
          PROVE  /\ Steady(sh) /\ (r["thread"].pc = "store" => r["thread"].i = 1)
                 /\ ~(r["thread"].pc = "store" /\ r["thread"].i > 1)
      <4>1. Progress(s, sh, r["irq"]) /\ ~(r["thread"].pc = "store" /\ r["thread"].i > 1)
        BY <1>1, <2>2, <3>3 DEF ProcInv, Sound
      <4>2. r["thread"].pc = "store" => r["thread"].i = 1
        BY <3>2, <4>1
      <4> QED BY <1>7, <2>2, <4>1, <4>2
    <3> QED BY <1>3, <1>4, <2>2, <3>1, <3>3
  <2> QED BY <2>1, <2>2
<1>10. c \notin T => \A y \in {"thread", "irq"} : Reads(sh, z[y]) /\ Timely(s, z[y])
  BY <1>3, <1>8 DEF ProcInv, Sound
<1>20. c \notin T => Sound(s, sh, z)
  BY <1>9, <1>10 DEF Sound
<1> QED BY <1>3, <1>5, <1>6, <1>20 DEF ProcInv

\* It is not, and is made again.
LEMMA AgainStep ==
  ASSUME NEW s, NEW sh, NEW r, NEW c, NEW T, ProcInv(s, sh, r, c, T),
         NEW x \in {"thread", "irq"}, r[x].pc = "check", x = "irq" <=> r["irq"].pc # "idle"
  PROVE  ProcInv(s, sh, [r EXCEPT ![x] = [r[x] EXCEPT !.pc = "load", !.i = 1]], c, T)
<1> PICK q : q = [r[x] EXCEPT !.pc = "load", !.i = 1]
  OBVIOUS
<1> PICK z : z = [r EXCEPT ![x] = q]
  OBVIOUS
<1> SUFFICES ProcInv(s, sh, z, c, T)
  OBVIOUS
<1>1. r[x] \in Calls /\ Copying(r[x])
  BY DEF ProcInv, Sound, Runs1, Copying, CopySteps, Shape
<1>2. /\ q \in Calls /\ q.pc = "load" /\ q.i = 1
      /\ q.back = r[x].back /\ q.local = r[x].local /\ q.since = r[x].since /\ q.end = r[x].end
  <2>1. "load" \in ThreadSteps \cup IrqSteps /\ 1 \in 1..4
    BY DEF ThreadSteps, CallSteps, CopySteps
  <2> QED BY <1>1, <2>1 DEF Calls
<1>3. z \in Runs1 /\ z[x] = q /\ \A y \in {"thread", "irq"} : y # x => z[y] = r[y]
  BY <1>2 DEF ProcInv, Sound, Runs1
<1>4. Copying(q) /\ Progress(s, sh, q) /\ Reads(sh, q) /\ (Timely(s, r[x]) => Timely(s, q))
  <2>1. Copying(q)
    BY <1>2 DEF Copying, CopySteps
  <2>2. Progress(s, sh, q)
    BY <1>2 DEF Progress
  <2> QED BY <1>1, <1>2, <2>1, <2>2 DEF Reads, ReadSteps, Timely
<1>5. Shape(z)
  <2>1. q.pc \in ThreadSteps /\ q.pc \in IrqSteps
    BY <1>2, CallStepsOfBoth
  <2>2. CASE x = "thread"
    <3>1. r["thread"].back = "compare" /\ z["thread"] = q /\ z["irq"] = r["irq"] /\ q.back = "compare"
      BY <1>1, <1>2, <1>3, <1>4, <2>2 DEF ProcInv, Sound, Shape
    <3> QED BY <2>1, <3>1 DEF ProcInv, Sound, Shape
  <2>3. CASE x = "irq"
    <3>1. /\ z["irq"] = q /\ z["thread"] = r["thread"] /\ q.back \in {"compare", "wall lock"}
          /\ q.end = "idle"
      BY <1>1, <1>2, <1>3, <1>4, <2>3 DEF ProcInv, Sound, Shape
    <3> QED BY <2>1, <3>1 DEF ProcInv, Sound, Shape
  <2> QED BY <2>2, <2>3
<1>6. \A y \in {"thread", "irq"} : z[y].pc = "store" /\ z[y].i = 1 =>
        z[y].reg <= s["version"] /\ (y = "irq" => sh["version"] <= z[y].reg)
  BY <1>2, <1>3 DEF ProcInv, Sound
<1>7. c \notin T => /\ Copying(z["irq"]) => Progress(s, sh, z["irq"])
                    /\ ~Copying(z["irq"]) /\ Copying(z["thread"]) => Progress(s, sh, z["thread"])
                    /\ ~Copying(z["irq"]) /\ (z["irq"].pc # "idle" \/ ~Copying(z["thread"])) => Steady(sh)
                    /\ z["irq"].pc # "idle" => ~(z["thread"].pc = "store" /\ z["thread"].i > 1)
  <2>1. CASE x = "thread"
    BY <1>2, <1>3, <1>4, <2>1 DEF ProcInv, Sound
  <2>2. CASE x = "irq"
    BY <1>2, <1>3, <1>4, <2>2 DEF ProcInv, Sound
  <2> QED BY <2>1, <2>2
<1>8. c \notin T => \A y \in {"thread", "irq"} : Reads(sh, z[y]) /\ Timely(s, z[y])
  BY <1>3, <1>4 DEF ProcInv, Sound
<1>20. c \notin T => Sound(s, sh, z)
  BY <1>7, <1>8 DEF Sound
<1> QED BY <1>3, <1>5, <1>6, <1>20 DEF ProcInv

\* Only whether the processor is among the torn ones matters.
LEMMA SameProc ==
  ASSUME NEW s, NEW sh, NEW r, NEW c, NEW T, NEW U, ProcInv(s, sh, r, c, T), c \in T <=> c \in U
  PROVE  ProcInv(s, sh, r, c, U)
  BY DEF ProcInv, Sound

\* The part of ClockInv about one processor, after that processor's step.
LEMMA OwnStep ==
  ASSUME ClockTimes, NEW c \in ClockCpus, NEW x \in {"thread", "irq"}, NEW q \in Calls, Becomes(c, x, q),
         UNCHANGED src, left' = left \/ left' \in [on : SUBSET ClockCpus, updates : Nat, walls : Nat, ticks : Nat, reads : Nat],
         shadow' \in [ClockCpus -> Values], \A d \in ClockCpus : d # c => shadow'[d] = shadow[d],
         torn' = torn \/ torn' = torn \cup {c},
         ProcInv(src[c], shadow'[c], [run[c] EXCEPT ![x] = q], c, torn')
  PROVE  ClockTimes'
<1>1. run' \in [ClockCpus -> Runs1]
  BY DEF ClockTimes, Becomes, Runs1
<1>2. run'[c] = [run[c] EXCEPT ![x] = q] /\ \A d \in ClockCpus : d # c => run'[d] = run[d]
  BY DEF ClockTimes, Becomes, Runs1
<1>3. ASSUME NEW d \in ClockCpus PROVE ProcInv(src'[d], shadow'[d], run'[d], d, torn')
  <2>1. CASE d = c
    BY <1>2, <2>1
  <2>2. CASE d # c
    <3>1. shadow'[d] = shadow[d] /\ run'[d] = run[d] /\ src'[d] = src[d] /\ (d \in torn <=> d \in torn')
      BY <1>2, <2>2
    <3>2. ProcInv(src[d], shadow[d], run[d], d, torn)
      BY DEF ClockTimes
    <3> QED BY <3>1, <3>2, SameProc
  <2> QED BY <2>1, <2>2
<1> QED BY <1>1, <1>3 DEF ClockTimes

\* What the steps below find on their processor.
LEMMA Found ==
  ASSUME ClockTimes, NEW c \in ClockCpus, NEW x \in {"thread", "irq"}
  PROVE  /\ run[c] \in Runs1 /\ run[c][x] \in Calls /\ src[c] \in Values /\ shadow[c] \in Values
         /\ src[c]["version"] \in Nat /\ shadow[c]["version"] \in Nat
         /\ ProcInv(src[c], shadow[c], run[c], c, torn)
         /\ Executes(c, x) => (x = "irq" <=> run[c]["irq"].pc # "idle")
<1>1. run[c] \in Runs1 /\ src[c] \in Values /\ shadow[c] \in Values
  BY DEF ClockTimes
<1>2. run[c][x] \in Calls
  BY <1>1 DEF Runs1
<1> QED BY <1>1, <1>2 DEF ClockTimes, Values, Executes

\* A step outside a copy that leaves the data alone.
LEMMA QuietAction ==
  ASSUME ClockTimes, NEW c \in ClockCpus, NEW x \in {"thread", "irq"}, Executes(c, x),
         ~Copying(run[c][x]), NEW q \in Calls, ~Copying(q), Becomes(c, x, q),
         x = "irq" => run[c]["irq"].pc # "idle",
         q.pc \in IF x = "irq" THEN IrqSteps ELSE ThreadSteps, x = "irq" => q.end = "idle",
         c \notin torn => Reads(shadow[c], q) /\ Timely(src[c], q),
         UNCHANGED <<src, shadow, torn>>,
         left' = left \/ left' \in [on : SUBSET ClockCpus, updates : Nat, walls : Nat, ticks : Nat, reads : Nat]
  PROVE  ClockTimes'
<1>1. ProcInv(src[c], shadow[c], run[c], c, torn) /\ (x = "irq" <=> run[c]["irq"].pc # "idle")
  BY Found
<1>2. ProcInv(src[c], shadow[c], [run[c] EXCEPT ![x] = q], c, torn)
  BY <1>1, QuietStep
<1>3. ProcInv(src[c], shadow'[c], [run[c] EXCEPT ![x] = q], c, torn')
  BY <1>2
<1> QED BY <1>3, OwnStep DEF ClockTimes

\* The initial call record and what is made of it.
LEMMA NoCallTyped ==
  /\ NoCall \in Calls /\ NoCall.pc = "idle" /\ NoCall.end = "idle"
  /\ \A p \in ThreadSteps \cup IrqSteps : [NoCall EXCEPT !.pc = p] \in Calls /\ [NoCall EXCEPT !.pc = p].pc = p
       /\ [NoCall EXCEPT !.pc = p].end = "idle"
<1>1. Of1({"tsc", "sys", "scale"}) \in [Three -> Nat] /\ Of1({"sec", "nsec"}) \in [{"sec", "nsec"} -> Nat]
  BY DEF Of1, Three
<1>2. NoCall \in Calls
  BY <1>1 DEF NoCall, Calls, ThreadSteps
<1>3. NoCall.pc = "idle" /\ NoCall.end = "idle"
  BY DEF NoCall
<1> QED BY <1>2, <1>3 DEF Calls

\* A call of monotonic_clock has its type.
LEMMA CalledTyped ==
  ASSUME ClockTimes, NEW c \in ClockCpus, NEW e \in {"idle", "day"}
  PROVE  /\ Called(c, e) \in Calls /\ Called(c, e).pc = "local" /\ Called(c, e).end = e
         /\ Called(c, e).since = src[c]["version"] \div 2
<1>1. NoCall \in Calls /\ src[c]["version"] \div 2 \in Nat
  BY NoCallTyped, Found, Halves
<1>2. "local" \in ThreadSteps
  BY DEF ThreadSteps, CallSteps
<1> QED BY <1>1, <1>2 DEF Called, Calls

\* monotonic_clock or gettimeofday is called.
LEMMA CallsKept ==
  ASSUME ClockTimes, NEW c \in ClockCpus, monotonic_clock(c) \/ gettimeofday(c)
  PROVE  ClockTimes'
<1>1. PICK e \in {"idle", "day"} : Becomes(c, "thread", Called(c, e))
  BY DEF monotonic_clock, gettimeofday
<1>2. PICK q : q = Called(c, e)
  OBVIOUS
<1>3. q \in Calls /\ q.pc = "local" /\ q.since = src[c]["version"] \div 2
  BY <1>2, CalledTyped
<1>4. /\ Executes(c, "thread") /\ run[c]["thread"].pc = "idle" /\ UNCHANGED <<src, shadow, torn>>
      /\ left.reads > 0 /\ left' = [left EXCEPT !.reads = @ - 1]
  BY DEF monotonic_clock, gettimeofday, Doing, ckXen
<1>5. left' \in [on : SUBSET ClockCpus, updates : Nat, walls : Nat, ticks : Nat, reads : Nat]
  BY <1>4 DEF ClockTimes
<1>6. ~Copying(run[c]["thread"]) /\ ~Copying(q) /\ q.pc \in ThreadSteps
  BY <1>3, <1>4 DEF Copying, CopySteps, ThreadSteps, CallSteps
<1>7. Reads(shadow[c], q) /\ Timely(src[c], q)
  <2>1. src[c]["version"] \div 2 \in Nat
    BY Found, Halves
  <2> QED BY <1>3, <1>6, <2>1 DEF Reads, Timely, ReadSteps, Copying
<1> QED BY <1>1, <1>2, <1>3, <1>4, <1>5, <1>6, <1>7, QuietAction

\* The version is read before the copy is used.
LEMMA ReadVersionKept ==
  ASSUME ClockTimes, NEW c \in ClockCpus, NEW x \in {"thread", "irq"}, ReadVersion(c, x)
  PROVE  ClockTimes'
<1>1. PICK q : q = [run[c][x] EXCEPT !.local = shadow[c].version, !.pc = "sys"]
  OBVIOUS
<1>2. /\ Executes(c, x) /\ run[c][x].pc = "local" /\ Becomes(c, x, q)
      /\ UNCHANGED <<src, shadow, torn, left>>
  BY <1>1 DEF ReadVersion, Doing, ckXen, ckData
<1>3. run[c][x] \in Calls /\ shadow[c]["version"] \in Nat
  BY Found
<1>4. "sys" \in ThreadSteps /\ "sys" \in IrqSteps
  BY DEF ThreadSteps, IrqSteps, CallSteps, ReadSteps
<1>5. /\ q \in Calls /\ q.pc = "sys" /\ q.local = shadow[c]["version"]
      /\ q.since = run[c][x].since /\ q.end = run[c][x].end
  BY <1>1, <1>3, <1>4 DEF Calls
<1>6. ~Copying(run[c][x]) /\ ~Copying(q)
  BY <1>2, <1>5 DEF Copying, CopySteps
<1>7. c \notin torn => Timely(src[c], run[c][x])
  BY Found DEF ProcInv, Sound
<1>8. Reads(shadow[c], q) /\ (Timely(src[c], run[c][x]) => Timely(src[c], q))
  BY <1>2, <1>3, <1>5, <1>6 DEF Reads, ReadSoFar, Timely, ReadSteps
<1>9. x = "irq" => run[c]["irq"].pc # "idle" /\ q.end = "idle"
  BY <1>2, <1>5, Found DEF ProcInv, Sound, Shape
<1> QED BY <1>2, <1>4, <1>5, <1>6, <1>7, <1>8, <1>9, QuietAction

\* get_nsec_offset reads a value.
LEMMA GetNsecOffsetKept ==
  ASSUME ClockTimes, NEW c \in ClockCpus, NEW x \in {"thread", "irq"}, get_nsec_offset(c, x)
  PROVE  ClockTimes'
<1>1. PICK f \in DOMAIN AfterRead : /\ Doing(c, x, f)
          /\ Becomes(c, x, [run[c][x] EXCEPT !.read[f] = shadow[c][f], !.pc = AfterRead[f]])
          /\ UNCHANGED <<ckXen, ckData>>
  BY DEF get_nsec_offset
<1>2. /\ f \in Three /\ AfterRead[f] \in {"tsc", "scale", "fresh"}
      /\ f = "sys" => AfterRead[f] = "tsc"
      /\ f = "tsc" => AfterRead[f] = "scale"
      /\ f = "scale" => AfterRead[f] = "fresh"
  BY DEF AfterRead, Three
<1>3. run[c][x] \in Calls /\ shadow[c] \in Values /\ shadow[c]["version"] \in Nat
  BY Found
<1>4. PICK rd : rd = [run[c][x].read EXCEPT ![f] = shadow[c][f]]
  OBVIOUS
<1>5. rd \in [Three -> Nat] /\ rd[f] = shadow[c][f] /\ \A g \in Three : g # f => rd[g] = run[c][x].read[g]
  BY <1>2, <1>3, <1>4 DEF Calls, Values, Three
<1>6. PICK q : q = [run[c][x] EXCEPT !.read = rd, !.pc = AfterRead[f]]
  OBVIOUS
<1>7. /\ Executes(c, x) /\ run[c][x].pc = f /\ Becomes(c, x, q)
      /\ UNCHANGED <<src, shadow, torn, left>>
  BY <1>1, <1>4, <1>6 DEF Doing, ckXen, ckData
<1>8. AfterRead[f] \in ThreadSteps /\ AfterRead[f] \in IrqSteps
  BY <1>2 DEF ThreadSteps, IrqSteps, CallSteps, ReadSteps
<1>9. /\ q \in Calls /\ q.pc = AfterRead[f] /\ q.read = rd /\ q.local = run[c][x].local
      /\ q.since = run[c][x].since /\ q.end = run[c][x].end
  BY <1>3, <1>5, <1>6, <1>8 DEF Calls
<1>10. ~Copying(run[c][x]) /\ ~Copying(q)
  BY <1>2, <1>7, <1>9 DEF Copying, CopySteps, Three
<1>11. c \notin torn => Timely(src[c], run[c][x]) /\ Reads(shadow[c], run[c][x])
  BY Found DEF ProcInv, Sound
<1>12. c \notin torn => Steady(shadow[c])
  <2>1. x = "irq" <=> run[c]["irq"].pc # "idle"
    BY <1>7, Found
  <2> QED BY <1>10, <2>1, Found DEF ProcInv, Sound, Copying, CopySteps
<1>13. Timely(src[c], run[c][x]) => Timely(src[c], q)
  BY <1>2, <1>7, <1>9, <1>10 DEF Timely, ReadSteps, Three
<1>14. ASSUME Reads(shadow[c], run[c][x]), Steady(shadow[c])
       PROVE  Reads(shadow[c], q)
  <2>1. /\ q.local <= shadow[c]["version"]
        /\ q.local = shadow[c]["version"] => \A g \in ReadSoFar(run[c][x]) : run[c][x].read[g] = q.local \div 2
    BY <1>2, <1>7, <1>9, <1>14 DEF Reads, ReadSteps, Three
  <2>2. \A g \in ReadSoFar(q) : g = f \/ (g \in ReadSoFar(run[c][x]) /\ g # f /\ g \in Three)
    <3>1. CASE f = "sys"
      BY <1>2, <1>7, <1>9, <3>1 DEF ReadSoFar
    <3>2. CASE f = "tsc"
      BY <1>2, <1>7, <1>9, <3>2 DEF ReadSoFar, Three
    <3>3. CASE f = "scale"
      BY <1>2, <1>7, <1>9, <3>3 DEF ReadSoFar, Three
    <3> QED BY <1>2, <3>1, <3>2, <3>3 DEF Three
  <2>3. rd[f] = shadow[c]["version"] \div 2
    BY <1>2, <1>5, <1>14 DEF Steady
  <2>4. q.local = shadow[c]["version"] => \A g \in ReadSoFar(q) : q.read[g] = q.local \div 2
    BY <1>5, <1>9, <2>1, <2>2, <2>3
  <2>5. q.pc # "compare"
    BY <1>2, <1>9
  <2> QED BY <2>1, <2>4, <2>5 DEF Reads
<1>15. x = "irq" => run[c]["irq"].pc # "idle" /\ q.end = "idle"
  BY <1>7, <1>9, Found DEF ProcInv, Sound, Shape
<1> QED BY <1>7, <1>8, <1>9, <1>10, <1>11, <1>12, <1>13, <1>14, <1>15, QuietAction

\* Refresh: the copy is brought up to date, or it is.
LEMMA RefreshKept ==
  ASSUME ClockTimes, NEW c \in ClockCpus, NEW x \in {"thread", "irq"}, Refresh(c, x)
  PROVE  ClockTimes'
<1>1. /\ Executes(c, x) /\ run[c][x].pc = "fresh" /\ UNCHANGED <<src, shadow, torn, left>>
  BY DEF Refresh, Doing, ckXen, ckData
<1>2. /\ run[c][x] \in Calls /\ shadow[c] \in Values /\ src[c] \in Values
      /\ shadow[c]["version"] \in Nat /\ src[c]["version"] \in Nat
      /\ ProcInv(src[c], shadow[c], run[c], c, torn) /\ (x = "irq" <=> run[c]["irq"].pc # "idle")
  BY <1>1, Found
<1>3. ~Copying(run[c][x])
  BY <1>1 DEF Copying, CopySteps
<1>4. c \notin torn => Timely(src[c], run[c][x]) /\ Reads(shadow[c], run[c][x])
  BY <1>2 DEF ProcInv, Sound
<1>5. x = "irq" => run[c][x].end = "idle"
  BY <1>2 DEF ProcInv, Shape
<1>6. /\ run[c][x].local \in Nat /\ run[c][x].since \in Nat
      /\ src[c]["version"] \div 2 \in Nat /\ shadow[c]["version"] <= src[c]["version"]
  BY <1>2, Halves DEF Calls, ProcInv
<1>7. CASE time_values_up_to_date(c)
  <2>1. PICK q : q = [run[c][x] EXCEPT !.pc = "compare"]
    OBVIOUS
  <2>2. "compare" \in ThreadSteps /\ "compare" \in IrqSteps
    BY DEF ThreadSteps, IrqSteps, CallSteps, ReadSteps
  <2>3. /\ q \in Calls /\ q.pc = "compare" /\ q.read = run[c][x].read
        /\ q.local = run[c][x].local /\ q.since = run[c][x].since /\ q.end = run[c][x].end
    BY <1>2, <2>1, <2>2 DEF Calls
  <2>4. Becomes(c, x, q) /\ ~Copying(q)
    BY <1>7, <2>1, <2>3 DEF Refresh, Copying, CopySteps
  <2>5. shadow[c]["version"] = src[c]["version"]
    BY <1>7 DEF time_values_up_to_date
  <2>6. Timely(src[c], run[c][x]) => run[c][x].since <= src[c]["version"] \div 2
    BY <1>1 DEF Timely, ReadSteps
  <2>7. c \notin torn => Timely(src[c], q)
    BY <1>4, <2>3, <2>4, <2>6 DEF Timely
  <2>8. ReadSoFar(q) = ReadSoFar(run[c][x])
    BY <1>1, <2>3 DEF ReadSoFar
  <2>9. c \notin torn => Reads(shadow[c], q)
    BY <1>1, <1>4, <2>3, <2>5, <2>6, <2>8 DEF Reads, ReadSteps
  <2> QED BY <1>1, <1>2, <1>3, <1>5, <2>2, <2>3, <2>4, <2>7, <2>9, QuietAction
<1>8. CASE ~time_values_up_to_date(c)
  <2>1. PICK q : q = [run[c][x] EXCEPT !.pc = "load", !.i = 1, !.back = "compare"]
    OBVIOUS
  <2>2. "load" \in ThreadSteps /\ 1 \in 1..4 /\ "compare" \in {"idle", "compare", "wall lock"}
    BY DEF ThreadSteps, CallSteps, CopySteps
  <2>3. /\ q \in Calls /\ q.pc = "load" /\ q.i = 1 /\ q.back = "compare"
        /\ q.local = run[c][x].local /\ q.since = run[c][x].since /\ q.end = run[c][x].end
    BY <1>2, <2>1, <2>2 DEF Calls
  <2>4. Becomes(c, x, q)
    BY <1>8, <2>1 DEF Refresh
  <2>5. shadow[c]["version"] # src[c]["version"]
    BY <1>8 DEF time_values_up_to_date
  <2>6. Timely(src[c], run[c][x]) => run[c][x].since <= src[c]["version"] \div 2
    BY <1>1 DEF Timely, ReadSteps
  <2>7. Reads(shadow[c], run[c][x]) => run[c][x].local < src[c]["version"]
    BY <1>1, <1>2, <1>6, <2>5 DEF Reads, ReadSteps
  <2>8. c \notin torn => Timely(src[c], q)
    BY <1>4, <2>3, <2>6, <2>7 DEF Timely
  <2>9. c \notin torn /\ x = "irq" => ~(run[c]["thread"].pc = "store" /\ run[c]["thread"].i > 1)
    BY <1>2 DEF ProcInv, Sound
  <2>10. ProcInv(src[c], shadow[c], [run[c] EXCEPT ![x] = q], c, torn)
    BY <1>2, <1>3, <1>5, <2>3, <2>8, <2>9, StartStep
  <2>11. ProcInv(src[c], shadow'[c], [run[c] EXCEPT ![x] = q], c, torn')
    BY <1>1, <2>10
  <2> QED BY <1>1, <2>3, <2>4, <2>11, OwnStep DEF ClockTimes
<1> QED BY <1>7, <1>8

\* CompareVersions: the reads were of one copy, or begin again.
LEMMA CompareVersionsKept ==
  ASSUME ClockTimes, NEW c \in ClockCpus, NEW x \in {"thread", "irq"}, CompareVersions(c, x)
  PROVE  ClockTimes'
<1>1. /\ Executes(c, x) /\ run[c][x].pc = "compare" /\ UNCHANGED <<src, shadow, torn, left>>
  BY DEF CompareVersions, Doing, ckXen, ckData
<1>2. /\ run[c][x] \in Calls /\ shadow[c]["version"] \in Nat
      /\ ProcInv(src[c], shadow[c], run[c], c, torn) /\ (x = "irq" <=> run[c]["irq"].pc # "idle")
  BY <1>1, Found
<1>3. PICK p \in {"local", "time"} : p = IF run[c][x].local # shadow[c].version THEN "local" ELSE "time"
  OBVIOUS
<1>4. PICK q : q = [run[c][x] EXCEPT !.pc = p]
  OBVIOUS
<1>5. p \in ThreadSteps /\ p \in IrqSteps
  BY DEF ThreadSteps, IrqSteps, CallSteps
<1>6. /\ q \in Calls /\ q.pc = p /\ q.read = run[c][x].read
      /\ q.local = run[c][x].local /\ q.since = run[c][x].since /\ q.end = run[c][x].end
  BY <1>2, <1>4, <1>5 DEF Calls
<1>7. Becomes(c, x, q)
  BY <1>3, <1>4 DEF CompareVersions, Goes
<1>8. ~Copying(run[c][x]) /\ ~Copying(q)
  BY <1>1, <1>3, <1>6 DEF Copying, CopySteps
<1>9. x = "irq" => run[c][x].end = "idle"
  BY <1>2 DEF ProcInv, Shape
<1>10. Reads(shadow[c], q)
  BY <1>3, <1>6 DEF Reads, ReadSteps
<1>11. c \notin torn => Timely(src[c], run[c][x]) /\ Reads(shadow[c], run[c][x])
  BY <1>2 DEF ProcInv, Sound
<1>12. ASSUME Timely(src[c], run[c][x]), Reads(shadow[c], run[c][x])
       PROVE  Timely(src[c], q)
  <2>1. run[c][x].since <= src[c]["version"] \div 2
    BY <1>1, <1>12 DEF Timely, ReadSteps
  <2>2. CASE p = "local"
    BY <1>6, <1>8, <2>1, <2>2 DEF Timely
  <2>3. CASE p = "time"
    <3>1. run[c][x].local = shadow[c]["version"]
      BY <1>3, <2>3
    <3>2. ReadSoFar(run[c][x]) = Three
      BY <1>1 DEF ReadSoFar
    <3>3. /\ \A f \in Three : run[c][x].read[f] = run[c][x].local \div 2
          /\ run[c][x].since <= run[c][x].local \div 2
      BY <1>1, <1>12, <3>1, <3>2 DEF Reads, ReadSteps
    <3>4. run[c][x].local \div 2 \in Nat
      BY <1>2, <3>1, Halves
    <3> QED BY <1>6, <1>8, <2>3, <3>3, <3>4 DEF Timely, ReadSteps
  <2> QED BY <2>2, <2>3
<1> QED BY <1>1, <1>2, <1>5, <1>6, <1>7, <1>8, <1>9, <1>10, <1>11, <1>12, QuietAction

\* What is read and compared is of no concern outside a call.
LEMMA Aside ==
  ASSUME NEW s, NEW sh, NEW q, q.pc \notin CallSteps
  PROVE  Reads(sh, q) /\ Timely(s, q) /\ ~Copying(q)
  BY DEF Reads, Timely, Copying, CallSteps, ReadSteps, CopySteps

\* A time is returned.
LEMMA ReturnTimeKept ==
  ASSUME ClockTimes, NEW c \in ClockCpus, NEW x \in {"thread", "irq"}, ReturnTime(c, x)
  PROVE  ClockTimes'
<1>1. /\ Executes(c, x) /\ run[c][x].pc = "time" /\ UNCHANGED <<src, shadow, torn, left>>
  BY DEF ReturnTime, Doing, ckXen, ckData
<1>2. /\ run[c][x] \in Calls
      /\ ProcInv(src[c], shadow[c], run[c], c, torn) /\ (x = "irq" <=> run[c]["irq"].pc # "idle")
  BY <1>1, Found
<1>3. PICK p \in {"idle", "day"} : p = run[c][x].end
  BY <1>2 DEF Calls
<1>4. PICK q : q = [NoCall EXCEPT !.pc = p]
  OBVIOUS
<1>5. p \in ThreadSteps /\ (x = "irq" => p = "idle") /\ "idle" \in IrqSteps
  BY <1>2, <1>3 DEF ThreadSteps, IrqSteps, ProcInv, Shape
<1>6. q \in Calls /\ q.pc = p /\ q.end = "idle"
  BY <1>4, <1>5, NoCallTyped
<1>7. Becomes(c, x, q)
  BY <1>3, <1>4 DEF ReturnTime
<1>8. ~Copying(run[c][x]) /\ p \notin CallSteps
  BY <1>1 DEF Copying, CopySteps, CallSteps, ReadSteps
<1> QED BY <1>1, <1>2, <1>5, <1>6, <1>7, <1>8, Aside, QuietAction

\* A value of Xen's page is loaded.
LEMMA LoadValueKept ==
  ASSUME ClockTimes, NEW c \in ClockCpus, NEW x \in {"thread", "irq"}, LoadValue(c, x)
  PROVE  ClockTimes'
<1>1. /\ Executes(c, x) /\ run[c][x].pc = "load" /\ UNCHANGED <<src, shadow, torn, left>>
  BY DEF LoadValue, Doing, ckXen, ckData
<1>2. /\ ProcInv(src[c], shadow[c], run[c], c, torn) /\ (x = "irq" <=> run[c]["irq"].pc # "idle")
  BY <1>1, Found
<1>3. PICK q : q = [run[c][x] EXCEPT !.reg = src[c][Copied[run[c][x].i]], !.pc = "store"]
  OBVIOUS
<1>4. Becomes(c, x, q)
  BY <1>3 DEF LoadValue
<1>5. ProcInv(src[c], shadow[c], [run[c] EXCEPT ![x] = q], c, torn)
  BY <1>1, <1>2, <1>3, LoadStep
<1>6. ProcInv(src[c], shadow'[c], [run[c] EXCEPT ![x] = q], c, torn')
  BY <1>1, <1>5
<1>7. q \in Calls
  <2>1. [run[c] EXCEPT ![x] = q] \in Runs1
    BY <1>5 DEF ProcInv
  <2>2. [run[c] EXCEPT ![x] = q][x] = q
    BY Found DEF Runs1
  <2> QED BY <2>1, <2>2 DEF Runs1
<1> QED BY <1>1, <1>4, <1>6, <1>7, OwnStep DEF ClockTimes

\* The value is stored in the copy.
LEMMA StoreValueKept ==
  ASSUME ClockTimes, NEW c \in ClockCpus, NEW x \in {"thread", "irq"}, StoreValue(c, x)
  PROVE  ClockTimes'
<1>1. /\ Executes(c, x) /\ run[c][x].pc = "store" /\ UNCHANGED <<src, torn, left>>
  BY DEF StoreValue, Doing, ckXen
<1>2. /\ ProcInv(src[c], shadow[c], run[c], c, torn) /\ (x = "irq" <=> run[c]["irq"].pc # "idle")
      /\ shadow[c] \in Values /\ run[c] \in Runs1 /\ run[c][x] \in Calls
  BY <1>1, Found
<1>3. PICK q : q = IF run[c][x].i = Len(Copied) THEN [run[c][x] EXCEPT !.pc = "check"]
                   ELSE [run[c][x] EXCEPT !.i = run[c][x].i + 1, !.pc = "load"]
  OBVIOUS
<1>4. Becomes(c, x, q)
  BY <1>3 DEF StoreValue
<1>5. shadow' = [shadow EXCEPT ![c] = [shadow[c] EXCEPT ![Copied[run[c][x].i]] = run[c][x].reg]]
  BY DEF StoreValue
<1>6. PICK h : h = [shadow[c] EXCEPT ![Copied[run[c][x].i]] = run[c][x].reg]
  OBVIOUS
<1>7. ProcInv(src[c], h, [run[c] EXCEPT ![x] = q], c, torn)
  BY <1>1, <1>2, <1>3, <1>6, StoreStep
<1>8. h \in Values /\ [run[c] EXCEPT ![x] = q] \in Runs1
  BY <1>7 DEF ProcInv
<1>9. shadow'[c] = h /\ shadow' \in [ClockCpus -> Values] /\ \A d \in ClockCpus : d # c => shadow'[d] = shadow[d]
  BY <1>5, <1>6, <1>8 DEF ClockTimes
<1>10. ProcInv(src[c], shadow'[c], [run[c] EXCEPT ![x] = q], c, torn')
  BY <1>1, <1>7, <1>9
<1>11. q \in Calls
  <2>1. [run[c] EXCEPT ![x] = q][x] = q
    BY <1>2 DEF Runs1
  <2> QED BY <1>8, <2>1 DEF Runs1
<1> QED BY <1>1, <1>4, <1>9, <1>10, <1>11, OwnStep

\* The version is looked at after the copy.
LEMMA CheckVersionKept ==
  ASSUME ClockTimes, NEW c \in ClockCpus, NEW x \in {"thread", "irq"}, CheckVersion(c, x)
  PROVE  ClockTimes'
<1>1. /\ Executes(c, x) /\ run[c][x].pc = "check" /\ UNCHANGED <<src, shadow, torn, left>>
  BY DEF CheckVersion, Doing, ckXen, ckData
<1>2. /\ ProcInv(src[c], shadow[c], run[c], c, torn) /\ (x = "irq" <=> run[c]["irq"].pc # "idle")
      /\ src[c]["version"] \in Nat /\ run[c] \in Runs1
  BY <1>1, Found
<1>3. PICK q : Becomes(c, x, q) /\ ProcInv(src[c], shadow[c], [run[c] EXCEPT ![x] = q], c, torn)
  <2>1. CASE src[c].version % 2 = 1 \/ ~time_values_up_to_date(c)
    <3>1. Becomes(c, x, [run[c][x] EXCEPT !.pc = "load", !.i = 1])
      BY <2>1 DEF CheckVersion
    <3> QED BY <1>1, <1>2, <3>1, AgainStep
  <2>2. CASE ~(src[c].version % 2 = 1 \/ ~time_values_up_to_date(c))
    <3>1. Becomes(c, x, [run[c][x] EXCEPT !.pc = run[c][x].back])
      BY <2>2 DEF CheckVersion
    <3>2. Even(src[c], shadow[c])
      BY <1>2, <2>2, Halves DEF Even, time_values_up_to_date
    <3> QED BY <1>1, <1>2, <3>1, <3>2, TakenStep
  <2> QED BY <2>1, <2>2
<1>4. ProcInv(src[c], shadow'[c], [run[c] EXCEPT ![x] = q], c, torn')
  BY <1>1, <1>3
<1>5. q \in Calls
  <2>1. [run[c] EXCEPT ![x] = q] \in Runs1
    BY <1>3 DEF ProcInv
  <2>2. [run[c] EXCEPT ![x] = q][x] = q
    BY <1>2 DEF Runs1
  <2> QED BY <2>1, <2>2 DEF Runs1
<1> QED BY <1>1, <1>3, <1>4, <1>5, OwnStep DEF ClockTimes

\* The steps of gettimeofday and of the timer interrupt outside a copy and a
\* call leave the processors' times alone.
LEMMA AsideAction ==
  ASSUME ClockTimes, NEW c \in ClockCpus, NEW x \in {"thread", "irq"}, Executes(c, x),
         run[c][x].pc \notin CallSteps, NEW q \in Calls, q.pc \notin CallSteps, Becomes(c, x, q),
         x = "irq" => run[c]["irq"].pc # "idle",
         q.pc \in IF x = "irq" THEN IrqSteps ELSE ThreadSteps, x = "irq" => q.end = "idle",
         UNCHANGED <<src, shadow, torn, left>>
  PROVE  ClockTimes'
  BY Aside, QuietAction

\* gettimeofday reads the wall clock.
LEMMA DayStepKept ==
  ASSUME ClockTimes, WallInv, NEW c \in ClockCpus, DayStep(c)
  PROVE  ClockTimes'
<1>1. CASE ReadDay(c)
  <2>1. PICK d \in [{"sec", "nsec"} -> Nat] : d = [sec |-> shadow_ts.sec, nsec |-> shadow_ts.nsec]
    <3>1. shadow_ts["sec"] \in Nat /\ shadow_ts["nsec"] \in Nat
      BY DEF WallInv, WallValues
    <3>2. \A m, n \in Nat : [sec |-> m, nsec |-> n] \in [{"sec", "nsec"} -> Nat]
      OBVIOUS
    <3> QED BY <3>1, <3>2
  <2>2. PICK q : q = [run[c]["thread"] EXCEPT !.day = d, !.pc = "unlock"]
    OBVIOUS
  <2>3. /\ Executes(c, "thread") /\ run[c]["thread"].pc = "day" /\ Becomes(c, "thread", q)
        /\ UNCHANGED <<src, shadow, torn, left>>
    BY <1>1, <2>1, <2>2 DEF ReadDay, Doing, ckXen, ckData
  <2>4. "unlock" \in ThreadSteps /\ "unlock" \notin CallSteps /\ "day" \notin CallSteps
    BY DEF ThreadSteps, CallSteps, ReadSteps, CopySteps
  <2>5. q \in Calls /\ q.pc = "unlock"
    BY <2>2, <2>4, Found DEF Calls
  <2> QED BY <2>3, <2>4, <2>5, AsideAction
<1>2. CASE EndDay(c)
  <2>1. /\ Executes(c, "thread") /\ run[c]["thread"].pc = "unlock" /\ Becomes(c, "thread", NoCall)
        /\ UNCHANGED <<src, shadow, torn, left>>
    BY <1>2 DEF EndDay, Doing, ckXen
  <2>2. "idle" \in ThreadSteps /\ "unlock" \notin CallSteps /\ "idle" \notin CallSteps
    BY DEF ThreadSteps, CallSteps, ReadSteps, CopySteps
  <2> QED BY <2>1, <2>2, NoCallTyped, AsideAction
<1> QED BY <1>1, <1>2 DEF DayStep

\* The timer interrupt comes.
LEMMA TimerHandlerKept ==
  ASSUME ClockTimes, NEW c \in ClockCpus, timer_handler(c)
  PROVE  ClockTimes'
<1>1. PICK q : q = [NoCall EXCEPT !.pc = "load", !.back = "wall lock"]
  OBVIOUS
<1>2. /\ Becomes(c, "irq", q) /\ run[c]["irq"].pc = "idle" /\ UNCHANGED <<src, shadow>>
      /\ left.ticks > 0 /\ left' = [left EXCEPT !.ticks = @ - 1]
      /\ torn' = IF run[c]["thread"].pc = "store" /\ run[c]["thread"].i # 1 THEN torn \cup {c} ELSE torn
  BY <1>1 DEF timer_handler, ckXen, Executes
<1>3. left' \in [on : SUBSET ClockCpus, updates : Nat, walls : Nat, ticks : Nat, reads : Nat]
  BY <1>2 DEF ClockTimes
<1>4. "load" \in ThreadSteps \cup IrqSteps
  BY DEF ThreadSteps, CallSteps, CopySteps
<1>5. /\ q \in Calls /\ q.pc = "load" /\ q.i = 1 /\ q.back = "wall lock" /\ q.end = "idle" /\ q.since = 0
  BY <1>1, <1>4, NoCallTyped DEF Calls, NoCall
<1>6. /\ run[c]["thread"].i \in 1..4 /\ src[c]["version"] \in Nat /\ src[c]["version"] \div 2 \in Nat
      /\ ProcInv(src[c], shadow[c], run[c], c, torn)
  BY Found, Halves DEF Calls
<1>7. Timely(src[c], q)
  <2>1. q.pc # "time" /\ q.back # "compare" /\ q.since <= src[c]["version"] \div 2
    <3>1. \A n \in Nat : 0 <= n
      OBVIOUS
    <3> QED BY <1>5, <1>6, <3>1
  <2> QED BY <2>1 DEF Timely
<1>8. ~Copying(run[c]["irq"])
  BY <1>2 DEF Copying, CopySteps
<1>9. c \notin torn' => ~(run[c]["thread"].pc = "store" /\ run[c]["thread"].i > 1)
  BY <1>2, <1>6
<1>10. torn' = torn \/ torn' = torn \cup {c}
  BY <1>2
<1>11. PICK U : U = torn'
  OBVIOUS
<1>12. ProcInv(src[c], shadow[c], [run[c] EXCEPT !["irq"] = q], c, U)
  <2>1. c \in torn => c \in U
    BY <1>10, <1>11
  <2> QED BY <1>5, <1>6, <1>7, <1>8, <1>9, <1>11, <2>1, StartStep
<1>13. ProcInv(src[c], shadow'[c], [run[c] EXCEPT !["irq"] = q], c, torn')
  BY <1>2, <1>11, <1>12
<1>14. shadow' \in [ClockCpus -> Values] /\ \A d \in ClockCpus : d # c => shadow'[d] = shadow[d]
  BY <1>2 DEF ClockTimes
<1> QED BY <1>2, <1>3, <1>5, <1>10, <1>13, <1>14, OwnStep

\* The timer handler copies the wall clock.
LEMMA HandlerStepKept ==
  ASSUME ClockTimes, WallInv, NEW c \in ClockCpus, HandlerStep(c)
  PROVE  ClockTimes'
<1>1. {"idle", "wall lock", "wall", "wall check"} \subseteq IrqSteps \ CallSteps
  BY DEF IrqSteps, CallSteps, ReadSteps, CopySteps
<1>2. run[c]["irq"] \in Calls /\ run[c]["irq"].end = "idle"
  BY Found DEF ProcInv, Shape
<1>3. /\ Executes(c, "irq") /\ run[c]["irq"].pc \in {"wall lock", "wall", "wall check"}
      /\ UNCHANGED <<src, shadow, torn, left>>
  BY DEF HandlerStep, LockWall, CopyWall, CheckWall, Doing, ckXen
<1>4. CASE \E p \in {"wall", "wall check"}, i \in 1..4 :
             Becomes(c, "irq", [run[c]["irq"] EXCEPT !.pc = p, !.i = i])
  <2>1. PICK p \in {"wall", "wall check"}, i \in 1..4 :
          Becomes(c, "irq", [run[c]["irq"] EXCEPT !.pc = p, !.i = i])
    BY <1>4
  <2>2. PICK q : q = [run[c]["irq"] EXCEPT !.pc = p, !.i = i]
    OBVIOUS
  <2>3. q \in Calls /\ q.pc = p /\ q.end = "idle"
    <3>1. p \in ThreadSteps \cup IrqSteps
      BY <1>1
    <3> HIDE DEF ThreadSteps, IrqSteps
    <3>2. PICK P : P = ThreadSteps \cup IrqSteps
      OBVIOUS
    <3> QED BY <1>2, <2>2, <3>1, <3>2 DEF Calls
  <2>4. run[c]["irq"].pc # "idle" /\ p \in IrqSteps /\ p \notin CallSteps /\ run[c]["irq"].pc \notin CallSteps
    BY <1>1, <1>3
  <2>5. Becomes(c, "irq", q)
    BY <2>1, <2>2
  <2> QED BY <1>3, <2>3, <2>4, <2>5, AsideAction
<1>5. CASE Becomes(c, "irq", NoCall)
  BY <1>1, <1>3, <1>5, NoCallTyped, AsideAction
<1>6. CASE Becomes(c, "irq", Called(c, "idle"))
  <2>1. PICK q : q = Called(c, "idle")
    OBVIOUS
  <2>2. q \in Calls /\ q.pc = "local" /\ q.since = src[c]["version"] \div 2 /\ q.end = "idle"
    BY <2>1, CalledTyped
  <2>3. ~Copying(run[c]["irq"]) /\ ~Copying(q) /\ "local" \in IrqSteps
    BY <1>3, <2>2 DEF Copying, CopySteps, IrqSteps, CallSteps
  <2>4. Reads(shadow[c], q) /\ Timely(src[c], q)
    <3>1. src[c]["version"] \div 2 \in Nat
      BY Found, Halves
    <3> QED BY <2>2, <2>3, <3>1 DEF Reads, Timely, ReadSteps
  <2>5. run[c]["irq"].pc # "idle"
    BY <1>3
  <2> QED BY <1>3, <1>6, <2>1, <2>2, <2>3, <2>4, <2>5, QuietAction
<1>7. \/ \E p \in {"wall", "wall check"}, i \in 1..4 :
           Becomes(c, "irq", [run[c]["irq"] EXCEPT !.pc = p, !.i = i])
      \/ Becomes(c, "irq", NoCall) \/ Becomes(c, "irq", Called(c, "idle"))
  <2>1. CASE LockWall(c)
    <3>1. Becomes(c, "irq", [run[c]["irq"] EXCEPT !.pc = "wall", !.i = 1])
      BY <2>1 DEF LockWall
    <3> QED BY <3>1
  <2>2. CASE CopyWall(c)
    <3>1. PICK i \in 1..3 : i = run[c]["irq"].i /\ run[c]["irq"].pc = "wall"
      BY <2>2 DEF CopyWall, Doing, WallInv
    <3>2. run[c]["irq"] = [run[c]["irq"] EXCEPT !.i = i] /\ run[c]["irq"] = [run[c]["irq"] EXCEPT !.pc = "wall"]
      BY <1>2, <3>1 DEF Calls
    <3>3. Len(WallCopied) = 3
      BY DEF WallCopied
    <3>4. CASE i = 3
      <4>1. Becomes(c, "irq", [run[c]["irq"] EXCEPT !.pc = "wall check"])
        BY <2>2, <3>1, <3>3, <3>4 DEF CopyWall
      <4>2. [run[c]["irq"] EXCEPT !.pc = "wall check"] = [run[c]["irq"] EXCEPT !.pc = "wall check", !.i = i]
        BY <1>2, <3>1 DEF Calls
      <4>3. i \in 1..4
        OBVIOUS
      <4> QED BY <4>1, <4>2, <4>3
    <3>5. CASE i # 3
      <4>1. Becomes(c, "irq", [run[c]["irq"] EXCEPT !.i = i + 1])
        BY <2>2, <3>1, <3>3, <3>5 DEF CopyWall
      <4>2. [run[c]["irq"] EXCEPT !.i = i + 1] = [run[c]["irq"] EXCEPT !.pc = "wall", !.i = i + 1]
        <5>1. PICK k : k = i + 1
          OBVIOUS
        <5>2. [run[c]["irq"] EXCEPT !.i = k] = [run[c]["irq"] EXCEPT !.pc = "wall", !.i = k]
          BY <1>2, <3>1 DEF Calls
        <5> QED BY <5>1, <5>2
      <4>3. i + 1 \in 1..4
        OBVIOUS
      <4> QED BY <4>1, <4>2, <4>3
    <3> QED BY <3>4, <3>5
  <2>3. CASE CheckWall(c)
    <3>1. \/ Becomes(c, "irq", [run[c]["irq"] EXCEPT !.pc = "wall", !.i = 1])
          \/ Becomes(c, "irq", NoCall) \/ Becomes(c, "irq", Called(c, "idle"))
      BY <2>3 DEF CheckWall
    <3> QED BY <3>1
  <2> QED BY <2>1, <2>2, <2>3 DEF HandlerStep
<1> QED BY <1>4, <1>5, <1>6, <1>7

\* A step of Xen's on the values of a processor or on the wall clock: the version
\* does not fall, and a copy that has it has an odd one.
LEMMA Advances ==
  ASSUME NEW F, "version" \notin F, NEW s \in [{"version"} \cup F -> Nat], XenValues(s, F),
         NEW sh, sh["version"] \in Nat, sh["version"] <= s["version"], NEW z,
         \/ (s["version"] % 2 = 0 \/ Stale(s) = {}) /\ z = Began(s)
         \/ s["version"] % 2 = 1 /\ \E f \in Stale(s) : z = Changed(s, f)
  PROVE  /\ z \in [{"version"} \cup F -> Nat] /\ XenValues(z, F) /\ s["version"] <= z["version"]
         /\ ~Even(z, sh)
<1>1. PICK v \in Nat : v = s["version"]
  OBVIOUS
<1>2. Fields(s) = F
  BY DEF Fields
<1>3. CASE (s["version"] % 2 = 0 \/ Stale(s) = {}) /\ z = Began(s)
  <2>1. z = [s EXCEPT !["version"] = v + 1]
    BY <1>1, <1>3 DEF Began
  <2>2. z \in [{"version"} \cup F -> Nat] /\ z["version"] = v + 1 /\ \A f \in F : z[f] = s[f]
    BY <1>1, <2>1
  <2>3. ~Even(z, sh)
    BY <1>1, <2>2 DEF Even
  <2>4. XenValues(z, F)
    <3>1. CASE v % 2 = 0
      BY <1>1, <2>2, <3>1, Halves DEF XenValues
    <3>2. CASE v % 2 = 1
      <4>1. \A f \in F : s[f] = (v + 1) \div 2
        BY <1>1, <1>2, <1>3, <3>2 DEF Stale
      <4> QED BY <2>2, <4>1 DEF XenValues
    <3> QED BY <3>1, <3>2, Halves
  <2> QED BY <1>1, <2>2, <2>3, <2>4
<1>4. CASE s["version"] % 2 = 1 /\ \E f \in Stale(s) : z = Changed(s, f)
  <2>1. PICK f \in F : z = [s EXCEPT ![f] = (v + 1) \div 2]
    BY <1>1, <1>2, <1>4 DEF Stale, Changed
  <2>2. (v + 1) \div 2 = (v \div 2) + 1 /\ (v \div 2) + 1 \in Nat
    BY <1>1, <1>4, Halves
  <2>3. /\ z \in [{"version"} \cup F -> Nat] /\ z["version"] = v /\ z[f] = (v \div 2) + 1
        /\ \A g \in F : g # f => z[g] = s[g]
    BY <1>1, <2>1, <2>2
  <2>4. ~Even(z, sh)
    BY <1>1, <1>4, <2>3 DEF Even
  <2>5. XenValues(z, F)
    BY <1>1, <1>4, <2>3 DEF XenValues
  <2> QED BY <1>1, <2>3, <2>4, <2>5
<1> QED BY <1>3, <1>4

\* Xen's steps on the time of a processor, and on the wall clock.
LEMMA XenKept ==
  ASSUME ClockTimes, XenBegins \/ XenWrites \/ XenEnds
  PROVE  ClockTimes'
<1>1. /\ UNCHANGED <<shadow, torn, run>>
      /\ left' \in [on : SUBSET ClockCpus, updates : Nat, walls : Nat, ticks : Nat, reads : Nat]
  <2>1. UNCHANGED <<shadow, torn, run>>
    BY DEF XenBegins, XenWrites, XenEnds, ckData
  <2>2. \/ left' = left \/ (left.updates > 0 /\ left' = [left EXCEPT !.updates = @ - 1])
        \/ (left.walls > 0 /\ left' = [left EXCEPT !.walls = @ - 1])
    BY DEF XenBegins, XenWrites, XenEnds, ckData
  <2> QED BY <2>1, <2>2 DEF ClockTimes
<1>2. CASE src' = src
  <2>1. src' \in [ClockCpus -> Values] /\ shadow' \in [ClockCpus -> Values] /\ run' \in [ClockCpus -> Runs1]
        /\ torn' \subseteq ClockCpus
    BY <1>1, <1>2 DEF ClockTimes
  <2> QED BY <1>1, <1>2, <2>1 DEF ClockTimes
<1>3. CASE src' # src
  <2>1. \E c \in ClockCpus : \E z :
          /\ src' = [src EXCEPT ![c] = z]
          /\ \/ (src[c]["version"] % 2 = 0 \/ Stale(src[c]) = {}) /\ z = Began(src[c])
             \/ src[c]["version"] % 2 = 1 /\ \E f \in Stale(src[c]) : z = Changed(src[c], f)
    <3>1. CASE XenBegins
      BY <1>3, <3>1 DEF XenBegins, ClockTimes
    <3>2. CASE XenWrites
      BY <1>3, <3>2 DEF XenWrites
    <3>3. CASE XenEnds
      BY <1>3, <3>3 DEF XenEnds
    <3> QED BY <3>1, <3>2, <3>3
  <2>a. PICK c \in ClockCpus : \E z :
          /\ src' = [src EXCEPT ![c] = z]
          /\ \/ (src[c]["version"] % 2 = 0 \/ Stale(src[c]) = {}) /\ z = Began(src[c])
             \/ src[c]["version"] % 2 = 1 /\ \E f \in Stale(src[c]) : z = Changed(src[c], f)
    BY <2>1
  <2>b. PICK z :
          /\ src' = [src EXCEPT ![c] = z]
          /\ \/ (src[c]["version"] % 2 = 0 \/ Stale(src[c]) = {}) /\ z = Began(src[c])
             \/ src[c]["version"] % 2 = 1 /\ \E f \in Stale(src[c]) : z = Changed(src[c], f)
    BY <2>a
  <2>2. z \in Values /\ XenValues(z, Three) /\ src[c]["version"] <= z["version"] /\ ~Even(z, shadow[c])
    <3>1. Values = [{"version"} \cup Three -> Nat] /\ "version" \notin Three
      BY DEF Values, Three
    <3>2. /\ src[c] \in [{"version"} \cup Three -> Nat] /\ XenValues(src[c], Three)
          /\ shadow[c]["version"] \in Nat /\ shadow[c]["version"] <= src[c]["version"]
      BY <3>1, Found DEF ProcInv
    <3>3. z \in [{"version"} \cup Three -> Nat] /\ XenValues(z, Three) /\ src[c]["version"] <= z["version"]
          /\ ~Even(z, shadow[c])
      BY <2>b, <3>1, <3>2, Advances
    <3> QED BY <3>1, <3>3
  <2>3. ProcInv(z, shadow[c], run[c], c, torn)
    BY <2>2, Found, XenStep
  <2>4. src' \in [ClockCpus -> Values] /\ src'[c] = z /\ \A d \in ClockCpus : d # c => src'[d] = src[d]
    BY <2>b, <2>2 DEF ClockTimes
  <2>5. ASSUME NEW d \in ClockCpus PROVE ProcInv(src'[d], shadow[d], run[d], d, torn)
    BY <2>3, <2>4 DEF ClockTimes
  <2> QED BY <1>1, <2>4, <2>5 DEF ClockTimes
<1> QED BY <1>2, <1>3

\* The same of the wall clock.
LEMMA XenWallKept ==
  ASSUME WallInv, XenBegins \/ XenWrites \/ XenEnds
  PROVE  WallInv'
<1>1. UNCHANGED <<shadow_ts, lock, run>>
  BY DEF XenBegins, XenWrites, XenEnds, ckData
<1>2. CASE wc' = wc
  BY <1>1, <1>2 DEF WallInv, WallProgress, InDay
<1>3. CASE wc' # wc
  <2>b. \/ (wc["version"] % 2 = 0 \/ Stale(wc) = {}) /\ wc' = Began(wc)
        \/ wc["version"] % 2 = 1 /\ \E f \in Stale(wc) : wc' = Changed(wc, f)
    BY <1>3 DEF XenBegins, XenWrites, XenEnds
  <2>2. /\ wc' \in WallValues /\ XenValues(wc', {"sec", "nsec"}) /\ ~Even(wc', shadow_ts)
        /\ shadow_ts["version"] <= wc'["version"]
    <3>1. PICK F : F = {"sec", "nsec"}
      OBVIOUS
    <3>2. WallValues = [{"version"} \cup F -> Nat] /\ "version" \notin F
      BY <3>1 DEF WallValues
    <3>3. /\ wc \in [{"version"} \cup F -> Nat] /\ XenValues(wc, F)
          /\ shadow_ts["version"] \in Nat /\ shadow_ts["version"] <= wc["version"]
      BY <3>1, <3>2 DEF WallInv, WallValues
    <3>4. PICK z : z = wc'
      OBVIOUS
    <3>5. z \in [{"version"} \cup F -> Nat] /\ XenValues(z, F) /\ wc["version"] <= z["version"] /\ ~Even(z, shadow_ts)
      BY <2>b, <3>2, <3>3, <3>4, Advances
    <3>6. wc["version"] \in Nat /\ z["version"] \in Nat
      BY <3>3, <3>5
    <3> QED BY <3>1, <3>2, <3>3, <3>4, <3>5, <3>6
  <2>3. \A c \in ClockCpus : WallProgress(run[c]["irq"])'
    BY <1>1, <2>2 DEF WallProgress
  <2> QED BY <1>1, <2>2, <2>3 DEF WallInv, InDay
<1> QED BY <1>2, <1>3

\* A thread's step, or one of the handler away from the wall clock, leaves the
\* wall clock's copy and its lock alone.
LEMMA WallQuiet ==
  ASSUME ClockTimes, WallInv, NEW c \in ClockCpus, NEW x \in {"thread", "irq"}, NEW q, Becomes(c, x, q),
         UNCHANGED <<wc, shadow_ts, lock>>,
         x = "irq" => /\ run[c]["irq"].pc \notin WallSteps /\ q.pc \notin WallSteps
                      /\ lock # <<c, "thread">>,
         x = "thread" => /\ InDay(q) => lock = <<c, "thread">>
                         /\ q.pc = "unlock" => q.day.sec = q.day.nsec
  PROVE  WallInv'
<1>1. run'[c][x] = q /\ \A d \in ClockCpus, y \in {"thread", "irq"} : d # c \/ y # x => run'[d][y] = run[d][y]
  BY DEF ClockTimes, Becomes, Runs1
<1>2. ASSUME NEW d \in ClockCpus
      PROVE  /\ run'[d]["irq"].pc \in WallSteps <=> lock = <<d, "irq">>
             /\ run'[d]["irq"].pc = "wall" => run'[d]["irq"].i \in 1..3
             /\ run'[d]["irq"].pc \in WallSteps => run'[d]["irq"] = run[d]["irq"]
             /\ InDay(run'[d]["thread"]) => lock = <<d, "thread">>
             /\ lock = <<d, "thread">> => run'[d]["irq"].pc = "idle"
             /\ run'[d]["thread"].pc = "unlock" => run'[d]["thread"].day.sec = run'[d]["thread"].day.nsec
  <2>b. CASE d = c /\ x = "irq"
    <3>1. run'[d]["irq"] = q /\ run'[d]["thread"] = run[d]["thread"]
      BY <1>1, <2>b
    <3>2. q.pc # "wall" /\ q.pc \notin WallSteps
      BY <2>b DEF WallSteps
    <3> QED BY <2>b, <3>1, <3>2 DEF WallInv
  <2>2. CASE d = c /\ x = "thread"
    <3>1. run'[d]["irq"] = run[d]["irq"] /\ run'[d]["thread"] = q
      BY <1>1, <2>2
    <3> QED BY <2>2, <3>1 DEF WallInv
  <2>3. CASE d # c
    <3>1. run'[d]["irq"] = run[d]["irq"] /\ run'[d]["thread"] = run[d]["thread"]
      BY <1>1, <2>3
    <3> QED BY <3>1 DEF WallInv
  <2> QED BY <2>b, <2>2, <2>3
<1>3. \A d \in ClockCpus : run'[d]["irq"].pc \in WallSteps => WallProgress(run[d]["irq"])'
  <2> SUFFICES ASSUME NEW d \in ClockCpus, run'[d]["irq"].pc \in WallSteps
               PROVE  WallProgress(run[d]["irq"])'
    OBVIOUS
  <2>b. run'[d]["irq"] = run[d]["irq"] /\ run[d]["irq"].pc \in WallSteps
    BY <1>2
  <2>2. WallProgress(run[d]["irq"])
    BY <2>b DEF WallInv
  <2> QED BY <2>b, <2>2 DEF WallProgress
<1> QED BY <1>2, <1>3 DEF WallInv, InDay

\* How a call goes on.
LEMMA CallStepShape ==
  ASSUME ClockTimes, NEW c \in ClockCpus, NEW x \in {"thread", "irq"}, ClockStep(c, x)
  PROVE  /\ Executes(c, x) /\ run[c][x].pc \in CallSteps /\ UNCHANGED <<wc, shadow_ts, lock>>
         /\ \E q : /\ Becomes(c, x, q)
                   /\ \/ q.pc \in CallSteps /\ q.end = run[c][x].end
                      \/ q.pc = run[c][x].end
                      \/ x = "irq" /\ q.pc = "wall lock"
<1>1. /\ {"local", "sys", "tsc", "scale", "fresh", "compare", "time", "load", "store", "check"} \subseteq CallSteps
  BY DEF CallSteps, ReadSteps, CopySteps
<1>2. run[c][x] \in Calls
  BY Found
<1>3. CASE ReadVersion(c, x)
  <2>b. PICK q : q = [run[c][x] EXCEPT !.local = shadow[c].version, !.pc = "sys"]
    OBVIOUS
  <2>2. q.pc = "sys" /\ q.end = run[c][x].end
    BY <1>2, <2>b DEF Calls
  <2> QED BY <1>1, <1>3, <2>b, <2>2 DEF ReadVersion, Doing, ckXen, ckData
<1>4. CASE get_nsec_offset(c, x)
  <2>1. PICK f \in DOMAIN AfterRead : /\ Doing(c, x, f)
          /\ Becomes(c, x, [run[c][x] EXCEPT !.read[f] = shadow[c][f], !.pc = AfterRead[f]])
          /\ UNCHANGED <<ckXen, ckData>>
    BY <1>4 DEF get_nsec_offset
  <2>2. f \in CallSteps /\ AfterRead[f] \in CallSteps
    BY <1>1 DEF AfterRead
  <2>3. PICK rd : rd = [run[c][x].read EXCEPT ![f] = shadow[c][f]]
    OBVIOUS
  <2>4. PICK q : q = [run[c][x] EXCEPT !.read = rd, !.pc = AfterRead[f]]
    OBVIOUS
  <2>5. q.pc = AfterRead[f] /\ q.end = run[c][x].end
    BY <1>2, <2>4 DEF Calls
  <2>6. Becomes(c, x, q)
    BY <2>1, <2>3, <2>4
  <2> QED BY <2>1, <2>2, <2>5, <2>6 DEF Doing, ckXen, ckData
<1>5. CASE Refresh(c, x)
  <2>1. PICK q : q = IF time_values_up_to_date(c)
                     THEN [run[c][x] EXCEPT !.pc = "compare"]
                     ELSE [run[c][x] EXCEPT !.pc = "load", !.i = 1, !.back = "compare"]
    OBVIOUS
  <2>2. q.pc \in {"compare", "load"} /\ q.end = run[c][x].end
    BY <1>2, <2>1 DEF Calls
  <2>3. Becomes(c, x, q)
    BY <1>5, <2>1 DEF Refresh
  <2> QED BY <1>1, <1>5, <2>2, <2>3 DEF Refresh, Doing, ckXen, ckData
<1>6. CASE CompareVersions(c, x)
  <2>1. PICK p \in {"local", "time"} : p = IF run[c][x].local # shadow[c].version THEN "local" ELSE "time"
    OBVIOUS
  <2>2. PICK q : q = [run[c][x] EXCEPT !.pc = p]
    OBVIOUS
  <2>3. q.pc = p /\ q.end = run[c][x].end
    BY <1>2, <2>2 DEF Calls
  <2>4. Becomes(c, x, q)
    BY <1>6, <2>1, <2>2 DEF CompareVersions, Goes
  <2> QED BY <1>1, <1>6, <2>3, <2>4 DEF CompareVersions, Doing, ckXen, ckData
<1>7. CASE ReturnTime(c, x)
  <2>1. PICK q : q = [NoCall EXCEPT !.pc = run[c][x].end]
    OBVIOUS
  <2>2. q.pc = run[c][x].end
    BY <2>1 DEF NoCall
  <2>3. Becomes(c, x, q)
    BY <1>7, <2>1 DEF ReturnTime
  <2> QED BY <1>1, <1>7, <2>2, <2>3 DEF ReturnTime, Doing, ckXen, ckData
<1>8. CASE LoadValue(c, x)
  <2>1. PICK q : q = [run[c][x] EXCEPT !.reg = src[c][Copied[run[c][x].i]], !.pc = "store"]
    OBVIOUS
  <2>2. q.pc = "store" /\ q.end = run[c][x].end
    BY <1>2, <2>1 DEF Calls
  <2>3. Becomes(c, x, q)
    BY <1>8, <2>1 DEF LoadValue
  <2> QED BY <1>1, <1>8, <2>2, <2>3 DEF LoadValue, Doing, ckXen, ckData
<1>9. CASE StoreValue(c, x)
  <2>1. PICK k : k = run[c][x].i + 1
    OBVIOUS
  <2>2. PICK q : q = IF run[c][x].i = Len(Copied) THEN [run[c][x] EXCEPT !.pc = "check"]
                     ELSE [run[c][x] EXCEPT !.i = k, !.pc = "load"]
    OBVIOUS
  <2>3. q.pc \in {"check", "load"} /\ q.end = run[c][x].end
    BY <1>2, <2>2 DEF Calls
  <2>4. Becomes(c, x, q)
    BY <1>9, <2>1, <2>2 DEF StoreValue
  <2> QED BY <1>1, <1>9, <2>3, <2>4 DEF StoreValue, Doing, ckXen
<1>10. CASE CheckVersion(c, x)
  <2>1. PICK q : q = IF src[c].version % 2 = 1 \/ ~time_values_up_to_date(c)
                     THEN [run[c][x] EXCEPT !.pc = "load", !.i = 1]
                     ELSE [run[c][x] EXCEPT !.pc = run[c][x].back]
    OBVIOUS
  <2>2. q.pc \in {"load", run[c][x].back} /\ q.end = run[c][x].end
    BY <1>2, <2>1 DEF Calls
  <2>3. Becomes(c, x, q) /\ Executes(c, x) /\ run[c][x].pc = "check" /\ UNCHANGED <<wc, shadow_ts, lock>>
    BY <1>10, <2>1 DEF CheckVersion, Doing, ckXen, ckData
  <2>4. run[c][x].back = "compare" \/ (x = "irq" /\ run[c][x].back = "wall lock")
    BY <2>3, Found DEF ProcInv, Shape, Copying, CopySteps
  <2> QED BY <1>1, <2>2, <2>3, <2>4
<1> QED BY <1>3, <1>4, <1>5, <1>6, <1>7, <1>8, <1>9, <1>10 DEF ClockStep

\* A step of monotonic_clock leaves the wall clock alone.
LEMMA ClockStepWallKept ==
  ASSUME ClockTimes, WallInv, NEW c \in ClockCpus, NEW x \in {"thread", "irq"}, ClockStep(c, x)
  PROVE  WallInv'
<1>1. PICK q : /\ Becomes(c, x, q)
               /\ \/ q.pc \in CallSteps /\ q.end = run[c][x].end
                  \/ q.pc = run[c][x].end
                  \/ x = "irq" /\ q.pc = "wall lock"
  BY CallStepShape
<1>2. Executes(c, x) /\ run[c][x].pc \in CallSteps /\ UNCHANGED <<wc, shadow_ts, lock>>
  BY CallStepShape
<1>3. run[c][x].end \in {"idle", "day"} /\ (x = "irq" => run[c][x].end = "idle")
  BY Found DEF ProcInv, Shape, Calls
<1>4. \A p \in CallSteps : p \notin WallSteps /\ p # "unlock"
  BY DEF CallSteps, ReadSteps, CopySteps, WallSteps
<1>5. q.pc \notin WallSteps /\ q.pc # "unlock"
  BY <1>1, <1>3, <1>4 DEF WallSteps
<1>6. x = "irq" => lock # <<c, "thread">>
  BY <1>2 DEF WallInv, Executes
<1>7. x = "thread" => (InDay(q) => lock = <<c, "thread">>)
  <2>1. CASE x = "thread"
    <3>1. InDay(q) => run[c]["thread"].end = "day"
      BY <1>1, <1>2, <1>3, <1>5, <2>1 DEF InDay, CallSteps, ReadSteps, CopySteps
    <3>2. run[c]["thread"].end = "day" => InDay(run[c]["thread"])
      BY <1>2, <2>1 DEF InDay
    <3> QED BY <3>1, <3>2 DEF WallInv
  <2> QED BY <2>1
<1> QED BY <1>1, <1>2, <1>4, <1>5, <1>6, <1>7, WallQuiet

\* A lock of a processor's context is not free, and is of one context alone.
LEMMA LockOfOne ==
  /\ \A d, y : Free # <<d, y>>
  /\ \A d, y, e, w : <<d, y>> = <<e, w>> => d = e /\ y = w
<1>1. ASSUME NEW d, NEW y PROVE Free # <<d, y>>
  <2>1. Len(<<d, y>>) = 2 /\ Len(Free) = 1
    BY DEF Free
  <2> QED BY <2>1
<1> QED BY <1>1

\* A step that takes, gives back or works on the wall clock.
LEMMA WallOwn ==
  ASSUME ClockTimes, WallInv, NEW c \in ClockCpus, NEW th, NEW iq,
         run'[c]["thread"] = th, run'[c]["irq"] = iq,
         \A d \in ClockCpus, y \in {"thread", "irq"} : d # c => run'[d][y] = run[d][y],
         UNCHANGED wc, shadow_ts' \in WallValues, shadow_ts'["version"] <= wc["version"],
         lock' \in {Free} \cup (ClockCpus \X {"thread", "irq"}),
         (\A d \in ClockCpus : lock' # <<d, "irq">>) => shadow_ts'["sec"] = shadow_ts'["nsec"],
         \A d \in ClockCpus, y \in {"thread", "irq"} : d # c => (lock' = <<d, y>> <=> lock = <<d, y>>),
         shadow_ts' = shadow_ts \/ lock = <<c, "irq">>,
         iq.pc \in WallSteps <=> lock' = <<c, "irq">>,
         iq.pc = "wall" => iq.i \in 1..3,
         iq.pc \in WallSteps /\ Even(wc, shadow_ts') =>
           \A j \in 2..3 : j < iq.i \/ iq.pc = "wall check" => shadow_ts'[WallCopied[j]] = wc["version"] \div 2,
         InDay(th) => lock' = <<c, "thread">>,
         lock' = <<c, "thread">> => iq.pc = "idle",
         th.pc = "unlock" => th.day.sec = th.day.nsec
  PROVE  WallInv'
<1>1. ASSUME NEW d \in ClockCpus
      PROVE  /\ run'[d]["irq"].pc \in WallSteps <=> lock' = <<d, "irq">>
             /\ run'[d]["irq"].pc = "wall" => run'[d]["irq"].i \in 1..3
             /\ InDay(run'[d]["thread"]) => lock' = <<d, "thread">>
             /\ lock' = <<d, "thread">> => run'[d]["irq"].pc = "idle"
             /\ run'[d]["thread"].pc = "unlock" => run'[d]["thread"].day.sec = run'[d]["thread"].day.nsec
  <2>1. CASE d = c
    BY <2>1
  <2>2. CASE d # c
    <3>1. run'[d]["irq"] = run[d]["irq"] /\ run'[d]["thread"] = run[d]["thread"]
      BY <2>2
    <3>2. (lock' = <<d, "irq">> <=> lock = <<d, "irq">>) /\ (lock' = <<d, "thread">> <=> lock = <<d, "thread">>)
      BY <2>2
    <3> QED BY <3>1, <3>2 DEF WallInv
  <2> QED BY <2>1, <2>2
<1>2. ASSUME NEW d \in ClockCpus, run'[d]["irq"].pc \in WallSteps
      PROVE  WallProgress(run[d]["irq"])'
  <2>1. CASE d = c
    <3>1. run'[d]["irq"] = iq
      BY <2>1
    <3>2. Even(wc, shadow_ts') =>
            \A j \in 2..3 : j < iq.i \/ iq.pc = "wall check" => shadow_ts'[WallCopied[j]] = wc["version"] \div 2
      BY <1>2, <3>1
    <3> QED BY <3>1, <3>2 DEF WallProgress
  <2>2. CASE d # c
    <3>1. run'[d]["irq"] = run[d]["irq"]
      BY <2>2
    <3>2. lock = <<d, "irq">>
      BY <1>2, <2>2, <3>1 DEF WallInv
    <3>3. shadow_ts' = shadow_ts
      BY <2>2, <3>2, LockOfOne
    <3>4. WallProgress(run[d]["irq"])
      BY <1>2, <3>1 DEF WallInv
    <3> QED BY <3>1, <3>3, <3>4 DEF WallProgress
  <2> QED BY <2>1, <2>2
<1>3. XenValues(wc, {"sec", "nsec"}) /\ wc \in WallValues
  BY DEF WallInv
<1> QED BY <1>1, <1>2, <1>3 DEF WallInv, InDay

\* What becomes of a processor's contexts.
LEMMA BecomesOf ==
  ASSUME ClockTimes, NEW c \in ClockCpus, NEW x \in {"thread", "irq"}, NEW q, Becomes(c, x, q)
  PROVE  /\ run'[c][x] = q /\ \A y \in {"thread", "irq"} : y # x => run'[c][y] = run[c][y]
         /\ \A d \in ClockCpus, y \in {"thread", "irq"} : d # c => run'[d][y] = run[d][y]
  BY DEF ClockTimes, Becomes, Runs1

\* monotonic_clock is called.
LEMMA MonotonicWallKept ==
  ASSUME ClockTimes, WallInv, NEW c \in ClockCpus, monotonic_clock(c)
  PROVE  WallInv'
<1>1. PICK q : q = Called(c, "idle")
  OBVIOUS
<1>2. q.pc = "local" /\ q.end = "idle"
  BY <1>1, CalledTyped
<1>3. Becomes(c, "thread", q) /\ UNCHANGED <<wc, shadow_ts, lock>>
  BY <1>1 DEF monotonic_clock, ckXen
<1>4. ~InDay(q) /\ q.pc # "unlock"
  BY <1>2 DEF InDay
<1> QED BY <1>3, <1>4, WallQuiet

\* gettimeofday is called, and takes the lock.
LEMMA GetTimeOfDayWallKept ==
  ASSUME ClockTimes, WallInv, NEW c \in ClockCpus, gettimeofday(c)
  PROVE  WallInv'
<1>1. PICK q : q = Called(c, "day")
  OBVIOUS
<1>2. q.pc = "local"
  BY <1>1, CalledTyped
<1>3. /\ Becomes(c, "thread", q) /\ UNCHANGED <<wc, shadow_ts>> /\ lock = Free /\ lock' = <<c, "thread">>
      /\ run[c]["irq"].pc = "idle"
  BY <1>1 DEF gettimeofday, ckXen, Doing, Executes
<1>4. run'[c]["thread"] = q /\ run'[c]["irq"] = run[c]["irq"]
  BY <1>3, BecomesOf
<1>5. \A d \in ClockCpus, y \in {"thread", "irq"} : d # c => (lock' = <<d, y>> <=> lock = <<d, y>>)
  BY <1>3, LockOfOne
<1>6. \A d \in ClockCpus : lock # <<d, "irq">> /\ lock' # <<d, "irq">>
  BY <1>3, LockOfOne
<1>7. shadow_ts["sec"] = shadow_ts["nsec"]
  BY <1>6 DEF WallInv
<1>8. run[c]["irq"].pc \notin WallSteps /\ run[c]["irq"].pc # "wall"
  BY <1>3 DEF WallSteps
<1>9. shadow_ts \in WallValues /\ shadow_ts["version"] <= wc["version"]
  BY DEF WallInv
<1>10. lock' \in {Free} \cup (ClockCpus \X {"thread", "irq"})
  BY <1>3
<1>11. q.pc # "unlock"
  BY <1>2
<1>12. \A d \in ClockCpus, y \in {"thread", "irq"} : d # c => run'[d][y] = run[d][y]
  BY <1>3, BecomesOf
<1> QED BY <1>3, <1>4, <1>5, <1>6, <1>7, <1>8, <1>9, <1>10, <1>11, <1>12, WallOwn

\* gettimeofday reads a value of the wall clock.
LEMMA ReadDayWallKept ==
  ASSUME ClockTimes, WallInv, NEW c \in ClockCpus, ReadDay(c)
  PROVE  WallInv'
<1>1. PICK d : d = [sec |-> shadow_ts.sec, nsec |-> shadow_ts.nsec]
  OBVIOUS
<1>2. PICK q : q = [run[c]["thread"] EXCEPT !.day = d, !.pc = "unlock"]
  OBVIOUS
<1>3. Becomes(c, "thread", q) /\ UNCHANGED <<wc, shadow_ts, lock>> /\ run[c]["thread"].pc = "day"
  BY <1>1, <1>2 DEF ReadDay, Doing, ckXen, ckData
<1>4. q.day = d
  BY <1>2, Found DEF Calls
<1>5. lock = <<c, "thread">>
  BY <1>3 DEF WallInv, InDay
<1>6. \A e \in ClockCpus : lock # <<e, "irq">>
  BY <1>5, LockOfOne
<1>7. d.sec = d.nsec
  BY <1>1, <1>6 DEF WallInv
<1> QED BY <1>3, <1>4, <1>5, <1>7, WallQuiet

\* gettimeofday gives the lock back.
LEMMA EndDayWallKept ==
  ASSUME ClockTimes, WallInv, NEW c \in ClockCpus, EndDay(c)
  PROVE  WallInv'
<1>1. /\ Becomes(c, "thread", NoCall) /\ UNCHANGED <<wc, shadow_ts>> /\ lock' = Free
      /\ run[c]["thread"].pc = "unlock" /\ run[c]["irq"].pc = "idle"
  BY DEF EndDay, Doing, Executes, ckXen
<1>2. lock = <<c, "thread">>
  BY <1>1 DEF WallInv, InDay
<1>3. run'[c]["thread"] = NoCall /\ run'[c]["irq"] = run[c]["irq"]
  BY <1>1, BecomesOf
<1>4. \A d \in ClockCpus, y \in {"thread", "irq"} : d # c => (lock' = <<d, y>> <=> lock = <<d, y>>)
  BY <1>1, <1>2, LockOfOne
<1>5. \A d \in ClockCpus, y \in {"thread", "irq"} : lock # <<d, "irq">> /\ lock' # <<d, y>>
  BY <1>1, <1>2, LockOfOne
<1>6. shadow_ts["sec"] = shadow_ts["nsec"] /\ shadow_ts \in WallValues /\ shadow_ts["version"] <= wc["version"]
  BY <1>5 DEF WallInv
<1>7. run[c]["irq"].pc \notin WallSteps /\ run[c]["irq"].pc # "wall"
  BY <1>1 DEF WallSteps
<1>8. ~InDay(NoCall) /\ NoCall.pc # "unlock"
  BY NoCallTyped DEF InDay, CallSteps, ReadSteps, CopySteps
<1>9. \A d \in ClockCpus, y \in {"thread", "irq"} : d # c => run'[d][y] = run[d][y]
  BY <1>1, BecomesOf
<1>10. lock' \in {Free} \cup (ClockCpus \X {"thread", "irq"})
  BY <1>1
<1> QED BY <1>1, <1>3, <1>4, <1>5, <1>6, <1>7, <1>8, <1>9, <1>10, WallOwn

\* The timer interrupt comes.
LEMMA TimerHandlerWallKept ==
  ASSUME ClockTimes, WallInv, NEW c \in ClockCpus, timer_handler(c)
  PROVE  WallInv'
<1>1. PICK q : q = [NoCall EXCEPT !.pc = "load", !.back = "wall lock"]
  OBVIOUS
<1>2. /\ Becomes(c, "irq", q) /\ run[c]["irq"].pc = "idle" /\ UNCHANGED <<wc, shadow_ts, lock>>
      /\ lock # <<c, "thread">>
  BY <1>1 DEF timer_handler, ckXen, Executes, IrqsOff
<1>3. q.pc = "load"
  BY <1>1 DEF NoCall
<1> QED BY <1>2, <1>3, WallQuiet DEF WallSteps

\* The handler takes the lock of the wall clock.
LEMMA LockWallKept ==
  ASSUME ClockTimes, WallInv, NEW c \in ClockCpus, LockWall(c)
  PROVE  WallInv'
<1>1. PICK q : q = [run[c]["irq"] EXCEPT !.pc = "wall", !.i = 1]
  OBVIOUS
<1>2. /\ Becomes(c, "irq", q) /\ UNCHANGED <<wc, shadow_ts>> /\ lock = Free /\ lock' = <<c, "irq">>
  BY <1>1 DEF LockWall, ckXen
<1>3. q.pc = "wall" /\ q.i = 1
  BY <1>1, Found DEF Calls
<1>4. run'[c]["irq"] = q /\ run'[c]["thread"] = run[c]["thread"]
  BY <1>2, BecomesOf
<1>5. \A d \in ClockCpus, y \in {"thread", "irq"} : d # c => (lock' = <<d, y>> <=> lock = <<d, y>>)
  BY <1>2, LockOfOne
<1>6. lock' # <<c, "thread">> /\ lock # <<c, "thread">>
  BY <1>2, LockOfOne
<1>7. ~InDay(run[c]["thread"])
  BY <1>6 DEF WallInv
<1>8. run[c]["thread"].pc # "unlock"
  BY <1>7 DEF InDay
<1>9. shadow_ts \in WallValues /\ shadow_ts["version"] <= wc["version"]
  BY DEF WallInv
<1>10. \A j \in 2..3 : ~(j < q.i \/ q.pc = "wall check")
  BY <1>3
<1>11. q.pc \in WallSteps /\ q.i \in 1..3
  BY <1>3 DEF WallSteps
<1>12. \A d \in ClockCpus, y \in {"thread", "irq"} : d # c => run'[d][y] = run[d][y]
  BY <1>2, BecomesOf
<1>13. lock' \in {Free} \cup (ClockCpus \X {"thread", "irq"})
  BY <1>2
<1>14. ~(\A d \in ClockCpus : lock' # <<d, "irq">>)
  BY <1>2
<1> QED BY <1>2, <1>4, <1>5, <1>6, <1>7, <1>8, <1>9, <1>10, <1>11, <1>12, <1>13, <1>14, WallOwn

\* A step of update_wallclock finds its processor in the handler, with the lock.
LEMMA InUpdate ==
  ASSUME ClockTimes, WallInv, NEW c \in ClockCpus, run[c]["irq"].pc \in WallSteps
  PROVE  /\ lock = <<c, "irq">> /\ ~InDay(run[c]["thread"]) /\ run[c]["thread"].pc # "unlock"
         /\ WallProgress(run[c]["irq"]) /\ run[c]["irq"] \in Calls /\ run[c]["irq"].end = "idle"
         /\ wc["version"] \in Nat /\ shadow_ts["version"] \in Nat
<1>1. lock = <<c, "irq">> /\ WallProgress(run[c]["irq"])
  BY DEF WallInv
<1>2. ~InDay(run[c]["thread"])
  BY <1>1, LockOfOne DEF WallInv
<1>3. run[c]["thread"].pc # "unlock"
  BY <1>2 DEF InDay
<1>4. run[c]["irq"] \in Calls /\ run[c]["irq"].end = "idle"
  BY Found DEF ProcInv, Shape
<1>5. wc["version"] \in Nat /\ shadow_ts["version"] \in Nat
  BY DEF WallInv, WallValues
<1> QED BY <1>1, <1>2, <1>3, <1>4, <1>5

\* The handler copies a value of Xen's wall clock.
LEMMA CopyWallKept ==
  ASSUME ClockTimes, WallInv, NEW c \in ClockCpus, CopyWall(c)
  PROVE  WallInv'
<1>1. PICK i \in 1..3 : i = run[c]["irq"].i /\ run[c]["irq"].pc = "wall"
  BY DEF CopyWall, Doing, WallInv
<1>2. /\ lock = <<c, "irq">> /\ ~InDay(run[c]["thread"]) /\ run[c]["thread"].pc # "unlock"
      /\ WallProgress(run[c]["irq"]) /\ run[c]["irq"] \in Calls
      /\ wc["version"] \in Nat /\ shadow_ts["version"] \in Nat
  BY <1>1, InUpdate DEF WallSteps
<1>3. WallCopied[1] = "version" /\ WallCopied[2] = "sec" /\ WallCopied[3] = "nsec" /\ Len(WallCopied) = 3
  BY DEF WallCopied
<1>4. PICK f \in {"version", "sec", "nsec"} : f = WallCopied[i]
  BY <1>3
<1>5. PICK k : k = i + 1
  OBVIOUS
<1>6. PICK q : q = IF i = 3 THEN [run[c]["irq"] EXCEPT !.pc = "wall check"] ELSE [run[c]["irq"] EXCEPT !.i = k]
  OBVIOUS
<1>7. /\ i = 3 => q.pc = "wall check" /\ q.i = 3
      /\ i # 3 => q.pc = "wall" /\ q.i = i + 1
  BY <1>1, <1>2, <1>5, <1>6 DEF Calls
<1>8. PICK h : h = [shadow_ts EXCEPT ![f] = wc[f]]
  OBVIOUS
<1>9. Becomes(c, "irq", q) /\ shadow_ts' = h /\ UNCHANGED <<wc, lock>>
  BY <1>1, <1>3, <1>4, <1>5, <1>6, <1>8 DEF CopyWall, ckXen
<1>10. /\ h \in WallValues /\ h[f] = wc[f]
       /\ \A g \in {"version", "sec", "nsec"} : g # f => h[g] = shadow_ts[g]
  BY <1>8 DEF WallInv, WallValues
<1>11. shadow_ts' \in WallValues /\ shadow_ts'["version"] <= wc["version"]
  BY <1>2, <1>9, <1>10 DEF WallInv
<1>12. Even(wc, h) => \A g \in {"sec", "nsec"} : wc[g] = wc["version"] \div 2
  BY <1>2 DEF Even, WallInv, XenValues
<1>13. ASSUME Even(wc, h), NEW j \in 2..3, j < q.i \/ q.pc = "wall check"
       PROVE  h[WallCopied[j]] = wc["version"] \div 2
  <2>1. i # 1
    <3>1. i = 1 => q.i = 2 /\ q.pc = "wall"
      BY <1>7
    <3>2. ~(j < 2)
      OBVIOUS
    <3> QED BY <1>13, <3>1, <3>2
  <2>2. f # "version" /\ (i = 2 => f = "sec") /\ (i = 3 => f = "nsec")
    BY <1>3, <1>4, <2>1
  <2>3. Even(wc, shadow_ts)
    BY <1>10, <1>13, <2>2 DEF Even
  <2>4. CASE WallCopied[j] = f
    BY <1>10, <1>12, <1>13, <2>2, <2>4
  <2>5. CASE WallCopied[j] # f
    <3>1. i = 3 /\ j = 2
      <4>1. j # i
        BY <1>4, <2>5
      <4>2. CASE i = 2
        <5>1. q.i = 3 /\ q.pc = "wall"
          BY <1>7, <4>2
        <5>2. j < 3
          BY <1>13, <5>1
        <5> QED BY <4>1, <4>2, <5>2
      <4>3. CASE i = 3
        BY <4>1, <4>3
      <4> QED BY <2>1, <4>2, <4>3
    <3>2. shadow_ts[WallCopied[j]] = wc["version"] \div 2
      BY <1>1, <1>2, <2>3, <3>1 DEF WallProgress
    <3> QED BY <1>3, <1>10, <2>5, <3>1, <3>2
  <2> QED BY <2>4, <2>5
<1>14. q.pc \in WallSteps /\ (q.pc = "wall" => q.i \in 1..3)
  <2>1. i # 3 => i + 1 \in 1..3
    OBVIOUS
  <2> QED BY <1>7, <2>1 DEF WallSteps
<1>15. run'[c]["irq"] = q /\ run'[c]["thread"] = run[c]["thread"]
  BY <1>9, BecomesOf
<1>16. \A d \in ClockCpus, y \in {"thread", "irq"} : d # c => run'[d][y] = run[d][y]
  BY <1>9, BecomesOf
<1>17. lock' \in {Free} \cup (ClockCpus \X {"thread", "irq"}) /\ ~(\A d \in ClockCpus : lock' # <<d, "irq">>)
  BY <1>2, <1>9
<1>18. lock' # <<c, "thread">>
  BY <1>2, <1>9, LockOfOne
<1>19. \A d \in ClockCpus, y \in {"thread", "irq"} : d # c => (lock' = <<d, y>> <=> lock = <<d, y>>)
  BY <1>9
<1>20. Even(wc, shadow_ts') =>
         \A j \in 2..3 : j < q.i \/ q.pc = "wall check" => shadow_ts'[WallCopied[j]] = wc["version"] \div 2
  BY <1>9, <1>13
<1> QED BY <1>2, <1>9, <1>11, <1>14, <1>15, <1>16, <1>17, <1>18, <1>19, <1>20, WallOwn

\* The handler looks at the version after its copy.
LEMMA CheckWallKept ==
  ASSUME ClockTimes, WallInv, NEW c \in ClockCpus, CheckWall(c)
  PROVE  WallInv'
<1>1. run[c]["irq"].pc = "wall check" /\ UNCHANGED <<wc, shadow_ts>>
  BY DEF CheckWall, Doing, ckXen
<1>2. /\ lock = <<c, "irq">> /\ ~InDay(run[c]["thread"]) /\ run[c]["thread"].pc # "unlock"
      /\ WallProgress(run[c]["irq"]) /\ run[c]["irq"] \in Calls
      /\ wc["version"] \in Nat /\ shadow_ts["version"] \in Nat
  BY <1>1, InUpdate DEF WallSteps
<1>3. shadow_ts \in WallValues /\ shadow_ts["version"] <= wc["version"]
  BY DEF WallInv
<1>4. CASE wc.version % 2 = 1 \/ shadow_ts.version # wc.version
  <2>1. PICK q : q = [run[c]["irq"] EXCEPT !.pc = "wall", !.i = 1]
    OBVIOUS
  <2>2. q.pc = "wall" /\ q.i = 1
    BY <1>2, <2>1 DEF Calls
  <2>3. Becomes(c, "irq", q) /\ lock' = lock
    BY <1>4, <2>1 DEF CheckWall
  <2>4. q.pc \in WallSteps /\ q.i \in 1..3 /\ \A j \in 2..3 : ~(j < q.i \/ q.pc = "wall check")
    BY <2>2 DEF WallSteps
  <2>5. run'[c]["irq"] = q /\ run'[c]["thread"] = run[c]["thread"]
    BY <2>3, BecomesOf
  <2>6. \A d \in ClockCpus, y \in {"thread", "irq"} : d # c => run'[d][y] = run[d][y]
    BY <2>3, BecomesOf
  <2>7. lock' \in {Free} \cup (ClockCpus \X {"thread", "irq"}) /\ ~(\A d \in ClockCpus : lock' # <<d, "irq">>)
    BY <1>2, <2>3
  <2>8. lock' # <<c, "thread">>
    BY <1>2, <2>3, LockOfOne
  <2> QED BY <1>1, <1>2, <1>3, <2>3, <2>4, <2>5, <2>6, <2>7, <2>8, WallOwn
<1>5. CASE ~(wc.version % 2 = 1 \/ shadow_ts.version # wc.version)
  <2>1. Even(wc, shadow_ts)
    BY <1>2, <1>5, Halves DEF Even
  <2>2. shadow_ts["sec"] = shadow_ts["nsec"]
    <3>1. \A j \in 2..3 : shadow_ts[WallCopied[j]] = wc["version"] \div 2
      BY <1>1, <1>2, <2>1 DEF WallProgress
    <3> QED BY <3>1 DEF WallCopied
  <2>3. PICK q : Becomes(c, "irq", q) /\ (q = NoCall \/ q = Called(c, "idle"))
    BY <1>5 DEF CheckWall
  <2>4. q.pc \in {"idle", "local"}
    BY <2>3, NoCallTyped, CalledTyped
  <2>5. q.pc \notin WallSteps /\ q.pc # "wall"
    BY <2>4 DEF WallSteps
  <2>6. lock' = Free
    BY <1>5 DEF CheckWall
  <2>7. run'[c]["irq"] = q /\ run'[c]["thread"] = run[c]["thread"]
    BY <2>3, BecomesOf
  <2>8. \A d \in ClockCpus, y \in {"thread", "irq"} : d # c => run'[d][y] = run[d][y]
    BY <2>3, BecomesOf
  <2>9. \A d \in ClockCpus, y \in {"thread", "irq"} : lock' # <<d, y>> /\ (d # c => lock # <<d, y>>)
    BY <1>2, <2>6, LockOfOne
  <2>10. lock' \in {Free} \cup (ClockCpus \X {"thread", "irq"})
    BY <2>6
  <2> QED BY <1>1, <1>2, <1>3, <2>2, <2>5, <2>7, <2>8, <2>9, <2>10, WallOwn
<1> QED BY <1>4, <1>5

\* ClockInv holds when the kernel has started ...
LEMMA ClockStart == CkInit => ClockInv
<1> SUFFICES ASSUME CkInit PROVE ClockInv
  OBVIOUS
<1>1. PICK first : first = Of1({"version", "tsc", "sys", "scale"})
  OBVIOUS
<1>2. first \in Values /\ first["version"] = 2 /\ \A f \in Three : first[f] = 1
  BY <1>1 DEF Of1, Values, Three
<1>3. 2 % 2 = 0 /\ 2 \div 2 = 1
  OBVIOUS
<1>4. XenValues(first, Three) /\ Steady(first)
  BY <1>2, <1>3 DEF XenValues, Steady
<1>5. PICK r \in Runs1 : r = [x \in {"thread", "irq"} |-> NoCall]
  BY NoCallTyped DEF Runs1
<1>6. \A x \in {"thread", "irq"} : r[x].pc = "idle" /\ r[x].end = "idle"
  BY <1>5, NoCallTyped
<1>7. /\ src = [c \in ClockCpus |-> first] /\ shadow = [c \in ClockCpus |-> first]
      /\ run = [c \in ClockCpus |-> r] /\ torn = {} /\ left \in Budgets
  BY <1>1, <1>5 DEF CkInit
<1>8. ASSUME NEW c PROVE ProcInv(first, first, r, c, torn)
  <2>1. Shape(r)
    BY <1>6 DEF Shape, Copying, CopySteps, ThreadSteps, IrqSteps
  <2>2. Sound(first, first, r)
    BY <1>4, <1>6 DEF Sound, Copying, CopySteps, Reads, Timely, ReadSteps
  <2>3. first["version"] <= first["version"] /\ \A x \in {"thread", "irq"} : r[x].pc # "store"
    BY <1>2, <1>6
  <2> QED BY <1>2, <1>4, <2>1, <2>2, <2>3 DEF ProcInv
<1>9. ClockTimes
  BY <1>2, <1>7, <1>8, ClockAssumption DEF ClockTimes
<1>10. WallInv
  <2>1. wc = Of1({"version", "sec", "nsec"}) /\ shadow_ts = wc /\ lock = Free
    BY DEF CkInit
  <2>2. /\ wc \in WallValues /\ shadow_ts \in WallValues /\ wc["version"] = 2 /\ shadow_ts["version"] = 2
        /\ wc["sec"] = 1 /\ wc["nsec"] = 1 /\ shadow_ts["sec"] = 1 /\ shadow_ts["nsec"] = 1
    BY <2>1 DEF Of1, WallValues
  <2>3. XenValues(wc, {"sec", "nsec"})
    BY <1>3, <2>2 DEF XenValues
  <2>4. \A c \in ClockCpus, y \in {"thread", "irq"} : lock # <<c, y>>
    BY <2>1, LockOfOne
  <2>5. \A c \in ClockCpus : run[c]["irq"].pc = "idle" /\ run[c]["thread"].pc = "idle" /\ run[c]["thread"].end = "idle"
    BY <1>6, <1>7
  <2>6. \A c \in ClockCpus : ~InDay(run[c]["thread"])
    BY <2>5 DEF InDay
  <2>7. \A c \in ClockCpus : /\ run[c]["irq"].pc \notin WallSteps /\ run[c]["irq"].pc # "wall"
                             /\ run[c]["thread"].pc # "unlock"
    BY <2>5 DEF WallSteps
  <2>8. lock \in {Free} \cup (ClockCpus \X {"thread", "irq"})
    BY <2>1
  <2> QED BY <2>1, <2>2, <2>3, <2>4, <2>6, <2>7, <2>8 DEF WallInv
<1> QED BY <1>9, <1>10 DEF ClockInv

\* ... is kept by every step of it and of Xen ...
LEMMA ClockNext ==
  ASSUME ClockInv, CkNext
  PROVE  ClockInv'
<1>1. ClockTimes /\ WallInv
  BY DEF ClockInv
<1>2. CASE XenBegins \/ XenWrites \/ XenEnds
  BY <1>1, <1>2, XenKept, XenWallKept DEF ClockInv
<1>3. ASSUME NEW c \in ClockCpus, monotonic_clock(c) PROVE ClockInv'
  BY <1>1, <1>3, CallsKept, MonotonicWallKept DEF ClockInv
<1>4. ASSUME NEW c \in ClockCpus, gettimeofday(c) PROVE ClockInv'
  BY <1>1, <1>4, CallsKept, GetTimeOfDayWallKept DEF ClockInv
<1>5. ASSUME NEW c \in ClockCpus, timer_handler(c) PROVE ClockInv'
  BY <1>1, <1>5, TimerHandlerKept, TimerHandlerWallKept DEF ClockInv
<1>6. ASSUME NEW c \in ClockCpus, NEW x \in {"thread", "irq"}, ClockStep(c, x) PROVE ClockInv'
  <2>1. ClockTimes'
    BY <1>1, <1>6, ReadVersionKept, GetNsecOffsetKept, RefreshKept, CompareVersionsKept, ReturnTimeKept,
       LoadValueKept, StoreValueKept, CheckVersionKept DEF ClockStep
  <2> QED BY <1>1, <1>6, <2>1, ClockStepWallKept DEF ClockInv
<1>7. ASSUME NEW c \in ClockCpus, DayStep(c) PROVE ClockInv'
  BY <1>1, <1>7, DayStepKept, ReadDayWallKept, EndDayWallKept DEF ClockInv, DayStep
<1>8. ASSUME NEW c \in ClockCpus, HandlerStep(c) PROVE ClockInv'
  BY <1>1, <1>8, HandlerStepKept, LockWallKept, CopyWallKept, CheckWallKept DEF ClockInv, HandlerStep
<1> QED BY <1>2, <1>3, <1>4, <1>5, <1>6, <1>7, <1>8 DEF CkNext

\* A step of another part.
LEMMA ClockStays ==
  ASSUME ClockInv, UNCHANGED ckVars
  PROVE  ClockInv'
  BY DEF ClockInv, ClockTimes, WallInv, WallProgress, InDay, ckVars

\* ... and says that what is returned belongs together.
LEMMA ClockImplies ==
  ASSUME ClockInv
  PROVE  TimeBelongsTogether /\ DayBelongsTogether /\ WallLockIsSafe
<1>1. ClockTimes /\ WallInv
  BY DEF ClockInv
<1>2. TimeBelongsTogether
  <2> SUFFICES ASSUME NEW c \in ClockCpus, NEW x \in {"thread", "irq"}, run[c][x].pc = "time", c \notin torn
               PROVE  LET r == run[c][x].read IN r.sys = r.tsc /\ r.tsc = r.scale /\ r.sys >= run[c][x].since
    BY DEF TimeBelongsTogether
  <2>1. Timely(src[c], run[c][x])
    BY <1>1, Found DEF ProcInv, Sound
  <2>2. PICK n \in Nat : run[c][x].since <= n /\ \A f \in Three : run[c][x].read[f] = n
    BY <2>1 DEF Timely
  <2>3. run[c][x].since \in Nat
    BY <1>1, Found DEF Calls
  <2> QED BY <2>2, <2>3 DEF Three
<1>3. DayBelongsTogether
  BY <1>1 DEF WallInv, DayBelongsTogether
<1>4. WallLockIsSafe
  BY <1>1 DEF WallInv, WallLockIsSafe
<1> QED BY <1>2, <1>3, <1>4


-----------------------------------------------------------------------------
(* Granting *)

GUses == {"access", "readonly", "transfer"}
Transferred == {"accept", "committed", "completed"}
GFlags == {"permit", "ro"} \cup InUse \cup Transferred
Filling == [step : {"fill", "flags"}, ref : Refs, use : GUses, frame : Frames]
Ending == [step : {"end", "await"}, ref : Refs, flags : SUBSET GFlags]
Freeing == [step : {"free"}, ref : Refs]
Given == [use : GUses, frame : Frames]
GEntries == [flags : SUBSET GFlags, frame : Frames \cup {NoFrame}]

GTyped ==
  /\ gnttab_list \in [Entries -> Entries]
  /\ gnttab_table \in [Refs -> GEntries]
  /\ gnt \in [GrantThreads -> {GntIdle} \cup Filling \cup Ending \cup Freeing]
  /\ granted \in [Refs -> {NoGrant} \cup Given]
  /\ mapping \in [Refs -> Frames \cup {NoFrame}]

\* The free list: references, each once.
ListSound ==
  /\ FreeRefs \subseteq Refs
  /\ \A r, s \in {0} \cup FreeRefs : r # s /\ gnttab_list[r] = gnttab_list[s] => gnttab_list[r] = 0

\* An entry e, granted for g and mapped as m.
EntryFits(e, g, m) ==
  /\ g = NoGrant => e.flags \in {{}, Transferred} /\ m = NoFrame
  /\ g # NoGrant /\ g.use # "transfer" =>
       /\ e.flags \subseteq {"permit", "ro"} \cup InUse /\ e.frame = g.frame
       /\ m = IF e.flags \cap InUse = {} THEN NoFrame ELSE e.frame
  /\ g # NoGrant /\ g.use = "transfer" =>
       /\ e.flags \in {{}, {"accept"}, {"accept", "committed"}, Transferred}
       /\ m # NoFrame <=> e.flags = Transferred
       /\ m # NoFrame => e.frame = m

FillSteps == {"fill", "flags"}
EndSteps == {"end", "await", "free"}
\* A thread's call and its reference.
CallFits(q, entry, holders, free) ==
  /\ q.step \in FillSteps => holders[q.ref] = NoGrant /\ q.ref \notin free
  /\ q.step = "flags" => entry[q.ref].frame = q.frame
  /\ q.step \in EndSteps => holders[q.ref] # NoGrant
  /\ q.step = "free" => entry[q.ref].flags \in {{}, Transferred}

GrantsInv ==
  /\ GTyped /\ ListSound
  /\ \A r \in FreeRefs : granted[r] = NoGrant
  /\ \A r \in Refs : r \in FreeRefs \/ granted[r] # NoGrant \/ r \in FillingRefs
  /\ \A r \in Refs : EntryFits(gnttab_table[r], granted[r], mapping[r])
  /\ \A t \in GrantThreads : CallFits(gnt[t], gnttab_table, granted, FreeRefs)
  /\ \A t, u \in GrantThreads : t # u =>
       /\ gnt[t].step \in FillSteps /\ gnt[u].step \in FillSteps => gnt[t].ref # gnt[u].ref
       /\ gnt[t].step \in EndSteps /\ gnt[u].step \in EndSteps => gnt[t].ref # gnt[u].ref

-----------------------------------------------------------------------------
\* References are entries, and 0 is none.
LEMMA RefsAreEntries == /\ Refs \subseteq Entries /\ 0 \in Entries /\ 0 \notin Refs
                        /\ \A r \in Refs : r \in Nat /\ r - 1 \in 0..r
  BY GrantsAssumption DEF Refs, Entries

\* The free list follows the array, and is the least set that does.
LEMMA FreeIsChain ==
  ASSUME gnttab_list \in [Entries -> Entries]
  PROVE  /\ FreeRefs \subseteq Entries \ {0}
         /\ \A r \in FreeRefs \cup {0} : gnttab_list[r] \in FreeRefs \cup {0}
         /\ \A S \in SUBSET Entries : IsChain(S) => FreeRefs \subseteq S
<1>1. FreeRefs \subseteq Entries \ {0} /\ \A S \in SUBSET Entries : IsChain(S) => FreeRefs \subseteq S
  BY DEF FreeRefs
<1>2. ASSUME NEW r \in FreeRefs \cup {0}, gnttab_list[r] # 0
      PROVE  gnttab_list[r] \in FreeRefs
  <2>1. gnttab_list[r] \in Entries \ {0}
    BY <1>1, <1>2, RefsAreEntries
  <2>2. ASSUME NEW S \in SUBSET Entries, IsChain(S)
        PROVE  gnttab_list[r] \in S
    <3>1. r \in S \cup {0}
      BY <1>1, <2>2
    <3> QED BY <1>2, <2>2, <3>1 DEF IsChain
  <2> QED BY <2>1, <2>2 DEF FreeRefs
<1> QED BY <1>1, <1>2

\* put_free_entry adds its reference ...
LEMMA PutAdds ==
  ASSUME GTyped, ListSound, NEW r \in Refs, r \notin FreeRefs, put_free_entry(r)
  PROVE  /\ gnttab_list' \in [Entries -> Entries] /\ FreeRefs' = FreeRefs \cup {r} /\ ListSound'
<1>1. /\ gnttab_list \in [Entries -> Entries] /\ r \in Entries /\ r # 0 /\ 0 \in Entries
  BY RefsAreEntries DEF GTyped
<1>2. /\ gnttab_list' = [gnttab_list EXCEPT ![r] = gnttab_list[0], ![0] = r]
  BY DEF put_free_entry
<1>3. /\ gnttab_list' \in [Entries -> Entries] /\ gnttab_list'[0] = r /\ gnttab_list'[r] = gnttab_list[0]
      /\ \A s \in Entries : s # 0 /\ s # r => gnttab_list'[s] = gnttab_list[s]
  BY <1>1, <1>2
<1>4. /\ FreeRefs \subseteq Entries \ {0}
      /\ \A s \in FreeRefs \cup {0} : gnttab_list[s] \in FreeRefs \cup {0}
      /\ \A S \in SUBSET Entries : IsChain(S) => FreeRefs \subseteq S
  BY <1>1, FreeIsChain
<1>5. PICK Q \in SUBSET (Entries \ {0}) : Q = FreeRefs
  BY <1>4
<1>6. Q \cup {r} \subseteq Entries /\ IsChain(Q \cup {r})'
  BY <1>1, <1>3, <1>4, <1>5 DEF IsChain
<1>7. ASSUME NEW S \in SUBSET Entries, IsChain(S)'
      PROVE  Q \cup {r} \subseteq S
  <2>1. r \in S
    BY <1>1, <1>3, <1>7 DEF IsChain
  <2>2. IsChain(S \cap Q)
    <3> SUFFICES ASSUME NEW s \in (S \cap Q) \cup {0}
                 PROVE  gnttab_list[s] \in (S \cap Q) \cup {0}
      BY DEF IsChain
    <3>1. gnttab_list[s] \in Q \cup {0}
      BY <1>4, <1>5
    <3>2. CASE s = 0
      BY <1>3, <1>7, <2>1, <3>1, <3>2 DEF IsChain
    <3>3. CASE s # 0
      <4>1. s # r /\ s \in Entries /\ s \in S
        BY <1>5, <3>3
      <4> QED BY <1>3, <1>7, <3>1, <4>1 DEF IsChain
    <3> QED BY <3>2, <3>3
  <2>3. Q \subseteq S \cap Q
    <3>1. S \cap Q \in SUBSET Entries
      OBVIOUS
    <3> QED BY <1>4, <1>5, <2>2, <3>1
  <2> QED BY <2>1, <2>3
<1>8. FreeRefs' = Q \cup {r}
  <2>1. FreeRefs' = {s \in Entries \ {0} : \A S \in SUBSET Entries : IsChain(S)' => s \in S}
    BY DEF FreeRefs
  <2>2. \A s \in FreeRefs' : s \in Q \cup {r}
    BY <1>6, <2>1
  <2>3. \A s \in Q \cup {r} : s \in FreeRefs'
    BY <1>1, <1>7, <2>1
  <2> QED BY <2>2, <2>3
<1>9. ASSUME NEW s \in {0} \cup FreeRefs', NEW w \in {0} \cup FreeRefs', s # w, gnttab_list'[s] = gnttab_list'[w]
      PROVE  gnttab_list'[s] = 0
  <2>1. ASSUME NEW x \in FreeRefs' PROVE gnttab_list'[x] # r /\ gnttab_list'[x] \in Q \cup {0}
    BY <1>1, <1>3, <1>4, <1>5, <1>8
  <2>2. s # 0 /\ w # 0
    BY <1>3, <1>9, <2>1
  <2>3. PICK a \in {0} \cup Q, b \in {0} \cup Q : a = (IF s = r THEN 0 ELSE s) /\ b = (IF w = r THEN 0 ELSE w)
    BY <1>8, <2>2
  <2>4. a # b /\ gnttab_list'[s] = gnttab_list[a] /\ gnttab_list'[w] = gnttab_list[b]
    BY <1>3, <1>8, <1>9, <2>2, <2>3
  <2> QED BY <1>5, <1>9, <2>4 DEF ListSound
<1>10. FreeRefs' \subseteq Refs
  BY <1>5, <1>8 DEF ListSound
<1>11. ListSound'
  BY <1>9, <1>10 DEF ListSound, Refs
<1> QED BY <1>3, <1>5, <1>8, <1>11

\* ... and get_free_entry takes the head.
LEMMA GetTakes ==
  ASSUME GTyped, ListSound, NEW h \in Refs, gnttab_list[0] = h,
         gnttab_list' = [gnttab_list EXCEPT ![0] = gnttab_list[h]]
  PROVE  /\ h \in FreeRefs /\ gnttab_list' \in [Entries -> Entries]
         /\ FreeRefs' = FreeRefs \ {h} /\ ListSound'
<1>1. gnttab_list \in [Entries -> Entries] /\ h \in Entries /\ h # 0 /\ 0 \in Entries
  BY RefsAreEntries DEF GTyped
<1>2. /\ gnttab_list' \in [Entries -> Entries] /\ gnttab_list'[0] = gnttab_list[h]
      /\ \A s \in Entries : s # 0 => gnttab_list'[s] = gnttab_list[s]
  BY <1>1
<1>3. /\ FreeRefs \subseteq Entries \ {0}
      /\ \A s \in FreeRefs \cup {0} : gnttab_list[s] \in FreeRefs \cup {0}
      /\ \A S \in SUBSET Entries : IsChain(S) => FreeRefs \subseteq S
  BY <1>1, FreeIsChain
<1>4. PICK Q \in SUBSET (Entries \ {0}) : Q = FreeRefs
  BY <1>3
<1>5. h \in Q
  BY <1>1, <1>3, <1>4
<1>6. \A s \in Q : gnttab_list[s] # h
  BY <1>1, <1>4 DEF ListSound
<1>7. Q \ {h} \subseteq Entries /\ IsChain(Q \ {h})'
  BY <1>1, <1>2, <1>3, <1>4, <1>5, <1>6 DEF IsChain
<1>8. ASSUME NEW S \in SUBSET Entries, IsChain(S)'
      PROVE  Q \ {h} \subseteq S
  <2>1. IsChain((S \cap Q) \cup {h})
    <3> SUFFICES ASSUME NEW s \in ((S \cap Q) \cup {h}) \cup {0}
                 PROVE  gnttab_list[s] \in ((S \cap Q) \cup {h}) \cup {0}
      BY DEF IsChain
    <3>1. gnttab_list[s] \in Q \cup {0}
      BY <1>3, <1>4, <1>5
    <3>2. CASE s = 0
      BY <3>2
    <3>3. CASE s = h
      BY <1>2, <1>8, <3>1, <3>3 DEF IsChain
    <3>4. CASE s # 0 /\ s # h
      <4>1. s \in Entries /\ s \in S
        BY <3>4
      <4> QED BY <1>2, <1>8, <3>1, <3>4, <4>1 DEF IsChain
    <3> QED BY <3>2, <3>3, <3>4
  <2>2. Q \subseteq (S \cap Q) \cup {h}
    <3>1. (S \cap Q) \cup {h} \in SUBSET Entries
      BY <1>1
    <3> QED BY <1>3, <1>4, <2>1, <3>1
  <2> QED BY <2>2
<1>9. FreeRefs' = Q \ {h}
  <2>1. FreeRefs' = {s \in Entries \ {0} : \A S \in SUBSET Entries : IsChain(S)' => s \in S}
    BY DEF FreeRefs
  <2>2. \A s \in FreeRefs' : s \in Q \ {h}
    BY <1>7, <2>1
  <2>3. \A s \in Q \ {h} : s \in FreeRefs'
    BY <1>8, <2>1
  <2> QED BY <2>2, <2>3
<1>10. ASSUME NEW s \in {0} \cup FreeRefs', NEW w \in {0} \cup FreeRefs', s # w, gnttab_list'[s] = gnttab_list'[w]
       PROVE  gnttab_list'[s] = 0
  <2>1. PICK a \in Q, b \in Q : a = (IF s = 0 THEN h ELSE s) /\ b = (IF w = 0 THEN h ELSE w)
    BY <1>5, <1>9
  <2>2. a # b /\ gnttab_list'[s] = gnttab_list[a] /\ gnttab_list'[w] = gnttab_list[b]
    BY <1>2, <1>9, <1>10, <2>1
  <2> QED BY <1>4, <1>10, <2>2 DEF ListSound
<1>11. FreeRefs' \subseteq Refs
  BY <1>4, <1>9 DEF ListSound
<1>12. ListSound'
  BY <1>10, <1>11 DEF ListSound, Refs
<1> QED BY <1>2, <1>4, <1>5, <1>9, <1>12

\* At first the list has every reference.
LEMMA ListStarts ==
  ASSUME GntInit
  PROVE  gnttab_list \in [Entries -> Entries] /\ FreeRefs = Refs /\ ListSound
<1>1. PICK m \in Refs : m = NR_GRANT_ENTRIES - 1
  BY GrantsAssumption DEF Refs
<1>2. gnttab_list \in [Entries -> Entries]
  BY RefsAreEntries, GrantsAssumption DEF GntInit, Entries, Refs
<1>3. gnttab_list[0] = m
  BY <1>1, RefsAreEntries DEF GntInit, Entries
<1>4. \A r \in Refs : gnttab_list[r] = IF r > NR_RESERVED_ENTRIES THEN r - 1 ELSE 0
  <2> TAKE r \in Refs
  <2>1. r \in 0..(NR_GRANT_ENTRIES - 1) /\ r # 0
    BY RefsAreEntries DEF Entries
  <2> QED BY <2>1 DEF GntInit
<1>5. \A r \in Refs : r > NR_RESERVED_ENTRIES => r - 1 \in Refs
  BY GrantsAssumption DEF Refs
<1>6. IsChain(Refs)
  BY <1>3, <1>4, <1>5 DEF IsChain
<1>7. FreeRefs \subseteq Refs
  BY <1>2, <1>6, FreeIsChain, RefsAreEntries
<1>8. ASSUME NEW S \in SUBSET Entries, IsChain(S)
      PROVE  Refs \subseteq S
  <2> DEFINE D == {d \in Nat : \E r \in Refs : r \notin S /\ d = m - r}
  <2> SUFFICES ASSUME NEW q \in Refs, q \notin S PROVE FALSE
    OBVIOUS
  <2>1. \A r \in Refs : m - r \in Nat
    BY <1>1, GrantsAssumption DEF Refs
  <2>2. D \subseteq Nat /\ D # {}
    BY <2>1
  <2>3. PICK d \in D : \A e \in D : ~(<<e, d>> \in OpToRel(<, Nat))
    BY <2>2, WFMin, NatLessThanWellFounded
  <2>4. PICK r \in Refs : r \notin S /\ d = m - r /\ d \in Nat
    OBVIOUS
  <2>5. r # m
    BY <1>3, <1>8, <2>4, RefsAreEntries DEF IsChain
  <2>6. r + 1 \in Refs /\ r + 1 > NR_RESERVED_ENTRIES /\ (r + 1) - 1 = r /\ m - (r + 1) \in Nat /\ m - (r + 1) < d
    BY <1>1, <2>4, <2>5, GrantsAssumption DEF Refs
  <2>7. r + 1 \in S
    <3>1. SUFFICES ASSUME r + 1 \notin S PROVE FALSE
      OBVIOUS
    <3>2. m - (r + 1) \in D
      BY <2>6, <3>1
    <3>3. <<m - (r + 1), d>> \in OpToRel(<, Nat)
      BY <2>4, <2>6 DEF OpToRel
    <3> QED BY <2>3, <3>2, <3>3
  <2>8. gnttab_list[r + 1] = r
    BY <1>4, <2>6
  <2> QED BY <1>8, <2>4, <2>7, <2>8, RefsAreEntries DEF IsChain
<1>9. Refs \subseteq FreeRefs
  BY <1>8, RefsAreEntries DEF FreeRefs
<1>10. ASSUME NEW r \in {0} \cup Refs, NEW w \in {0} \cup Refs, r # w, gnttab_list[r] = gnttab_list[w]
       PROVE  gnttab_list[r] = 0
  <2>1. \A x \in Refs : gnttab_list[x] # 0 => gnttab_list[x] = x - 1 /\ x - 1 < m
    BY <1>1, <1>4, GrantsAssumption DEF Refs
  <2>2. \A x \in Refs : x \in Int
    BY RefsAreEntries
  <2>3. SUFFICES ASSUME gnttab_list[r] # 0 PROVE FALSE
    OBVIOUS
  <2>4. CASE r = 0
    BY <1>1, <1>3, <1>10, <2>1, <2>2, <2>3, <2>4
  <2>5. CASE w = 0
    BY <1>1, <1>3, <1>10, <2>1, <2>2, <2>3, <2>5
  <2>6. CASE r # 0 /\ w # 0
    BY <1>10, <2>1, <2>2, <2>3, <2>6
  <2> QED BY <2>4, <2>5, <2>6
<1>11. FreeRefs = Refs
  BY <1>7, <1>9
<1> QED BY <1>2, <1>10, <1>11 DEF ListSound

\* The kinds of a thread's call, by its step.
LEMMA CallKinds ==
  /\ \A q \in {GntIdle} \cup Filling \cup Ending \cup Freeing :
       /\ q.step \in FillSteps => q \in Filling
       /\ q.step \in {"end", "await"} => q \in Ending
       /\ q.step = "free" => q \in Freeing
       /\ q.step \in FillSteps \cup EndSteps => q.ref \in Refs
       /\ q.step \in {"idle"} \cup FillSteps \cup EndSteps
       /\ q.step = "idle" => q = GntIdle
  /\ GntIdle.step = "idle"
  BY DEF GntIdle, Filling, Ending, Freeing, FillSteps, EndSteps

\* Which reference is being filled.
LEMMA FillingIs == \A r : r \in FillingRefs <=> \E t \in GrantThreads : gnt[t].step \in FillSteps /\ gnt[t].ref = r
  BY DEF FillingRefs, FillSteps

\* What a thread's step has to leave: the others' calls fit, every reference is
\* accounted for, every entry fits, and no other thread is at the same reference.
OthersFit(t, entry, holders, free) ==
  \A u \in GrantThreads : u # t => CallFits(gnt[u], entry, holders, free)
Accounted(t, q, holders, free) ==
  /\ \A r \in free : holders[r] = NoGrant
  /\ \A r \in Refs : \/ r \in free \/ holders[r] # NoGrant \/ (q.step \in FillSteps /\ q.ref = r)
                    \/ \E u \in GrantThreads : u # t /\ gnt[u].step \in FillSteps /\ gnt[u].ref = r
AllFit(entry, holders, maps) == \A r \in Refs : EntryFits(entry[r], holders[r], maps[r])
Apart(t, q) == \A u \in GrantThreads : u # t =>
  /\ q.step \in FillSteps /\ gnt[u].step \in FillSteps => q.ref # gnt[u].ref
  /\ q.step \in EndSteps /\ gnt[u].step \in EndSteps => q.ref # gnt[u].ref

\* A thread's step.
LEMMA OwnCall ==
  ASSUME GrantsInv, NEW t \in GrantThreads, NEW q \in {GntIdle} \cup Filling \cup Ending \cup Freeing,
         gnt' = [gnt EXCEPT ![t] = q],
         gnttab_list' \in [Entries -> Entries], ListSound',
         gnttab_table' \in [Refs -> GEntries], granted' \in [Refs -> {NoGrant} \cup Given],
         mapping' \in [Refs -> Frames \cup {NoFrame}],
         Accounted(t, q, granted', FreeRefs'), AllFit(gnttab_table', granted', mapping'),
         CallFits(q, gnttab_table', granted', FreeRefs'),
         OthersFit(t, gnttab_table', granted', FreeRefs'), Apart(t, q)
  PROVE  GrantsInv'
<1>1. gnt \in [GrantThreads -> {GntIdle} \cup Filling \cup Ending \cup Freeing]
  BY DEF GrantsInv, GTyped
<1>2. /\ gnt' \in [GrantThreads -> {GntIdle} \cup Filling \cup Ending \cup Freeing]
      /\ gnt'[t] = q /\ \A u \in GrantThreads : u # t => gnt'[u] = gnt[u]
  BY <1>1
<1>3. \A u \in GrantThreads : CallFits(gnt'[u], gnttab_table', granted', FreeRefs')
  BY <1>2 DEF OthersFit
<1>4. \A r : r \in FillingRefs' <=> \E u \in GrantThreads : gnt'[u].step \in FillSteps /\ gnt'[u].ref = r
  BY DEF FillingRefs, FillSteps
<1>5. /\ \A r \in Refs : r \in FreeRefs' \/ granted'[r] # NoGrant \/ r \in FillingRefs'
      /\ \A r \in FreeRefs' : granted'[r] = NoGrant
  BY <1>2, <1>4 DEF Accounted
<1>6. \A u, w \in GrantThreads : u # w =>
        /\ gnt'[u].step \in FillSteps /\ gnt'[w].step \in FillSteps => gnt'[u].ref # gnt'[w].ref
        /\ gnt'[u].step \in EndSteps /\ gnt'[w].step \in EndSteps => gnt'[u].ref # gnt'[w].ref
  <2> TAKE u, w \in GrantThreads
  <2>1. CASE u = t
    BY <1>2, <2>1 DEF Apart
  <2>2. CASE w = t
    BY <1>2, <2>2 DEF Apart
  <2>3. CASE u # t /\ w # t
    BY <1>2, <2>3 DEF GrantsInv
  <2> QED BY <2>1, <2>2, <2>3
<1>7. GTyped'
  BY <1>2 DEF GTyped, Entries, Refs
<1>8. \A r \in Refs : EntryFits(gnttab_table'[r], granted'[r], mapping'[r])
  BY DEF AllFit
<1> QED BY <1>3, <1>5, <1>6, <1>7, <1>8 DEF GrantsInv, Refs

\* A step of the backend on an entry somebody holds.
LEMMA OwnEntry ==
  ASSUME GrantsInv, NEW r \in Refs, NEW e \in GEntries, NEW m \in Frames \cup {NoFrame},
         gnttab_table' = [gnttab_table EXCEPT ![r] = e], mapping' = [mapping EXCEPT ![r] = m],
         UNCHANGED <<gnttab_list, gnt, granted>>,
         granted[r] # NoGrant, EntryFits(e, granted[r], m),
         gnttab_table[r].flags \notin {{}, Transferred}
  PROVE  GrantsInv'
<1>1. /\ gnttab_table \in [Refs -> GEntries] /\ mapping \in [Refs -> Frames \cup {NoFrame}]
      /\ gnt \in [GrantThreads -> {GntIdle} \cup Filling \cup Ending \cup Freeing]
  BY DEF GrantsInv, GTyped
<1>2. /\ gnttab_table' \in [Refs -> GEntries] /\ mapping' \in [Refs -> Frames \cup {NoFrame}]
      /\ gnttab_table'[r] = e /\ mapping'[r] = m
      /\ \A s \in Refs : s # r => gnttab_table'[s] = gnttab_table[s] /\ mapping'[s] = mapping[s]
  BY <1>1
<1>3. FreeRefs' = FreeRefs /\ FillingRefs' = FillingRefs
  BY DEF FreeRefs, IsChain, FillingRefs
<1>4. GTyped'
  BY <1>2 DEF GTyped, GrantsInv
<1>5. ListSound'
  BY <1>3 DEF ListSound, GrantsInv
<1>6. \A s \in Refs : EntryFits(gnttab_table'[s], granted'[s], mapping'[s])
  BY <1>2 DEF GrantsInv
<1>7. ASSUME NEW t \in GrantThreads PROVE CallFits(gnt'[t], gnttab_table', granted', FreeRefs')
  <2>1. PICK q \in {GntIdle} \cup Filling \cup Ending \cup Freeing : q = gnt[t]
    BY <1>1
  <2>2. CallFits(q, gnttab_table, granted, FreeRefs)
    BY <2>1 DEF GrantsInv
  <2>3. q.step \in FillSteps \cup EndSteps => q.ref \in Refs
    BY CallKinds
  <2>4. q.step \in {"flags", "free"} => q.ref # r
    BY <2>2 DEF CallFits, FillSteps
  <2>5. q.step \in {"flags", "free"} => gnttab_table'[q.ref] = gnttab_table[q.ref]
    BY <1>2, <2>3, <2>4 DEF FillSteps, EndSteps
  <2> QED BY <1>3, <2>1, <2>2, <2>5 DEF CallFits
<1> QED BY <1>3, <1>4, <1>5, <1>6, <1>7 DEF GrantsInv

\* The state an action starts from.
LEMMA GFound ==
  ASSUME GrantsInv
  PROVE  /\ GTyped /\ ListSound
         /\ gnttab_list \in [Entries -> Entries] /\ gnttab_table \in [Refs -> GEntries]
         /\ granted \in [Refs -> {NoGrant} \cup Given] /\ mapping \in [Refs -> Frames \cup {NoFrame}]
         /\ \A t \in GrantThreads : /\ gnt[t] \in {GntIdle} \cup Filling \cup Ending \cup Freeing
                                    /\ CallFits(gnt[t], gnttab_table, granted, FreeRefs)
         /\ \A r \in FreeRefs : granted[r] = NoGrant
         /\ \A r \in Refs : /\ EntryFits(gnttab_table[r], granted[r], mapping[r])
                            /\ gnttab_table[r] \in GEntries /\ gnttab_table[r].flags \in SUBSET GFlags
                            /\ gnttab_table[r].frame \in Frames \cup {NoFrame}
         /\ \A r \in Refs : \/ r \in FreeRefs \/ granted[r] # NoGrant
                            \/ \E t \in GrantThreads : gnt[t].step \in FillSteps /\ gnt[t].ref = r
<1>1. /\ gnttab_table \in [Refs -> GEntries] /\ gnt \in [GrantThreads -> {GntIdle} \cup Filling \cup Ending \cup Freeing]
  BY DEF GrantsInv, GTyped
<1>2. \A r \in Refs : /\ gnttab_table[r] \in GEntries /\ gnttab_table[r].flags \in SUBSET GFlags
                      /\ gnttab_table[r].frame \in Frames \cup {NoFrame}
  BY <1>1 DEF GEntries
<1>3. \A r \in Refs : \/ r \in FreeRefs \/ granted[r] # NoGrant
                      \/ \E t \in GrantThreads : gnt[t].step \in FillSteps /\ gnt[t].ref = r
  BY FillingIs DEF GrantsInv
<1> QED BY <1>1, <1>2, <1>3 DEF GrantsInv, GTyped

\* A thread's step that touches neither list nor entries nor grants.
LEMMA CallOnly ==
  ASSUME GrantsInv, NEW t \in GrantThreads, NEW q \in {GntIdle} \cup Filling \cup Ending \cup Freeing,
         gnt' = [gnt EXCEPT ![t] = q],
         UNCHANGED <<gnttab_list, gnttab_table, granted, mapping>>,
         gnt[t].step \notin FillSteps, q.step \notin FillSteps,
         q.step \in EndSteps => granted[q.ref] # NoGrant,
         q.step = "free" => gnttab_table[q.ref].flags \in {{}, Transferred},
         \A u \in GrantThreads : u # t /\ q.step \in EndSteps /\ gnt[u].step \in EndSteps => q.ref # gnt[u].ref
  PROVE  GrantsInv'
<1>1. FreeRefs' = FreeRefs
  BY DEF FreeRefs, IsChain
<1>2. ListSound'
  BY <1>1, GFound DEF ListSound
<1>3. CallFits(q, gnttab_table', granted', FreeRefs')
  BY DEF CallFits, FillSteps
<1>4. OthersFit(t, gnttab_table', granted', FreeRefs')
  BY <1>1, GFound DEF OthersFit
<1>5. Accounted(t, q, granted', FreeRefs')
  BY <1>1, GFound DEF Accounted
<1>6. /\ gnttab_list' \in [Entries -> Entries] /\ gnttab_table' \in [Refs -> GEntries]
      /\ granted' \in [Refs -> {NoGrant} \cup Given] /\ mapping' \in [Refs -> Frames \cup {NoFrame}]
  BY GFound
<1>7. AllFit(gnttab_table', granted', mapping')
  BY GFound DEF AllFit
<1>8. Apart(t, q)
  BY DEF Apart
<1> QED BY <1>2, <1>3, <1>4, <1>5, <1>6, <1>7, <1>8, OwnCall

\* gnttab_grant_access or gnttab_grant_transfer takes a reference from the list.
LEMMA GrantKept ==
  ASSUME GrantsInv, NEW t \in GrantThreads, NEW use \in GUses, NEW frame \in Frames,
         Grant(t, use, frame), gntBug \in BOOLEAN, ~gntBug
  PROVE  GrantsInv'
<1>1. /\ gnt[t].step = "idle" /\ UNCHANGED <<gnttab_table, granted, mapping>>
      /\ gnt' = [gnt EXCEPT ![t] = IF gntBug' THEN GntIdle
                   ELSE [step |-> "fill", ref |-> gnttab_list[0], use |-> use, frame |-> frame]]
  BY DEF Grant
<1>2. CASE gnttab_list[0] \in Refs
  <2>1. PICK h \in Refs : h = gnttab_list[0]
    BY <1>2
  <2>2. gnttab_list' = [gnttab_list EXCEPT ![0] = gnttab_list[h]] /\ ~gntBug'
    BY <1>2, <2>1 DEF Grant, get_free_entry
  <2>3. PICK q : q = [step |-> "fill", ref |-> h, use |-> use, frame |-> frame]
    OBVIOUS
  <2>4. gnt' = [gnt EXCEPT ![t] = q] /\ q \in Filling /\ q.step = "fill" /\ q.ref = h
    BY <1>1, <2>1, <2>2, <2>3 DEF Filling
  <2>5. h \in FreeRefs /\ gnttab_list' \in [Entries -> Entries] /\ FreeRefs' = FreeRefs \ {h} /\ ListSound'
    BY <2>1, <2>2, GFound, GetTakes
  <2>6. granted[h] = NoGrant
    BY <2>5, GFound
  <2>7. CallFits(q, gnttab_table', granted', FreeRefs')
    BY <1>1, <2>4, <2>5, <2>6 DEF CallFits, EndSteps
  <2>8. OthersFit(t, gnttab_table', granted', FreeRefs')
    BY <1>1, <2>5, GFound DEF CallFits, OthersFit
  <2>9. \A u \in GrantThreads : gnt[u].step \in FillSteps => gnt[u].ref # h
    BY <2>5, GFound DEF CallFits
  <2>10. Accounted(t, q, granted', FreeRefs')
    BY <1>1, <2>4, <2>5, GFound DEF FillSteps, Accounted
  <2>11. /\ gnttab_table' \in [Refs -> GEntries]
         /\ granted' \in [Refs -> {NoGrant} \cup Given] /\ mapping' \in [Refs -> Frames \cup {NoFrame}]
    BY <1>1, GFound
  <2>12. AllFit(gnttab_table', granted', mapping')
    BY <1>1, GFound DEF AllFit
  <2>13. q.step \notin EndSteps
    BY <2>4 DEF EndSteps
  <2>14. Apart(t, q)
    BY <2>4, <2>9, <2>13 DEF Apart
  <2>15. q \in {GntIdle} \cup Filling \cup Ending \cup Freeing
    BY <2>4
  <2> QED BY <2>4, <2>5, <2>7, <2>8, <2>10, <2>11, <2>12, <2>14, <2>15, OwnCall
<1>3. CASE gnttab_list[0] \notin Refs
  <2>1. gnttab_list' = gnttab_list /\ gntBug'
    BY <1>3 DEF Grant, get_free_entry
  <2>2. gnt' = [gnt EXCEPT ![t] = GntIdle]
    BY <1>1, <2>1
  <2>3. GntIdle.step = "idle"
    BY CallKinds
  <2>4. GntIdle.step \notin FillSteps /\ GntIdle.step \notin EndSteps /\ gnt[t].step \notin FillSteps /\ GntIdle.step # "free"
    BY <1>1, <2>3 DEF FillSteps, EndSteps
  <2> QED BY <1>1, <2>1, <2>2, <2>4, CallOnly
<1> QED BY <1>2, <1>3

\* The entry's frame and domain are written.
LEMMA FillEntryKept ==
  ASSUME GrantsInv, NEW t \in GrantThreads, FillEntry(t)
  PROVE  GrantsInv'
<1>1. PICK p \in {GntIdle} \cup Filling \cup Ending \cup Freeing : p = gnt[t]
  BY GFound
<1>2. p.step = "fill" /\ UNCHANGED <<gnttab_list, granted, mapping>>
  BY <1>1 DEF FillEntry
<1>3. p \in Filling
  BY <1>2, CallKinds DEF FillSteps
<1>4. PICK r \in Refs : r = p.ref
  BY <1>3 DEF Filling
<1>5. PICK q : q = [p EXCEPT !.step = "flags"]
  OBVIOUS
<1>6. q \in Filling /\ q.step = "flags" /\ q.ref = r /\ q.frame = p.frame /\ p.frame \in Frames
  BY <1>3, <1>4, <1>5 DEF Filling
<1>7. gnt' = [gnt EXCEPT ![t] = q]
  BY <1>1, <1>5 DEF FillEntry
<1>8. PICK e : e = [gnttab_table[r] EXCEPT !.frame = p.frame]
  OBVIOUS
<1>9. e \in GEntries /\ e.flags = gnttab_table[r].flags /\ e.frame = p.frame
  BY <1>6, <1>8, GFound DEF GEntries
<1>10. gnttab_table' = [gnttab_table EXCEPT ![r] = e]
  BY <1>1, <1>4, <1>8 DEF FillEntry
<1>11. /\ gnttab_table' \in [Refs -> GEntries] /\ gnttab_table'[r] = e
       /\ \A s \in Refs : s # r => gnttab_table'[s] = gnttab_table[s]
  BY <1>9, <1>10, GFound
<1>12. FreeRefs' = FreeRefs
  BY <1>2 DEF FreeRefs, IsChain
<1>13. ListSound'
  BY <1>2, <1>12, GFound DEF ListSound
<1>14. granted[r] = NoGrant /\ r \notin FreeRefs
  BY <1>1, <1>2, <1>4, GFound DEF CallFits, FillSteps
<1>15. AllFit(gnttab_table', granted', mapping')
  <2> SUFFICES ASSUME NEW s \in Refs PROVE EntryFits(gnttab_table'[s], granted'[s], mapping'[s])
    BY DEF AllFit
  <2>1. CASE s = r
    BY <1>2, <1>9, <1>11, <1>14, <2>1, GFound DEF EntryFits
  <2>2. CASE s # r
    BY <1>2, <1>11, <2>2, GFound
  <2> QED BY <2>1, <2>2
<1>16. CallFits(q, gnttab_table', granted', FreeRefs')
  BY <1>2, <1>6, <1>9, <1>11, <1>12, <1>14 DEF CallFits, EndSteps
<1>17. ASSUME NEW u \in GrantThreads, u # t
       PROVE  /\ CallFits(gnt[u], gnttab_table', granted', FreeRefs')
              /\ gnt[u].step \in FillSteps => gnt[u].ref # r
  <2>1. PICK z \in {GntIdle} \cup Filling \cup Ending \cup Freeing : z = gnt[u] /\ CallFits(z, gnttab_table, granted, FreeRefs)
    BY GFound
  <2>2. z.step \in FillSteps => z.ref # r
    BY <1>1, <1>2, <1>4, <1>17, <2>1 DEF GrantsInv, FillSteps
  <2>3. z.step = "free" => z.ref # r
    BY <1>14, <2>1 DEF CallFits, EndSteps
  <2>4. z.step \in {"flags", "free"} => gnttab_table'[z.ref] = gnttab_table[z.ref]
    BY <1>11, <2>2, <2>3, CallKinds DEF FillSteps, EndSteps
  <2> QED BY <1>2, <1>12, <2>1, <2>2, <2>4 DEF CallFits
<1>18. Accounted(t, q, granted', FreeRefs')
  BY <1>1, <1>2, <1>4, <1>6, <1>12, GFound DEF FillSteps, Accounted
<1>19. q.step \notin EndSteps
  BY <1>6 DEF EndSteps
<1>20. /\ gnttab_list' \in [Entries -> Entries]
       /\ granted' \in [Refs -> {NoGrant} \cup Given] /\ mapping' \in [Refs -> Frames \cup {NoFrame}]
  BY <1>2, GFound
<1>21. Apart(t, q) /\ OthersFit(t, gnttab_table', granted', FreeRefs')
  BY <1>6, <1>17, <1>19 DEF Apart, OthersFit
<1> QED BY <1>6, <1>7, <1>11, <1>13, <1>15, <1>16, <1>18, <1>20, <1>21, OwnCall

\* The flags are written, and the grant is there.
LEMMA SetFlagsKept ==
  ASSUME GrantsInv, NEW t \in GrantThreads, SetFlags(t)
  PROVE  GrantsInv'
<1>1. PICK p \in {GntIdle} \cup Filling \cup Ending \cup Freeing : p = gnt[t]
  BY GFound
<1>2. p.step = "flags" /\ UNCHANGED <<gnttab_list, mapping>>
  BY <1>1 DEF SetFlags
<1>3. p \in Filling
  BY <1>2, CallKinds DEF FillSteps
<1>4. PICK r \in Refs : r = p.ref
  BY <1>3 DEF Filling
<1>5. PICK g : g = [use |-> p.use, frame |-> p.frame]
  OBVIOUS
<1>6. g \in Given /\ g.use = p.use /\ g.frame = p.frame /\ p.use \in GUses /\ p.frame \in Frames
  BY <1>3, <1>5 DEF Filling, Given
<1>7. g # NoGrant
  BY <1>6 DEF NoGrant, GUses
<1>8. PICK e : e = [gnttab_table[r] EXCEPT !.flags = FlagsOf(p.use)]
  OBVIOUS
<1>9. FlagsOf(p.use) \in SUBSET GFlags
  BY <1>6 DEF FlagsOf, GUses, GFlags, Transferred
<1>10. e \in GEntries /\ e.flags = FlagsOf(p.use) /\ e.frame = gnttab_table[r].frame
  BY <1>8, <1>9, GFound DEF GEntries
<1>11. /\ gnttab_table' = [gnttab_table EXCEPT ![r] = e] /\ granted' = [granted EXCEPT ![r] = g]
       /\ gnt' = [gnt EXCEPT ![t] = GntIdle]
  BY <1>1, <1>4, <1>5, <1>8 DEF SetFlags
<1>12. /\ gnttab_table' \in [Refs -> GEntries] /\ gnttab_table'[r] = e
       /\ granted' \in [Refs -> {NoGrant} \cup Given] /\ granted'[r] = g
       /\ \A s \in Refs : s # r => gnttab_table'[s] = gnttab_table[s] /\ granted'[s] = granted[s]
  BY <1>6, <1>10, <1>11, GFound
<1>13. FreeRefs' = FreeRefs
  BY <1>2 DEF FreeRefs, IsChain
<1>14. ListSound'
  BY <1>2, <1>13, GFound DEF ListSound
<1>15. granted[r] = NoGrant /\ r \notin FreeRefs /\ gnttab_table[r].frame = p.frame
  BY <1>1, <1>2, <1>4, GFound DEF CallFits, FillSteps
<1>16. mapping[r] = NoFrame
  BY <1>15, GFound DEF EntryFits
<1>17. EntryFits(e, g, mapping[r])
  <2>1. CASE p.use = "transfer"
    <3>1. e.flags = {"accept"} /\ e.flags # Transferred
      BY <1>10, <2>1 DEF FlagsOf, Transferred
    <3> QED BY <1>6, <1>7, <1>16, <2>1, <3>1 DEF EntryFits
  <2>2. CASE p.use # "transfer"
    <3>1. e.flags \subseteq {"permit", "ro"} /\ e.flags \cap InUse = {}
      BY <1>6, <1>10, <2>2 DEF FlagsOf, GUses, InUse
    <3> QED BY <1>6, <1>7, <1>10, <1>15, <1>16, <2>2, <3>1 DEF EntryFits
  <2> QED BY <2>1, <2>2
<1>18. AllFit(gnttab_table', granted', mapping')
  <2> SUFFICES ASSUME NEW s \in Refs PROVE EntryFits(gnttab_table'[s], granted'[s], mapping'[s])
    BY DEF AllFit
  <2>1. CASE s = r
    BY <1>2, <1>12, <1>17, <2>1
  <2>2. CASE s # r
    BY <1>2, <1>12, <2>2, GFound
  <2> QED BY <2>1, <2>2
<1>19. GntIdle.step \notin FillSteps /\ GntIdle.step \notin EndSteps /\ GntIdle.step \notin {"flags", "free"}
  BY CallKinds DEF FillSteps, EndSteps
<1>20. CallFits(GntIdle, gnttab_table', granted', FreeRefs')
  BY <1>19 DEF CallFits
<1>21. ASSUME NEW u \in GrantThreads, u # t
       PROVE  CallFits(gnt[u], gnttab_table', granted', FreeRefs')
  <2>1. PICK z \in {GntIdle} \cup Filling \cup Ending \cup Freeing : z = gnt[u] /\ CallFits(z, gnttab_table, granted, FreeRefs)
    BY GFound
  <2>2. z.step \in FillSteps => z.ref # r
    BY <1>1, <1>2, <1>4, <1>21, <2>1 DEF GrantsInv, FillSteps
  <2>3. z.step \in EndSteps => z.ref # r
    BY <1>15, <2>1 DEF CallFits
  <2>4. z.step \in FillSteps \cup EndSteps =>
          gnttab_table'[z.ref] = gnttab_table[z.ref] /\ granted'[z.ref] = granted[z.ref]
    BY <1>12, <2>2, <2>3, CallKinds
  <2>5. {"flags"} \subseteq FillSteps /\ {"free"} \subseteq EndSteps
    BY DEF FillSteps, EndSteps
  <2> QED BY <1>13, <2>1, <2>4, <2>5 DEF CallFits
<1>22. \A s \in Refs : \/ s \in FreeRefs' \/ granted'[s] # NoGrant \/ (GntIdle.step \in FillSteps /\ GntIdle.ref = s)
                       \/ \E u \in GrantThreads : u # t /\ gnt[u].step \in FillSteps /\ gnt[u].ref = s
  <2> TAKE s \in Refs
  <2>1. CASE s = r
    BY <1>7, <1>12, <2>1
  <2>2. CASE s # r
    BY <1>1, <1>4, <1>12, <1>13, <2>2, GFound
  <2> QED BY <2>1, <2>2
<1>23. \A s \in FreeRefs' : granted'[s] = NoGrant
  <2>1. FreeRefs \subseteq Refs
    BY GFound DEF ListSound
  <2> QED BY <1>12, <1>13, <1>15, <2>1, GFound
<1>24. gnttab_list' \in [Entries -> Entries] /\ mapping' \in [Refs -> Frames \cup {NoFrame}]
  BY <1>2, GFound
<1>25. /\ Accounted(t, GntIdle, granted', FreeRefs') /\ Apart(t, GntIdle)
       /\ OthersFit(t, gnttab_table', granted', FreeRefs')
  BY <1>19, <1>21, <1>22, <1>23 DEF Accounted, Apart, OthersFit
<1> QED BY <1>11, <1>12, <1>14, <1>18, <1>20, <1>24, <1>25, OwnCall

\* gnttab_end_access or gnttab_end_transfer reads the flags.
LEMMA EndBegins ==
  ASSUME GrantsInv, NEW t \in GrantThreads, NEW r \in Refs, EndAccess(t, r) \/ EndTransfer(t, r)
  PROVE  GrantsInv'
<1>1. PICK q : q = [step |-> "end", ref |-> r, flags |-> gnttab_table[r].flags]
  OBVIOUS
<1>2. q \in Ending /\ q.step = "end" /\ q.ref = r
  BY <1>1, GFound DEF Ending
<1>3. /\ gnt[t].step = "idle" /\ granted[r].use \in {"access", "readonly", "transfer"}
      /\ gnt' = [gnt EXCEPT ![t] = q] /\ NobodyEnds(r)
      /\ UNCHANGED <<gnttab_list, gnttab_table, granted, mapping>>
  BY <1>1 DEF EndAccess, EndTransfer
<1>4. granted[r] # NoGrant
  BY <1>3 DEF NoGrant
<1>5. \A u \in GrantThreads : gnt[u].step \in EndSteps => gnt[u].ref # r
  BY <1>3 DEF NobodyEnds, EndSteps
<1>6. gnt[t].step \notin FillSteps /\ q.step \notin FillSteps /\ q.step # "free"
  BY <1>2, <1>3 DEF FillSteps
<1>7. q \in {GntIdle} \cup Filling \cup Ending \cup Freeing
  BY <1>2
<1> QED BY <1>2, <1>3, <1>4, <1>5, <1>6, <1>7, CallOnly

\* A call that goes on without touching its entry, or gives up.
LEMMA EndGoesOn ==
  ASSUME GrantsInv, NEW t \in GrantThreads, gnt[t].step \in EndSteps,
         NEW q \in {GntIdle} \cup Ending \cup Freeing, q.step \in EndSteps => q.ref = gnt[t].ref,
         q.step = "free" => gnttab_table[gnt[t].ref].flags \in {{}, Transferred},
         gnt' = [gnt EXCEPT ![t] = q], UNCHANGED <<gnttab_list, gnttab_table, granted, mapping>>
  PROVE  GrantsInv'
<1>1. q.step \in {"idle"} \cup EndSteps
  BY CallKinds DEF Ending, Freeing, EndSteps
<1>2. gnt[t].step \notin FillSteps /\ q.step \notin FillSteps /\ "free" \in EndSteps
  BY <1>1 DEF FillSteps, EndSteps
<1>3. granted[gnt[t].ref] # NoGrant
  BY GFound DEF CallFits
<1>4. \A u \in GrantThreads : u # t /\ q.step \in EndSteps /\ gnt[u].step \in EndSteps => q.ref # gnt[u].ref
  BY DEF GrantsInv
<1>5. q \in {GntIdle} \cup Filling \cup Ending \cup Freeing
  OBVIOUS
<1>6. /\ q.step \in EndSteps => granted[q.ref] # NoGrant
      /\ q.step = "free" => gnttab_table[q.ref].flags \in {{}, Transferred}
  BY <1>2, <1>3
<1> QED BY <1>2, <1>4, <1>5, <1>6, CallOnly

\* The flags seen are exchanged for none.
LEMMA ClearKept ==
  ASSUME GrantsInv, NEW t \in GrantThreads, gnt[t].step = "end", NEW r, r = gnt[t].ref,
         gnttab_table[r].flags \cap InUse = {}, "completed" \notin gnttab_table[r].flags,
         gnttab_table' = [gnttab_table EXCEPT ![r].flags = {}],
         gnt' = [gnt EXCEPT ![t] = [step |-> "free", ref |-> r]],
         UNCHANGED <<gnttab_list, granted, mapping>>
  PROVE  GrantsInv'
<1>1. PICK p \in {GntIdle} \cup Filling \cup Ending \cup Freeing : p = gnt[t]
  BY GFound
<1>2. r \in Refs /\ granted[r] # NoGrant /\ p.step \in EndSteps
  BY <1>1, GFound, CallKinds DEF CallFits, EndSteps
<1>3. PICK e : e = [gnttab_table[r] EXCEPT !.flags = {}]
  OBVIOUS
<1>4. e \in GEntries /\ e.flags = {} /\ e.frame = gnttab_table[r].frame
  BY <1>2, <1>3, GFound DEF GEntries
<1>5. /\ gnttab_table' \in [Refs -> GEntries] /\ gnttab_table'[r] = e
      /\ \A s \in Refs : s # r => gnttab_table'[s] = gnttab_table[s]
  BY <1>2, <1>3, <1>4, GFound
<1>6. PICK q : q = [step |-> "free", ref |-> r]
  OBVIOUS
<1>7. /\ q \in {GntIdle} \cup Filling \cup Ending \cup Freeing /\ q.step = "free" /\ q.ref = r
      /\ gnt' = [gnt EXCEPT ![t] = q]
  BY <1>2, <1>6 DEF Freeing
<1>8. FreeRefs' = FreeRefs
  BY DEF FreeRefs, IsChain
<1>9. ListSound'
  BY <1>8, GFound DEF ListSound
<1>10. mapping[r] = NoFrame
  <2>1. EntryFits(gnttab_table[r], granted[r], mapping[r])
    BY <1>2, GFound
  <2>2. gnttab_table[r].flags # Transferred
    BY DEF Transferred
  <2> QED BY <1>2, <2>1, <2>2 DEF EntryFits
<1>11. EntryFits(e, granted[r], mapping[r])
  <2>1. EntryFits(gnttab_table[r], granted[r], mapping[r]) /\ {} # Transferred
    BY <1>2, GFound DEF Transferred
  <2> QED BY <1>2, <1>4, <1>10, <2>1 DEF EntryFits
<1>12. AllFit(gnttab_table', granted', mapping')
  <2> SUFFICES ASSUME NEW s \in Refs PROVE EntryFits(gnttab_table'[s], granted'[s], mapping'[s])
    BY DEF AllFit
  <2>1. CASE s = r
    BY <1>5, <1>11, <2>1
  <2>2. CASE s # r
    BY <1>5, <2>2, GFound
  <2> QED BY <2>1, <2>2
<1>13. CallFits(q, gnttab_table', granted', FreeRefs')
  BY <1>2, <1>4, <1>5, <1>7 DEF CallFits, FillSteps, EndSteps
<1>14. OthersFit(t, gnttab_table', granted', FreeRefs')
  <2> SUFFICES ASSUME NEW u \in GrantThreads, u # t
               PROVE  CallFits(gnt[u], gnttab_table', granted', FreeRefs')
    BY DEF OthersFit
  <2>1. PICK z \in {GntIdle} \cup Filling \cup Ending \cup Freeing : z = gnt[u] /\ CallFits(z, gnttab_table, granted, FreeRefs)
    BY GFound
  <2>2. z.step \in EndSteps => z.ref # r
    BY <1>1, <1>2, <2>1 DEF GrantsInv
  <2>3. z.step \in FillSteps => z.ref # r
    BY <1>2, <2>1 DEF CallFits
  <2>4. z.step \in {"flags", "free"} => gnttab_table'[z.ref] = gnttab_table[z.ref]
    BY <1>5, <2>2, <2>3, CallKinds DEF FillSteps, EndSteps
  <2> QED BY <1>8, <2>1, <2>4 DEF CallFits
<1>15. Apart(t, q)
  BY <1>1, <1>2, <1>7 DEF Apart, GrantsInv, FillSteps
<1>16. Accounted(t, q, granted', FreeRefs')
  <2>1. gnt[t].step \notin FillSteps
    BY DEF FillSteps
  <2> QED BY <1>8, <2>1, GFound DEF Accounted
<1>17. /\ gnttab_list' \in [Entries -> Entries]
       /\ granted' \in [Refs -> {NoGrant} \cup Given] /\ mapping' \in [Refs -> Frames \cup {NoFrame}]
  BY GFound
<1> QED BY <1>5, <1>7, <1>9, <1>12, <1>13, <1>14, <1>15, <1>16, <1>17, OwnCall

\* The flags are looked at again.
LEMMA LookAgain ==
  ASSUME GrantsInv, NEW t \in GrantThreads, gnt[t].step = "end",
         gnt' = [gnt EXCEPT ![t].flags = gnttab_table[gnt[t].ref].flags],
         UNCHANGED <<gnttab_list, gnttab_table, granted, mapping>>
  PROVE  GrantsInv'
<1>1. PICK p \in {GntIdle} \cup Filling \cup Ending \cup Freeing : p = gnt[t]
  BY GFound
<1>2. p \in Ending /\ p.ref \in Refs
  BY <1>1, CallKinds DEF EndSteps
<1>3. PICK q : q = [p EXCEPT !.flags = gnttab_table[p.ref].flags]
  OBVIOUS
<1>4. q \in Ending /\ q.ref = p.ref /\ q.step = "end"
  BY <1>1, <1>2, <1>3, GFound DEF Ending
<1>5. gnt' = [gnt EXCEPT ![t] = q]
  BY <1>1, <1>3
<1>6. gnt[t].step \in EndSteps /\ q.step # "free" /\ q \in {GntIdle} \cup Ending \cup Freeing
  BY <1>4 DEF EndSteps
<1> QED BY <1>1, <1>4, <1>5, <1>6, EndGoesOn

\* The flags are cleared when they are what was read.
LEMMA CompareAndClearKept ==
  ASSUME GrantsInv, NEW t \in GrantThreads, CompareAndClear(t)
  PROVE  GrantsInv'
<1>1. PICK r : r = gnt[t].ref
  OBVIOUS
<1>2. /\ gnt[t].step = "end" /\ granted[r].use # "transfer" /\ UNCHANGED <<gnttab_list, granted, mapping>>
  BY <1>1 DEF CompareAndClear
<1>3. CASE gnt[t].flags \cap InUse # {}
  <2>1. gnt' = [gnt EXCEPT ![t] = GntIdle] /\ UNCHANGED gnttab_table
    BY <1>3 DEF CompareAndClear
  <2>2. gnt[t].step \in EndSteps /\ GntIdle.step \notin EndSteps /\ GntIdle.step # "free"
    BY <1>2, CallKinds DEF EndSteps
  <2>3. GntIdle \in {GntIdle} \cup Ending \cup Freeing
    OBVIOUS
  <2> QED BY <1>2, <2>1, <2>2, <2>3, EndGoesOn
<1>4. CASE gnt[t].flags \cap InUse = {} /\ gnttab_table[r].flags = gnt[t].flags
  <2>1. /\ gnttab_table' = [gnttab_table EXCEPT ![r].flags = {}]
        /\ gnt' = [gnt EXCEPT ![t] = [step |-> "free", ref |-> r]]
    BY <1>1, <1>4 DEF CompareAndClear
  <2>2. r \in Refs /\ granted[r] # NoGrant
    <3>1. PICK p \in {GntIdle} \cup Filling \cup Ending \cup Freeing : p = gnt[t] /\ CallFits(p, gnttab_table, granted, FreeRefs)
      BY GFound
    <3> QED BY <1>1, <1>2, <3>1, CallKinds DEF CallFits, EndSteps
  <2>3. "completed" \notin gnttab_table[r].flags
    <3>1. gnttab_table[r].flags \subseteq {"permit", "ro"} \cup InUse
      BY <1>2, <2>2, GFound DEF EntryFits
    <3> QED BY <3>1 DEF InUse
  <2> QED BY <1>1, <1>2, <1>4, <2>1, <2>3, ClearKept
<1>5. CASE gnt[t].flags \cap InUse = {} /\ gnttab_table[r].flags # gnt[t].flags
  <2>1. gnt' = [gnt EXCEPT ![t].flags = gnttab_table[r].flags] /\ UNCHANGED gnttab_table
    BY <1>1, <1>5 DEF CompareAndClear
  <2> QED BY <1>1, <1>2, <2>1, LookAgain
<1> QED BY <1>3, <1>4, <1>5

\* A transfer that has not begun is taken back.
LEMMA RevokeTransferKept ==
  ASSUME GrantsInv, NEW t \in GrantThreads, RevokeTransfer(t)
  PROVE  GrantsInv'
<1>1. PICK r : r = gnt[t].ref
  OBVIOUS
<1>2. /\ gnt[t].step = "end" /\ granted[r].use = "transfer" /\ UNCHANGED <<gnttab_list, granted, mapping>>
  BY <1>1 DEF RevokeTransfer
<1>3. CASE "committed" \in gnt[t].flags
  <2>1. gnt' = [gnt EXCEPT ![t].step = "await"] /\ UNCHANGED gnttab_table
    BY <1>3 DEF RevokeTransfer
  <2>2. PICK p \in {GntIdle} \cup Filling \cup Ending \cup Freeing : p = gnt[t]
    BY GFound
  <2>3. p \in Ending
    BY <1>2, <2>2, CallKinds
  <2>4. PICK q : q = [p EXCEPT !.step = "await"]
    OBVIOUS
  <2>5. q \in Ending /\ q.ref = p.ref /\ q.step = "await"
    BY <2>3, <2>4 DEF Ending
  <2>6. gnt' = [gnt EXCEPT ![t] = q]
    BY <2>1, <2>2, <2>4
  <2>7. gnt[t].step \in EndSteps /\ q.step # "free" /\ q \in {GntIdle} \cup Ending \cup Freeing
    BY <1>2, <2>5 DEF EndSteps
  <2> QED BY <1>2, <2>1, <2>2, <2>5, <2>6, <2>7, EndGoesOn
<1>4. CASE "committed" \notin gnt[t].flags /\ gnttab_table[r].flags = gnt[t].flags
  <2>1. /\ gnttab_table' = [gnttab_table EXCEPT ![r].flags = {}]
        /\ gnt' = [gnt EXCEPT ![t] = [step |-> "free", ref |-> r]]
    BY <1>1, <1>4 DEF RevokeTransfer
  <2>2. r \in Refs /\ granted[r] # NoGrant
    <3>1. PICK p \in {GntIdle} \cup Filling \cup Ending \cup Freeing : p = gnt[t] /\ CallFits(p, gnttab_table, granted, FreeRefs)
      BY GFound
    <3> QED BY <1>1, <1>2, <3>1, CallKinds DEF CallFits, EndSteps
  <2>3. "completed" \notin gnttab_table[r].flags /\ gnttab_table[r].flags \cap InUse = {}
    <3>1. gnttab_table[r].flags \in {{}, {"accept"}, {"accept", "committed"}, Transferred}
      BY <1>2, <2>2, GFound DEF EntryFits
    <3>2. gnttab_table[r].flags \in {{}, {"accept"}}
      BY <1>4, <3>1 DEF Transferred
    <3> QED BY <3>2 DEF InUse
  <2> QED BY <1>1, <1>2, <1>4, <2>1, <2>3, ClearKept
<1>5. CASE "committed" \notin gnt[t].flags /\ gnttab_table[r].flags # gnt[t].flags
  <2>1. gnt' = [gnt EXCEPT ![t].flags = gnttab_table[r].flags] /\ UNCHANGED gnttab_table
    BY <1>1, <1>5 DEF RevokeTransfer
  <2> QED BY <1>1, <1>2, <2>1, LookAgain
<1> QED BY <1>3, <1>4, <1>5

\* The frame of a transfer is waited for.
LEMMA AwaitFrameKept ==
  ASSUME GrantsInv, NEW t \in GrantThreads, AwaitFrame(t)
  PROVE  GrantsInv'
<1>1. PICK p \in {GntIdle} \cup Filling \cup Ending \cup Freeing : p = gnt[t] /\ CallFits(p, gnttab_table, granted, FreeRefs)
  BY GFound
<1>2. PICK r : r = p.ref
  OBVIOUS
<1>3. p.step = "await" /\ "completed" \in gnttab_table[r].flags
  BY <1>1, <1>2 DEF AwaitFrame
<1>4. r \in Refs /\ granted[r] # NoGrant
  BY <1>1, <1>2, <1>3, CallKinds DEF CallFits, EndSteps
<1>5. gnttab_table[r].flags = Transferred
  <2>1. EntryFits(gnttab_table[r], granted[r], mapping[r])
    BY <1>4, GFound
  <2>2. ~(gnttab_table[r].flags \subseteq {"permit", "ro"} \cup InUse)
    BY <1>3 DEF InUse
  <2>3. gnttab_table[r].flags \notin {{}, {"accept"}, {"accept", "committed"}}
    BY <1>3
  <2> QED BY <1>4, <2>1, <2>2, <2>3 DEF EntryFits
<1>6. PICK q : q = [step |-> "free", ref |-> r]
  OBVIOUS
<1>7. q \in Freeing /\ q.step = "free" /\ q.ref = r
  BY <1>4, <1>6 DEF Freeing
<1>8. gnt' = [gnt EXCEPT ![t] = q] /\ UNCHANGED <<gnttab_list, gnttab_table, granted, mapping>>
  BY <1>1, <1>2, <1>6 DEF AwaitFrame
<1>9. gnt[t].step \in EndSteps /\ q \in {GntIdle} \cup Ending \cup Freeing
  BY <1>1, <1>3, <1>7 DEF EndSteps
<1> QED BY <1>1, <1>2, <1>5, <1>7, <1>8, <1>9, EndGoesOn

\* The reference goes back to the list.
LEMMA FreeEntryKept ==
  ASSUME GrantsInv, NEW t \in GrantThreads, FreeEntry(t)
  PROVE  GrantsInv'
<1>1. PICK p \in {GntIdle} \cup Filling \cup Ending \cup Freeing : p = gnt[t] /\ CallFits(p, gnttab_table, granted, FreeRefs)
  BY GFound
<1>2. PICK r : r = p.ref
  OBVIOUS
<1>3. /\ p.step = "free" /\ put_free_entry(r) /\ granted' = [granted EXCEPT ![r] = NoGrant]
      /\ mapping' = IF granted[r].use = "transfer" THEN [mapping EXCEPT ![r] = NoFrame] ELSE mapping
      /\ gnt' = [gnt EXCEPT ![t] = GntIdle] /\ UNCHANGED gnttab_table
  BY <1>1, <1>2 DEF FreeEntry
<1>4. r \in Refs /\ granted[r] # NoGrant /\ gnttab_table[r].flags \in {{}, Transferred} /\ p.step \in EndSteps
  BY <1>1, <1>2, <1>3, CallKinds DEF CallFits, EndSteps
<1>5. r \notin FreeRefs
  BY <1>4, GFound
<1>6. gnttab_list' \in [Entries -> Entries] /\ FreeRefs' = FreeRefs \cup {r} /\ ListSound'
  BY <1>3, <1>4, <1>5, GFound, PutAdds
<1>7. /\ granted' \in [Refs -> {NoGrant} \cup Given] /\ granted'[r] = NoGrant
      /\ \A s \in Refs : s # r => granted'[s] = granted[s]
  BY <1>3, <1>4, GFound
<1>8. /\ mapping' \in [Refs -> Frames \cup {NoFrame}]
      /\ \A s \in Refs : s # r => mapping'[s] = mapping[s]
      /\ granted[r].use = "transfer" => mapping'[r] = NoFrame
      /\ granted[r].use # "transfer" => mapping'[r] = mapping[r]
  BY <1>3, <1>4, GFound
<1>9. mapping'[r] = NoFrame
  <2>1. CASE granted[r].use = "transfer"
    BY <1>8, <2>1
  <2>2. CASE granted[r].use # "transfer"
    <3>1. /\ gnttab_table[r].flags \subseteq {"permit", "ro"} \cup InUse
          /\ mapping[r] = IF gnttab_table[r].flags \cap InUse = {} THEN NoFrame ELSE gnttab_table[r].frame
      BY <1>4, <2>2, GFound DEF EntryFits
    <3>2. gnttab_table[r].flags = {}
      BY <1>4, <3>1 DEF Transferred, InUse
    <3> QED BY <1>8, <2>2, <3>1, <3>2
  <2> QED BY <2>1, <2>2
<1>10. AllFit(gnttab_table', granted', mapping')
  <2> SUFFICES ASSUME NEW s \in Refs PROVE EntryFits(gnttab_table'[s], granted'[s], mapping'[s])
    BY DEF AllFit
  <2>1. CASE s = r
    BY <1>3, <1>4, <1>7, <1>9, <2>1 DEF EntryFits
  <2>2. CASE s # r
    BY <1>3, <1>7, <1>8, <2>2, GFound
  <2> QED BY <2>1, <2>2
<1>11. GntIdle.step \notin FillSteps /\ GntIdle.step \notin EndSteps /\ GntIdle.step \notin {"flags", "free"}
  BY CallKinds DEF FillSteps, EndSteps
<1>12. CallFits(GntIdle, gnttab_table', granted', FreeRefs') /\ Apart(t, GntIdle)
  BY <1>11 DEF CallFits, Apart
<1>13. OthersFit(t, gnttab_table', granted', FreeRefs')
  <2> SUFFICES ASSUME NEW u \in GrantThreads, u # t
               PROVE  CallFits(gnt[u], gnttab_table', granted', FreeRefs')
    BY DEF OthersFit
  <2>1. PICK z \in {GntIdle} \cup Filling \cup Ending \cup Freeing : z = gnt[u] /\ CallFits(z, gnttab_table, granted, FreeRefs)
    BY GFound
  <2>2. z.step \in EndSteps => z.ref # r
    BY <1>1, <1>2, <1>4, <2>1 DEF GrantsInv
  <2>3. z.step \in FillSteps => z.ref # r
    BY <1>4, <2>1 DEF CallFits
  <2>4. z.step \in FillSteps \cup EndSteps => granted'[z.ref] = granted[z.ref]
    BY <1>7, <2>2, <2>3, CallKinds
  <2> QED BY <1>3, <1>6, <2>1, <2>3, <2>4 DEF CallFits
<1>14. Accounted(t, GntIdle, granted', FreeRefs')
  <2>1. gnt[t].step \notin FillSteps
    BY <1>1, <1>3 DEF FillSteps
  <2>2. FreeRefs \subseteq Refs
    BY GFound DEF ListSound
  <2>3. \A s \in FreeRefs' : granted'[s] = NoGrant
    BY <1>6, <1>7, <2>2, GFound
  <2>4. ASSUME NEW s \in Refs
        PROVE  \/ s \in FreeRefs' \/ granted'[s] # NoGrant
               \/ \E u \in GrantThreads : u # t /\ gnt[u].step \in FillSteps /\ gnt[u].ref = s
    BY <1>6, <1>7, <2>1, GFound
  <2> QED BY <2>3, <2>4 DEF Accounted
<1>15. gnttab_table' \in [Refs -> GEntries] /\ GntIdle \in {GntIdle} \cup Filling \cup Ending \cup Freeing
  BY <1>3, GFound
<1> QED BY <1>3, <1>6, <1>7, <1>8, <1>10, <1>12, <1>13, <1>14, <1>15, OwnCall

\* The backend's steps.  Only an entry that is held lets it do anything.
LEMMA BackendFinds ==
  ASSUME GrantsInv, NEW r \in Refs, gnttab_table[r].flags \notin {{}, Transferred}
  PROVE  /\ granted[r] # NoGrant
         /\ granted[r].use # "transfer" =>
              /\ gnttab_table[r].flags \subseteq {"permit", "ro"} \cup InUse
              /\ gnttab_table[r].frame = granted[r].frame /\ granted[r].frame \in Frames
         /\ granted[r].use = "transfer" => gnttab_table[r].flags \in {{"accept"}, {"accept", "committed"}}
         /\ gnttab_table[r] \in GEntries /\ gnttab_table[r].flags \in SUBSET GFlags
<1>1. EntryFits(gnttab_table[r], granted[r], mapping[r]) /\ granted[r] \in {NoGrant} \cup Given
  BY GFound
<1>2. granted[r] # NoGrant
  BY <1>1 DEF EntryFits
<1>3. granted[r].frame \in Frames
  BY <1>1, <1>2 DEF Given
<1> QED BY <1>1, <1>2, <1>3, GFound DEF EntryFits

\* The other domain maps the frame.
LEMMA MapGrantKept ==
  ASSUME GrantsInv, NEW r \in Refs, NEW use \in InUse, MapGrant(r, use)
  PROVE  GrantsInv'
<1>1. PICK e : e = [gnttab_table[r] EXCEPT !.flags = gnttab_table[r].flags \cup {"reading", use}]
  OBVIOUS
<1>2. "permit" \in gnttab_table[r].flags /\ UNCHANGED <<gnttab_list, gnt, granted>>
  BY DEF MapGrant
<1>3. gnttab_table[r].flags \notin {{}, Transferred}
  BY <1>2 DEF Transferred
<1>4. {"reading", use} \subseteq GFlags /\ {"reading", use} \subseteq InUse
  BY DEF GFlags, InUse
<1>5. /\ e \in GEntries /\ e.flags = gnttab_table[r].flags \cup {"reading", use}
      /\ e.frame = gnttab_table[r].frame
  BY <1>1, <1>3, <1>4, BackendFinds DEF GEntries
<1>6. /\ gnttab_table' = [gnttab_table EXCEPT ![r] = e]
      /\ mapping' = [mapping EXCEPT ![r] = gnttab_table[r].frame]
  BY <1>1 DEF MapGrant
<1>7. granted[r].use # "transfer"
  BY <1>2, <1>3, BackendFinds
<1>8. EntryFits(e, granted[r], gnttab_table[r].frame)
  BY <1>3, <1>4, <1>5, <1>7, BackendFinds DEF EntryFits
<1>9. gnttab_table[r].frame \in Frames \cup {NoFrame}
  BY GFound
<1> QED BY <1>2, <1>3, <1>5, <1>6, <1>8, <1>9, BackendFinds, OwnEntry

\* The other domain unmaps the frame.
LEMMA UnmapGrantKept ==
  ASSUME GrantsInv, NEW r \in Refs, UnmapGrant(r)
  PROVE  GrantsInv'
<1>1. PICK e : e = [gnttab_table[r] EXCEPT !.flags = gnttab_table[r].flags \ InUse]
  OBVIOUS
<1>2. gnttab_table[r].flags \cap InUse # {} /\ UNCHANGED <<gnttab_list, gnt, granted>>
  BY DEF UnmapGrant
<1>3. gnttab_table[r].flags \notin {{}, Transferred}
  BY <1>2 DEF Transferred, InUse
<1>4. /\ e \in GEntries /\ e.flags = gnttab_table[r].flags \ InUse
      /\ e.frame = gnttab_table[r].frame
  BY <1>1, <1>3, BackendFinds DEF GEntries
<1>5. /\ gnttab_table' = [gnttab_table EXCEPT ![r] = e]
      /\ mapping' = [mapping EXCEPT ![r] = NoFrame]
  BY <1>1 DEF UnmapGrant
<1>6. granted[r].use # "transfer"
  <2>1. {"accept"} \cap InUse = {} /\ {"accept", "committed"} \cap InUse = {}
    BY DEF InUse
  <2> QED BY <1>2, <1>3, <2>1, BackendFinds
<1>7. EntryFits(e, granted[r], NoFrame)
  BY <1>3, <1>4, <1>6, BackendFinds DEF EntryFits
<1> QED BY <1>2, <1>3, <1>4, <1>5, <1>7, BackendFinds, OwnEntry

\* Xen has begun the transfer.
LEMMA CommitTransferKept ==
  ASSUME GrantsInv, NEW r \in Refs, CommitTransfer(r)
  PROVE  GrantsInv'
<1>1. PICK e : e = [gnttab_table[r] EXCEPT !.flags = gnttab_table[r].flags \cup {"committed"}]
  OBVIOUS
<1>2. /\ "accept" \in gnttab_table[r].flags /\ "committed" \notin gnttab_table[r].flags
      /\ UNCHANGED <<gnttab_list, gnt, granted, mapping>>
  BY DEF CommitTransfer
<1>3. gnttab_table[r].flags \notin {{}, Transferred}
  BY <1>2 DEF Transferred
<1>4. granted[r].use = "transfer"
  BY <1>2, <1>3, BackendFinds DEF InUse
<1>5. gnttab_table[r].flags = {"accept"}
  BY <1>2, <1>3, <1>4, BackendFinds
<1>6. /\ e \in GEntries /\ e.flags = {"accept", "committed"} /\ e.frame = gnttab_table[r].frame
  <2>1. gnttab_table[r].flags \cup {"committed"} = {"accept", "committed"}
    BY <1>5
  <2>2. {"accept", "committed"} \in SUBSET GFlags
    BY DEF GFlags, Transferred
  <2> QED BY <1>1, <1>3, <2>1, <2>2, BackendFinds DEF GEntries
<1>7. mapping[r] = NoFrame /\ {"accept", "committed"} # Transferred
  <2>1. {"accept"} # Transferred /\ {"accept", "committed"} # Transferred
    BY DEF Transferred
  <2> QED BY <1>3, <1>4, <1>5, <2>1, BackendFinds, GFound DEF EntryFits
<1>8. EntryFits(e, granted[r], NoFrame)
  BY <1>3, <1>4, <1>6, <1>7, BackendFinds DEF EntryFits
<1>9. gnttab_table' = [gnttab_table EXCEPT ![r] = e] /\ mapping' = [mapping EXCEPT ![r] = NoFrame]
  BY <1>1, <1>2, <1>7, GFound DEF CommitTransfer
<1> QED BY <1>2, <1>3, <1>6, <1>8, <1>9, BackendFinds, OwnEntry

\* Xen has completed the transfer.
LEMMA CompleteTransferKept ==
  ASSUME GrantsInv, NEW r \in Refs, NEW frame \in Frames, CompleteTransfer(r, frame)
  PROVE  GrantsInv'
<1>1. /\ "committed" \in gnttab_table[r].flags /\ "completed" \notin gnttab_table[r].flags
      /\ UNCHANGED <<gnttab_list, gnt, granted>> /\ mapping' = [mapping EXCEPT ![r] = frame]
  BY DEF CompleteTransfer
<1>2. gnttab_table[r].flags \notin {{}, Transferred}
  BY <1>1 DEF Transferred
<1>3. granted[r].use = "transfer"
  BY <1>1, <1>2, BackendFinds DEF InUse
<1>4. gnttab_table[r].flags = {"accept", "committed"}
  BY <1>1, <1>2, <1>3, BackendFinds
<1>5. PICK e : e = [flags |-> gnttab_table[r].flags \cup {"completed"}, frame |-> frame]
  OBVIOUS
<1>6. e \in GEntries /\ e.flags = Transferred /\ e.frame = frame
  <2>1. gnttab_table[r].flags \cup {"completed"} = Transferred /\ Transferred \in SUBSET GFlags
    BY <1>4 DEF GFlags, Transferred
  <2> QED BY <1>5, <2>1 DEF GEntries
<1>7. gnttab_table' = [gnttab_table EXCEPT ![r] = e]
  BY <1>5 DEF CompleteTransfer
<1>8. EntryFits(e, granted[r], frame)
  BY <1>2, <1>3, <1>6, BackendFinds, GrantsAssumption DEF EntryFits
<1>9. frame \in Frames \cup {NoFrame}
  OBVIOUS
<1> QED BY <1>1, <1>2, <1>6, <1>7, <1>8, <1>9, BackendFinds, OwnEntry

\* GrantsInv holds at first ...
LEMMA GrantsStart ==
  ASSUME GntInit
  PROVE  GrantsInv /\ gntBug \in BOOLEAN
<1>1. gnttab_list \in [Entries -> Entries] /\ FreeRefs = Refs /\ ListSound
  BY ListStarts
<1>2. /\ gnttab_table = [r \in Refs |-> [flags |-> {}, frame |-> NoFrame]]
      /\ gnt = [t \in GrantThreads |-> GntIdle]
      /\ granted = [r \in Refs |-> NoGrant] /\ mapping = [r \in Refs |-> NoFrame] /\ gntBug = FALSE
  BY DEF GntInit
<1>3. PICK e \in GEntries : e = [flags |-> {}, frame |-> NoFrame] /\ e.flags = {}
  <2>1. PICK e : e = [flags |-> {}, frame |-> NoFrame]
    OBVIOUS
  <2>2. e \in GEntries /\ e.flags = {}
    BY <2>1 DEF GEntries
  <2> QED BY <2>1, <2>2
<1>4. GTyped
  BY <1>1, <1>2, <1>3 DEF GTyped
<1>5. \A r \in Refs : EntryFits(gnttab_table[r], granted[r], mapping[r])
  BY <1>2, <1>3 DEF EntryFits
<1>6. \A t \in GrantThreads : gnt[t].step \notin FillSteps \cup EndSteps \cup {"flags", "free"}
  BY <1>2, CallKinds DEF FillSteps, EndSteps
<1>7. \A t \in GrantThreads : CallFits(gnt[t], gnttab_table, granted, FreeRefs)
  BY <1>6 DEF CallFits
<1> QED BY <1>1, <1>2, <1>4, <1>5, <1>6, <1>7 DEF GrantsInv

\* ... every step keeps it ...
LEMMA GrantsNext ==
  ASSUME GrantsInv, gntBug \in BOOLEAN, GntNext
  PROVE  GrantsInv' /\ gntBug' \in BOOLEAN
<1>1. ~gntBug /\ GntStep
  BY DEF GntNext
<1>2. gntBug' \in BOOLEAN
  BY <1>1 DEF GntStep, Grant, get_free_entry, FillEntry, SetFlags, CompareAndClear, FreeEntry, RevokeTransfer,
     AwaitFrame, EndAccess, EndTransfer, MapGrant, UnmapGrant, CommitTransfer, CompleteTransfer
<1>3. CASE \E t \in GrantThreads, use \in {"access", "readonly", "transfer"}, frame \in Frames : Grant(t, use, frame)
  BY <1>1, <1>2, <1>3, GrantKept DEF GUses
<1>4. CASE \E t \in GrantThreads : \/ FillEntry(t) \/ SetFlags(t) \/ CompareAndClear(t) \/ FreeEntry(t)
                                   \/ RevokeTransfer(t) \/ AwaitFrame(t)
  BY <1>2, <1>4, FillEntryKept, SetFlagsKept, CompareAndClearKept, FreeEntryKept, RevokeTransferKept, AwaitFrameKept
<1>5. CASE \E t \in GrantThreads, r \in Refs : EndAccess(t, r) \/ EndTransfer(t, r)
  BY <1>2, <1>5, EndBegins
<1>6. CASE \E r \in Refs : \/ \E use \in InUse : MapGrant(r, use)
                           \/ UnmapGrant(r) \/ CommitTransfer(r)
                           \/ \E frame \in Frames : CompleteTransfer(r, frame)
  BY <1>2, <1>6, MapGrantKept, UnmapGrantKept, CommitTransferKept, CompleteTransferKept
<1>7. GrantsInv'
  BY <1>1, <1>3, <1>4, <1>5, <1>6 DEF GntStep
<1> QED BY <1>2, <1>7

\* A step of another part.
LEMMA GrantsStay ==
  ASSUME GrantsInv, UNCHANGED gntVars
  PROVE  GrantsInv'
<1>1. FreeRefs' = FreeRefs /\ FillingRefs' = FillingRefs
  BY DEF gntVars, FreeRefs, IsChain, FillingRefs
<1>2. UNCHANGED <<gnttab_list, gnttab_table, gnt, granted, mapping>>
  BY DEF gntVars
<1>3. GTyped' /\ ListSound'
  BY <1>1, <1>2 DEF GrantsInv, GTyped, ListSound
<1> QED BY <1>1, <1>2, <1>3 DEF GrantsInv

\* ... and it says what is promised of the entries.
LEMMA GrantsImply ==
  ASSUME GrantsInv
  PROVE  GrantsSound
<1>1. FreeRefs \subseteq Refs /\ HeldRefs = {r \in Refs : granted[r] # NoGrant}
  BY GFound DEF ListSound, HeldRefs
<1>2. FillingRefs \subseteq Refs
  BY FillingIs, GFound, CallKinds
<1>3. \A r \in FillingRefs : granted[r] = NoGrant /\ r \notin FreeRefs
  BY FillingIs, GFound DEF CallFits
<1>4. FreeRefs \cup FillingRefs \cup HeldRefs = Refs
  BY <1>1, <1>2 DEF GrantsInv
<1>5. FreeRefs \cap (FillingRefs \cup HeldRefs) = {} /\ FillingRefs \cap HeldRefs = {}
  BY <1>1, <1>3, GFound
<1>6. ASSUME NEW r \in Refs, mapping[r] # NoFrame
      PROVE  /\ r \in HeldRefs /\ gnttab_table[r].flags \cap (InUse \cup {"completed"}) # {}
             /\ granted[r].use = "transfer" \/ mapping[r] = granted[r].frame
             /\ gnttab_table[r].frame = mapping[r]
  <2>1. EntryFits(gnttab_table[r], granted[r], mapping[r])
    BY GFound
  <2>2. granted[r] # NoGrant
    BY <1>6, <2>1 DEF EntryFits
  <2>3. CASE granted[r].use = "transfer"
    BY <1>1, <1>6, <2>1, <2>2, <2>3 DEF EntryFits, Transferred
  <2>4. CASE granted[r].use # "transfer"
    BY <1>1, <1>6, <2>1, <2>2, <2>4 DEF EntryFits
  <2> QED BY <2>3, <2>4
<1>7. \A r \in Refs \ HeldRefs :
        gnttab_table[r].flags \in {{}, {"accept", "committed", "completed"}}
  BY <1>1, GFound DEF EntryFits, Transferred
<1>8. \A r, s \in {0} \cup FreeRefs : r # s /\ gnttab_list[r] = gnttab_list[s] => gnttab_list[r] = 0
  BY GFound DEF ListSound
<1> QED BY <1>4, <1>5, <1>6, <1>7, <1>8 DEF GrantsSound


-----------------------------------------------------------------------------
(* Mapping other domains' grants *)

Regions == [addr : Addresses, count : 1..MaxCount]
JobOps == {"none", "map", "undo", "unmap", "fini"}
RangeJobs == {"map", "undo", "unmap"}
Jobs == [op : JobOps, addr : Nat, i : Nat, count : Nat]
RegionPages == UNION {MapPages(g.addr, g.count) : g \in regions}
\* What the request has mapped, or has not unmapped yet, and all of its range.
JobPages == CASE job.op = "map" -> job.addr..(job.addr + job.i - 1)
              [] job.op \in {"undo", "unmap"} -> (job.addr + job.i)..(job.addr + job.count - 1)
              [] OTHER -> {}

MTyped ==
  /\ nentries \in 0..MaxGrants /\ entries \in [Table -> Addresses \cup {0}]
  /\ job \in Jobs /\ regions \subseteq Regions /\ hypMapped \subseteq Nat /\ unmapFailed \in BOOLEAN
MapTable ==
  /\ \A k \in Table : k > nentries => entries[k] = 0
  /\ Recorded \subseteq hypMapped /\ (~unmapFailed => Recorded = hypMapped)
  /\ \A j, k \in 1..nentries : j # k /\ used(j) => entries[j] # entries[k]
MapRegions ==
  job.op # "fini" =>
    /\ \A g \in regions : MapPages(g.addr, g.count) \subseteq Recorded
    /\ \A g, h \in regions : g # h => MapPages(g.addr, g.count) \cap MapPages(h.addr, h.count) = {}
    /\ ~unmapFailed => hypMapped = RegionPages \cup JobPages
MapJob ==
  /\ job.op = "none" => job = NoJob
  /\ job.op \in RangeJobs =>
       /\ job.addr \in Addresses /\ job.i <= job.count
       /\ \A g \in regions : MapPages(g.addr, g.count) \cap MapPages(job.addr, job.count) = {}
  /\ job.op = "map" =>
       /\ JobPages \subseteq Recorded /\ MapPages(job.addr, job.count) \subseteq Addresses
       /\ ((job.addr + job.i)..(job.addr + job.count - 1)) \cap hypMapped = {}
       /\ job.count \in 1..MaxCount /\ nentries > 0
  /\ job.op = "fini" => job.i >= 1 /\ \A k \in 1..nentries : k < job.i /\ ~unmapFailed => entries[k] = 0

MapsInv == MTyped /\ MapTable /\ MapRegions /\ MapJob

\* An address is recorded when an entry holds it.
LEMMA RecordedIs ==
  ASSUME NEW z
  PROVE  z \in Recorded <=> \E k \in 1..nentries : entries[k] = z /\ z # 0
  BY DEF Recorded, used

\* The same of the next state.
LEMMA RecordedNext ==
  ASSUME NEW z
  PROVE  z \in Recorded' <=> \E k \in 1..nentries' : entries'[k] = z /\ z # 0
  BY DEF Recorded, used

\* When the table stays, so does what it records.
LEMMA RecordedStays ==
  ASSUME entries' = entries, nentries' = nentries
  PROVE  Recorded' = Recorded
  BY DEF Recorded, used

\* When the table, the mappings and the failures stay, the table is right.
LEMMA TableStays ==
  ASSUME MapTable, UNCHANGED <<nentries, entries, hypMapped, unmapFailed>>
  PROVE  MapTable'
  BY RecordedStays DEF MapTable, used

\* There is no table at first.
LEMMA MapsStart == GmInit => MapsInv
<1> SUFFICES ASSUME GmInit PROVE MapsInv
  OBVIOUS
<1> USE GrantMapsAssumption DEF GmInit, NoJob
<1>1. Recorded = {}
  BY DEF Recorded
<1>2. MTyped
  <2>1. entries \in [Table -> Addresses \cup {0}]
    OBVIOUS
  <2>2. job \in Jobs
    BY DEF Jobs, JobOps
  <2>3. nentries \in 0..MaxGrants /\ regions \subseteq Regions /\ hypMapped \subseteq Nat
    OBVIOUS
  <2>4. unmapFailed \in BOOLEAN
    BY Zenon
  <2> QED BY <2>1, <2>2, <2>3, <2>4 DEF MTyped
<1>3. MapTable
  BY <1>1 DEF MapTable, Table
<1>4. MapRegions
  BY DEF MapRegions, RegionPages, JobPages
<1>5. MapJob
  BY DEF MapJob, RangeJobs
<1> QED BY <1>2, <1>3, <1>4, <1>5 DEF MapsInv

\* A step of another part.
LEMMA MapsStay ==
  ASSUME MapsInv, UNCHANGED gmVars
  PROVE  MapsInv'
<1> USE DEF gmVars
<1>1. MTyped'
  BY DEF MapsInv, MTyped
<1>2. MapTable'
  BY TableStays DEF MapsInv
<1>3. MapRegions'
  BY RecordedStays DEF MapsInv, MapRegions, RegionPages, JobPages
<1>4. MapJob'
  BY RecordedStays DEF MapsInv, MapJob, JobPages
<1> QED BY <1>1, <1>2, <1>3, <1>4 DEF MapsInv

\* gntmap_set_max_grants makes an empty table where there is none.
LEMMA SetMaxKeeps ==
  ASSUME MapsInv, NEW count \in Table, gntmap_set_max_grants(count)
  PROVE  MapsInv'
<1> USE GrantMapsAssumption DEF MapsInv, gntmap_set_max_grants
<1>1. Recorded = {} /\ Recorded' = {}
  BY DEF Recorded, used, MTyped, Table
<1>2. MTyped'
  BY DEF MTyped, Table
<1>3. MapTable'
  BY <1>1 DEF MapTable, Table, used, MTyped
<1>4. MapRegions'
  BY <1>1 DEF MapRegions, RegionPages, JobPages
<1>5. MapJob'
  BY DEF MapJob, NoJob, RangeJobs
<1> QED BY <1>2, <1>3, <1>4, <1>5

\* gntmap_map_grant_refs takes a range in which nothing is mapped.
LEMMA MapBegins ==
  ASSUME MapsInv, NEW addr \in Addresses, NEW count \in 1..MaxCount,
         gntmap_map_grant_refs(addr, count)
  PROVE  MapsInv'
<1> USE GrantMapsAssumption DEF MapsInv
<1> USE DEF gntmap_map_grant_refs
<1>1. nentries' \in 0..MaxGrants /\ nentries' > 0 /\ (nentries # 0 => nentries' = nentries)
  BY DEF MTyped
<1>2. Recorded' = Recorded
  <2>1. CASE nentries = 0
    <3>1. Recorded = {}
      BY <2>1 DEF Recorded
    <3>2. \A k \in 1..nentries' : entries'[k] = 0
      BY <2>1, <1>1 DEF MTyped, MapTable, Table
    <3>3. Recorded' = {}
      BY <3>2, RecordedNext DEF Recorded, used
    <3> QED BY <3>1, <3>3
  <2>2. CASE nentries # 0
    BY <2>2, <1>1 DEF Recorded, used
  <2> QED BY <2>1, <2>2
<1>3. MTyped'
  BY <1>1 DEF MTyped, Jobs, JobOps
<1>4. MapTable'
  <2>1. \A k \in Table : k > nentries' => entries'[k] = 0
    BY <1>1 DEF MTyped, MapTable, Table
  <2>2. \A j, k \in 1..nentries' : j # k /\ used(j)' => entries'[j] # entries'[k]
    <3>1. CASE nentries = 0
      BY <3>1, <1>1 DEF MTyped, MapTable, Table, used
    <3>2. CASE nentries # 0
      BY <3>2, <1>1 DEF MTyped, MapTable, Table, used
    <3> QED BY <3>1, <3>2
  <2> QED BY <1>2, <2>1, <2>2 DEF MapTable
<1>5. JobPages = {} /\ JobPages' = {}
  BY DEF JobPages, NoJob
<1>6. MapRegions'
  BY <1>2, <1>5 DEF MapRegions, RegionPages, NoJob
<1>7. MapPages(addr, count) \subseteq Addresses /\ MapPages(addr, count) \cap hypMapped = {}
  OBVIOUS
<1>8. \A g \in regions : MapPages(g.addr, g.count) \subseteq hypMapped
  BY DEF MapRegions, NoJob, MapTable
<1>9. job' = [op |-> "map", addr |-> addr, i |-> 0, count |-> count] /\ hypMapped' = hypMapped /\ regions' = regions
  OBVIOUS
<1>10. MapJob'
  BY <1>1, <1>5, <1>7, <1>8, <1>9 DEF MapJob, RangeJobs, MapPages
<1> QED BY <1>3, <1>4, <1>6, <1>10

\* A page is mapped: a free entry takes its address.
LEMMA MapOneKeeps ==
  ASSUME MapsInv, MapOne
  PROVE  MapsInv'
<1> USE GrantMapsAssumption
<1>0. MTyped /\ MapTable /\ MapRegions /\ MapJob
  BY DEF MapsInv
<1>a. PICK m : m = Min(FreeEntries)
  OBVIOUS
<1>b. FreeEntries \in SUBSET Nat
  BY <1>0 DEF FreeEntries, MTyped
<1>1. m \in 1..nentries /\ entries[m] = 0
  <2>1. m \in FreeEntries
    BY <1>a, <1>b, MinIsLeast DEF MapOne
  <2> QED BY <2>1 DEF FreeEntries, used
<1>c. PICK e : e = job.addr + job.i
  OBVIOUS
<1>2. /\ job.op = "map" /\ job.i < job.count /\ job.addr \in Nat /\ job.i \in Nat /\ job.count \in Nat
      /\ job' \in Jobs /\ job'.op = "map" /\ job'.addr = job.addr /\ job'.i = job.i + 1 /\ job'.count = job.count
  <2>1. PICK q : q = job /\ q \in Jobs
    BY <1>0 DEF MTyped
  <2>2. job' = [q EXCEPT !.i = q.i + 1] /\ q.op = "map" /\ q.i < q.count
    BY <2>1 DEF MapOne
  <2> QED BY <2>1, <2>2 DEF Jobs
<1>3. /\ e \in MapPages(job.addr, job.count) /\ e \in Addresses /\ e # 0 /\ e \notin hypMapped
      /\ e \in Nat
  <2>1. e \in Nat /\ e \in (job.addr + job.i)..(job.addr + job.count - 1) /\ e \in MapPages(job.addr, job.count)
    BY <1>2, <1>c DEF MapPages
  <2> QED BY <2>1, <1>0, <1>2 DEF MapJob
<1>4. /\ entries' = [entries EXCEPT ![m] = e] /\ hypMapped' = hypMapped \cup {e} /\ nentries' = nentries
      /\ regions' = regions /\ unmapFailed' = unmapFailed
  BY <1>a, <1>c DEF MapOne
<1>d. nentries \in 0..MaxGrants /\ entries \in [Table -> Addresses \cup {0}] /\ m \in Table
  BY <1>0, <1>1 DEF MTyped, Table
<1>e. \A k \in Table : entries'[k] = IF k = m THEN e ELSE entries[k]
  BY <1>4, <1>d
<1>f. 1..nentries \subseteq Table
  BY <1>d DEF Table
<1>5. Recorded' = Recorded \cup {e}
  <2>1. ASSUME NEW z PROVE z \in Recorded' <=> z \in Recorded \cup {e}
    BY RecordedIs, RecordedNext, <1>1, <1>3, <1>4, <1>e, <1>f
  <2> QED BY <2>1
<1>6. JobPages' = JobPages \cup {e}
  <2>1. JobPages = job.addr..(job.addr + job.i - 1)
    BY <1>2 DEF JobPages
  <2>2. JobPages' = job.addr..(job.addr + job.i)
    BY <1>2 DEF JobPages
  <2> QED BY <2>1, <2>2, <1>2, <1>c
<1>7. MTyped'
  BY <1>0, <1>2, <1>3, <1>4, <1>d DEF MTyped
<1>8. MapTable'
  <2>1. \A k \in Table : k > nentries' => entries'[k] = 0
    BY <1>0, <1>1, <1>4, <1>d, <1>e DEF MapTable
  <2>2. Recorded' \subseteq hypMapped' /\ (~unmapFailed' => Recorded' = hypMapped')
    BY <1>0, <1>4, <1>5 DEF MapTable
  <2>3. \A k \in 1..nentries : entries[k] # e
    BY <1>0, <1>3, RecordedIs DEF MapTable
  <2>4. \A j, k \in 1..nentries' : j # k /\ entries'[j] # 0 => entries'[j] # entries'[k]
    BY <1>0, <1>1, <1>3, <1>4, <1>e, <1>f, <2>3 DEF MapTable, used
  <2> QED BY <2>1, <2>2, <2>4 DEF MapTable, used
<1>9. MapRegions'
  BY <1>0, <1>2, <1>4, <1>5, <1>6 DEF MapRegions, RegionPages
<1>10. MapJob'
  <2>1. JobPages' \subseteq Recorded'
    BY <1>0, <1>2, <1>5, <1>6 DEF MapJob
  <2>2. ((job'.addr + job'.i)..(job'.addr + job'.count - 1)) \cap hypMapped' = {}
    BY <1>0, <1>2, <1>4, <1>c DEF MapJob
  <2> QED BY <1>0, <1>2, <1>4, <2>1, <2>2 DEF MapJob, RangeJobs
<1> QED BY <1>7, <1>8, <1>9, <1>10 DEF MapsInv

\* A page cannot be mapped: what was mapped is to be unmapped.
LEMMA MapFailsKeeps ==
  ASSUME MapsInv, MapFails
  PROVE  MapsInv'
<1>0. MTyped /\ MapTable /\ MapRegions /\ MapJob
  BY DEF MapsInv
<1>2. /\ job.op = "map" /\ job.i < job.count /\ job.addr \in Nat /\ job.i \in Nat /\ job.count \in Nat
      /\ job' \in Jobs /\ job'.op = "undo" /\ job'.addr = job.addr /\ job'.i = 0 /\ job'.count = job.i
  <2>1. PICK q : q = job /\ q \in Jobs
    BY <1>0 DEF MTyped
  <2>2. job' = [q EXCEPT !.op = "undo", !.i = 0, !.count = q.i] /\ q.op = "map" /\ q.i < q.count
    BY <2>1 DEF MapFails
  <2> QED BY <2>1, <2>2 DEF Jobs, JobOps
<1>3. UNCHANGED <<nentries, entries, hypMapped, regions, unmapFailed>>
  BY DEF MapFails
<1>4. Recorded' = Recorded
  BY <1>3, RecordedStays
<1>5. JobPages' = JobPages
  <2>1. JobPages = job.addr..(job.addr + job.i - 1)
    BY <1>2 DEF JobPages
  <2>2. JobPages' = (job.addr + 0)..(job.addr + job.i - 1)
    BY <1>2 DEF JobPages
  <2> QED BY <2>1, <2>2, <1>2
<1>6. MTyped'
  BY <1>0, <1>2, <1>3 DEF MTyped
<1>7. MapTable'
  BY <1>0, <1>3, TableStays
<1>8. MapRegions'
  BY <1>0, <1>2, <1>3, <1>4, <1>5 DEF MapRegions, RegionPages
<1>9. MapJob'
  <2>1. MapPages(job'.addr, job'.count) \subseteq MapPages(job.addr, job.count)
    BY <1>2 DEF MapPages
  <2> QED BY <1>0, <1>2, <1>3, <2>1 DEF MapJob, RangeJobs
<1> QED BY <1>6, <1>7, <1>8, <1>9 DEF MapsInv

\* All pages are mapped: the request is granted.
LEMMA MapDoneKeeps ==
  ASSUME MapsInv, MapDone
  PROVE  MapsInv'
<1> USE GrantMapsAssumption
<1>0. MTyped /\ MapTable /\ MapRegions /\ MapJob
  BY DEF MapsInv
<1>1. PICK r : r = [addr |-> job.addr, count |-> job.count]
  OBVIOUS
<1>2. /\ job.op = "map" /\ job.i = job.count /\ job.addr \in Addresses /\ job.count \in 1..MaxCount
      /\ r \in Regions /\ r.addr = job.addr /\ r.count = job.count
  BY <1>0, <1>1 DEF MapDone, MapJob, RangeJobs, Regions
<1>3. UNCHANGED <<nentries, entries, hypMapped, unmapFailed>> /\ job' = NoJob /\ regions' = regions \cup {r}
  BY <1>1 DEF MapDone
<1>4. Recorded' = Recorded
  BY <1>3, RecordedStays
<1>5. JobPages = MapPages(r.addr, r.count) /\ JobPages' = {}
  BY <1>2, <1>3 DEF JobPages, MapPages, NoJob
<1>6. RegionPages' = RegionPages \cup MapPages(r.addr, r.count)
  BY <1>3 DEF RegionPages
<1>7. MTyped'
  BY <1>0, <1>2, <1>3 DEF MTyped, NoJob, Jobs, JobOps
<1>8. MapTable'
  BY <1>0, <1>3, TableStays
<1>9. MapRegions'
  <2>1. \A g \in regions' : MapPages(g.addr, g.count) \subseteq Recorded'
    BY <1>0, <1>2, <1>3, <1>4, <1>5 DEF MapRegions, MapJob
  <2>2. \A g, h \in regions' : g # h => MapPages(g.addr, g.count) \cap MapPages(h.addr, h.count) = {}
    <3>1. \A g \in regions : MapPages(g.addr, g.count) \cap MapPages(r.addr, r.count) = {}
      BY <1>0, <1>2 DEF MapJob, RangeJobs
    <3>2. \A g, h \in regions : g # h => MapPages(g.addr, g.count) \cap MapPages(h.addr, h.count) = {}
      BY <1>0, <1>2 DEF MapRegions
    <3> QED BY <1>3, <3>1, <3>2
  <2>3. ~unmapFailed' => hypMapped' = RegionPages' \cup JobPages'
    BY <1>0, <1>2, <1>3, <1>5, <1>6 DEF MapRegions
  <2> QED BY <2>1, <2>2, <2>3 DEF MapRegions
<1>10. MapJob'
  BY <1>3 DEF MapJob, RangeJobs, NoJob
<1> QED BY <1>7, <1>8, <1>9, <1>10 DEF MapsInv

\* gntmap_munmap is asked for a range that was granted.
LEMMA UnmapBegins ==
  ASSUME MapsInv, NEW r \in regions, gntmap_munmap(r)
  PROVE  MapsInv'
<1> USE GrantMapsAssumption
<1>0. MTyped /\ MapTable /\ MapRegions /\ MapJob
  BY DEF MapsInv
<1>1. r.addr \in Addresses /\ r.count \in 1..MaxCount /\ r.addr \in Nat /\ r.count \in Nat
  <2>1. r \in Regions
    BY <1>0 DEF MTyped
  <2>2. r.addr \in Addresses /\ r.count \in 1..MaxCount
    BY <2>1, Zenon DEF Regions
  <2>3. PICK c : c = r.count
    OBVIOUS
  <2>4. c \in Nat
    BY <2>2, <2>3
  <2>5. r.addr \in Nat
    BY <2>2, Zenon
  <2> QED BY <2>2, <2>3, <2>4, <2>5, Zenon
<1>2. job.op = "none" /\ JobPages = {}
  BY DEF gntmap_munmap, NoJob, JobPages
<1>3. /\ UNCHANGED <<nentries, entries, hypMapped, unmapFailed>> /\ regions' = regions \ {r}
      /\ job' = [op |-> "unmap", addr |-> r.addr, i |-> 0, count |-> r.count]
  BY DEF gntmap_munmap
<1>4. Recorded' = Recorded
  BY <1>3, RecordedStays
<1>5. JobPages' = MapPages(r.addr, r.count)
  BY <1>1, <1>3 DEF JobPages, MapPages
<1>6. RegionPages = RegionPages' \cup MapPages(r.addr, r.count)
  BY <1>3 DEF RegionPages
<1>7. MTyped'
  BY <1>0, <1>1, <1>3 DEF MTyped, Jobs, JobOps
<1>8. MapTable'
  BY <1>0, <1>3, TableStays
<1>9. MapRegions'
  BY <1>0, <1>2, <1>3, <1>4, <1>5, <1>6 DEF MapRegions
<1>10. MapJob'
  <2>1. \A g \in regions' : MapPages(g.addr, g.count) \cap MapPages(r.addr, r.count) = {}
    BY <1>0, <1>2, <1>3 DEF MapRegions
  <2> QED BY <1>1, <1>3, <2>1 DEF MapJob, RangeJobs
<1> QED BY <1>7, <1>8, <1>9, <1>10 DEF MapsInv

\* Emptying an entry takes its address, and nothing else, from what is recorded.
LEMMA EntryEmptied ==
  ASSUME MapsInv, NEW m \in 1..nentries, NEW e, entries[m] = e, e # 0,
         entries' = [entries EXCEPT ![m] = 0], nentries' = nentries,
         hypMapped' = hypMapped \ {e}, unmapFailed' = unmapFailed
  PROVE  Recorded' = Recorded \ {e} /\ MapTable' /\ entries' \in [Table -> Addresses \cup {0}]
<1>0. MTyped /\ MapTable
  BY DEF MapsInv
<1>1. nentries \in 0..MaxGrants /\ entries \in [Table -> Addresses \cup {0}] /\ m \in Table /\ 1..nentries \subseteq Table
  BY <1>0, GrantMapsAssumption DEF MTyped, Table
<1>2. \A k \in Table : entries'[k] = IF k = m THEN 0 ELSE entries[k]
  BY <1>1
<1>3. \A k \in 1..nentries : k # m => entries[k] # e
  BY <1>0 DEF MapTable, used
<1>4. Recorded' = Recorded \ {e}
  <2>1. ASSUME NEW z PROVE z \in Recorded' <=> z \in Recorded \ {e}
    <3>1. z \in Recorded' <=> \E k \in 1..nentries : entries'[k] = z /\ z # 0
      BY RecordedNext
    <3>2. z \in Recorded <=> \E k \in 1..nentries : entries[k] = z /\ z # 0
      BY RecordedIs
    <3> QED BY <3>1, <3>2, <1>1, <1>2, <1>3
  <2> QED BY <2>1
<1>5. \A k \in Table : k > nentries' => entries'[k] = 0
  BY <1>0, <1>1, <1>2 DEF MapTable
<1>6. Recorded' \subseteq hypMapped' /\ (~unmapFailed' => Recorded' = hypMapped')
  BY <1>0, <1>4 DEF MapTable
<1>7. \A j, k \in 1..nentries' : j # k /\ entries'[j] # 0 => entries'[j] # entries'[k]
  BY <1>0, <1>1, <1>2 DEF MapTable, used
<1>8. entries' \in [Table -> Addresses \cup {0}]
  BY <1>1
<1> QED BY <1>4, <1>5, <1>6, <1>7, <1>8 DEF MapTable, used

\* A page is unmapped and its entry emptied.
LEMMA UnmapOneKeeps ==
  ASSUME MapsInv, UnmapOne
  PROVE  MapsInv'
<1> USE GrantMapsAssumption
<1>0. MTyped /\ MapTable /\ MapRegions /\ MapJob
  BY DEF MapsInv
<1>c. PICK e : e = job.addr + job.i
  OBVIOUS
<1>a. PICK m : m = Min(EntriesAt(e))
  OBVIOUS
<1>1. m \in 1..nentries /\ entries[m] = e
  <2>1. EntriesAt(e) \in SUBSET Nat /\ EntriesAt(e) # {}
    BY <1>0, <1>c DEF EntriesAt, MTyped, UnmapOne
  <2>2. m \in EntriesAt(e)
    BY <1>a, <2>1, MinIsLeast
  <2> QED BY <2>2 DEF EntriesAt
<1>2. /\ job.op \in {"unmap", "undo"} /\ job.i < job.count /\ job.addr \in Nat /\ job.i \in Nat /\ job.count \in Nat
      /\ job' \in Jobs /\ job'.op = job.op /\ job'.addr = job.addr /\ job'.i = job.i + 1 /\ job'.count = job.count
  <2>1. PICK q : q = job /\ q \in Jobs
    BY <1>0 DEF MTyped
  <2>2. job' = [q EXCEPT !.i = q.i + 1] /\ q.op \in {"unmap", "undo"} /\ q.i < q.count
    BY <2>1 DEF UnmapOne
  <2> QED BY <2>1, <2>2 DEF Jobs
<1>3. e \in MapPages(job.addr, job.count) /\ e # 0 /\ job.addr \in Addresses
  <2>1. job.addr \in Addresses
    BY <1>0, <1>2 DEF MapJob, RangeJobs
  <2> QED BY <2>1, <1>2, <1>c DEF MapPages
<1>4. /\ entries' = [entries EXCEPT ![m] = 0] /\ hypMapped' = hypMapped \ {e} /\ nentries' = nentries
      /\ regions' = regions /\ unmapFailed' = unmapFailed
  BY <1>a, <1>c, <1>1 DEF UnmapOne, UnmapEntry
<1>5. Recorded' = Recorded \ {e} /\ MapTable' /\ entries' \in [Table -> Addresses \cup {0}]
  BY <1>1, <1>3, <1>4, EntryEmptied
<1>6. JobPages' = JobPages \ {e}
  <2>1. JobPages = (job.addr + job.i)..(job.addr + job.count - 1)
    BY <1>2 DEF JobPages
  <2>2. JobPages' = (job.addr + (job.i + 1))..(job.addr + job.count - 1)
    BY <1>2 DEF JobPages
  <2> QED BY <2>1, <2>2, <1>2, <1>c
<1>7. \A g \in regions : e \notin MapPages(g.addr, g.count)
  BY <1>0, <1>2, <1>3 DEF MapJob, RangeJobs
<1>8. MTyped'
  BY <1>0, <1>2, <1>4, <1>5 DEF MTyped
<1>9. MapRegions'
  <2>1. e \notin RegionPages
    BY <1>7 DEF RegionPages
  <2>2. RegionPages' = RegionPages
    BY <1>4 DEF RegionPages
  <2>3. \A g \in regions' : MapPages(g.addr, g.count) \subseteq Recorded'
    BY <1>0, <1>2, <1>4, <1>5, <1>7 DEF MapRegions
  <2> QED BY <1>0, <1>2, <1>4, <1>6, <2>1, <2>2, <2>3 DEF MapRegions
<1>10. MapJob'
  BY <1>0, <1>2, <1>4 DEF MapJob, RangeJobs
<1> QED BY <1>5, <1>8, <1>9, <1>10 DEF MapsInv

\* A page cannot be unmapped, and the request ends there.
LEMMA UnmapFailsKeeps ==
  ASSUME MapsInv, UnmapFails
  PROVE  MapsInv'
<1>0. MTyped /\ MapTable /\ MapRegions /\ MapJob
  BY DEF MapsInv
<1>1. /\ UNCHANGED <<nentries, entries, hypMapped, regions>> /\ job' = NoJob /\ unmapFailed' = TRUE
      /\ job.op # "fini"
  BY DEF UnmapFails
<1>2. Recorded' = Recorded
  BY <1>1, RecordedStays
<1>3. MTyped'
  BY <1>0, <1>1 DEF MTyped, NoJob, Jobs, JobOps
<1>4. MapTable'
  BY <1>0, <1>1, <1>2 DEF MapTable, used
<1>5. MapRegions'
  BY <1>0, <1>1, <1>2 DEF MapRegions
<1>6. MapJob'
  BY <1>1 DEF MapJob, RangeJobs, NoJob
<1> QED BY <1>3, <1>4, <1>5, <1>6 DEF MapsInv

\* All of the range is unmapped.
LEMMA UnmapDoneKeeps ==
  ASSUME MapsInv, UnmapDone
  PROVE  MapsInv'
<1>0. MTyped /\ MapTable /\ MapRegions /\ MapJob
  BY DEF MapsInv
<1>1. /\ UNCHANGED <<nentries, entries, hypMapped, regions, unmapFailed>> /\ job' = NoJob
      /\ job.op \in {"unmap", "undo"} /\ job.i = job.count
  BY DEF UnmapDone
<1>2. Recorded' = Recorded
  BY <1>1, RecordedStays
<1>3. MTyped'
  BY <1>0, <1>1 DEF MTyped, NoJob, Jobs, JobOps
<1>4. MapTable'
  BY <1>0, <1>1, TableStays
<1>5. JobPages = {} /\ JobPages' = {}
  <2>1. job.addr \in Nat /\ job.count \in Nat
    BY <1>0 DEF MTyped, Jobs
  <2> QED BY <1>1, <2>1 DEF JobPages, NoJob
<1>6. MapRegions'
  BY <1>0, <1>1, <1>2, <1>5 DEF MapRegions, RegionPages
<1>7. MapJob'
  BY <1>1 DEF MapJob, RangeJobs, NoJob
<1> QED BY <1>3, <1>4, <1>6, <1>7 DEF MapsInv

\* gntmap_fini begins.
LEMMA FiniBegins ==
  ASSUME MapsInv, gntmap_fini
  PROVE  MapsInv'
<1>0. MTyped /\ MapTable /\ MapRegions /\ MapJob
  BY DEF MapsInv
<1>1. /\ UNCHANGED <<nentries, entries, hypMapped, regions, unmapFailed>>
      /\ job' = [op |-> "fini", addr |-> 0, i |-> 1, count |-> 0]
  BY DEF gntmap_fini, NoJob
<1>3. MTyped'
  BY <1>0, <1>1 DEF MTyped, Jobs, JobOps
<1>4. MapTable'
  BY <1>0, <1>1, TableStays
<1>5. MapRegions'
  BY <1>1 DEF MapRegions
<1>6. MapJob'
  BY <1>1 DEF MapJob, RangeJobs
<1> QED BY <1>3, <1>4, <1>5, <1>6 DEF MapsInv

\* gntmap_fini passes an entry, and has emptied it unless the unmapping failed.
LEMMA FiniOneKeeps ==
  ASSUME MapsInv, NEW fails \in BOOLEAN, FiniOne(fails)
  PROVE  MapsInv'
<1> USE GrantMapsAssumption
<1>0. MTyped /\ MapTable /\ MapRegions /\ MapJob
  BY DEF MapsInv
<1>1. /\ job.op = "fini" /\ job.i \in 1..nentries /\ nentries \in 0..MaxGrants
      /\ job' \in Jobs /\ job'.op = "fini" /\ job'.i = job.i + 1
  <2>1. PICK q : q = job /\ q \in Jobs
    BY <1>0 DEF MTyped
  <2>2. job' = [q EXCEPT !.i = q.i + 1] /\ q.op = "fini" /\ q.i <= nentries
    BY <2>1 DEF FiniOne
  <2>3. q.i >= 1
    BY <2>1, <2>2, <1>0 DEF MapJob
  <2> QED BY <2>1, <2>2, <2>3, <1>0 DEF Jobs, MTyped
<1>2. nentries' = nentries /\ regions' = regions /\ unmapFailed' = (unmapFailed \/ fails)
  BY DEF FiniOne
<1>3. /\ entries' \in [Table -> Addresses \cup {0}] /\ hypMapped' \subseteq Nat /\ MapTable'
      /\ (~unmapFailed' => \A k \in 1..nentries : entries'[k] = IF k = job.i THEN 0 ELSE entries[k])
  <2>a. entries \in [Table -> Addresses \cup {0}] /\ hypMapped \subseteq Nat /\ job.i \in Table /\ 1..nentries \subseteq Table
    BY <1>0, <1>1 DEF MTyped, Table
  <2>1. CASE used(job.i) /\ ~fails
    <3>1. entries' = [entries EXCEPT ![job.i] = 0] /\ hypMapped' = hypMapped \ {entries[job.i]}
      BY <2>1 DEF FiniOne, UnmapEntry
    <3>2. entries[job.i] # 0 /\ unmapFailed' = unmapFailed
      BY <2>1, <1>2, <1>0 DEF used, MTyped
    <3>3. MapTable' /\ entries' \in [Table -> Addresses \cup {0}]
      BY <1>1, <1>2, <3>1, <3>2, EntryEmptied
    <3>4. \A k \in 1..nentries : entries'[k] = IF k = job.i THEN 0 ELSE entries[k]
      BY <2>a, <3>1
    <3> QED BY <2>a, <3>1, <3>3, <3>4
  <2>2. CASE ~(used(job.i) /\ ~fails)
    <3>1. entries' = entries /\ hypMapped' = hypMapped
      BY <2>2 DEF FiniOne
    <3>2. Recorded' = Recorded
      BY <3>1, <1>2, RecordedStays
    <3>3. MapTable'
      BY <1>0, <1>2, <3>1, <3>2 DEF MapTable, used
    <3>4. ~fails => entries[job.i] = 0
      BY <2>2 DEF used
    <3> QED BY <2>a, <1>2, <3>1, <3>3, <3>4
  <2> QED BY <2>1, <2>2
<1>4. MTyped'
  BY <1>0, <1>1, <1>2, <1>3 DEF MTyped
<1>5. MapRegions'
  BY <1>1 DEF MapRegions
<1>6. MapJob'
  <2>1. ASSUME NEW k \in 1..nentries, k < job.i + 1, ~unmapFailed' PROVE entries'[k] = 0
    <3>1. ~unmapFailed
      BY <2>1, <1>2
    <3>2. k = job.i \/ k < job.i
      BY <2>1, <1>1
    <3> QED BY <2>1, <3>1, <3>2, <1>0, <1>1, <1>3 DEF MapJob
  <2> QED BY <1>1, <1>2, <2>1 DEF MapJob, RangeJobs
<1> QED BY <1>3, <1>4, <1>5, <1>6 DEF MapsInv

\* gntmap_fini gives the table up.
LEMMA FiniDoneKeeps ==
  ASSUME MapsInv, FiniDone
  PROVE  MapsInv'
<1> USE GrantMapsAssumption
<1>0. MTyped /\ MapTable /\ MapRegions /\ MapJob
  BY DEF MapsInv
<1>1. /\ nentries' = 0 /\ entries' = [k \in Table |-> 0] /\ regions' = {} /\ job' = NoJob
      /\ hypMapped' = hypMapped /\ unmapFailed' = unmapFailed /\ job.op = "fini" /\ job.i > nentries
  BY DEF FiniDone
<1>2. Recorded' = {}
  BY <1>1 DEF Recorded
<1>3. ~unmapFailed => hypMapped = {}
  <2>1. SUFFICES ASSUME ~unmapFailed PROVE Recorded = {}
    BY <1>0 DEF MapTable
  <2>2. nentries \in Nat /\ job.i \in Nat
    BY <1>0 DEF MTyped, Jobs
  <2>3. \A k \in 1..nentries : entries[k] = 0
    BY <1>0, <1>1, <2>1, <2>2 DEF MapJob
  <2> QED BY <2>3 DEF Recorded, used
<1>4. MTyped'
  BY <1>0, <1>1 DEF MTyped, NoJob, Jobs, JobOps, Table
<1>5. MapTable'
  BY <1>1, <1>2, <1>3 DEF MapTable
<1>6. MapRegions'
  BY <1>1, <1>3 DEF MapRegions, RegionPages, JobPages, NoJob
<1>7. MapJob'
  BY <1>1 DEF MapJob, RangeJobs, NoJob
<1> QED BY <1>4, <1>5, <1>6, <1>7 DEF MapsInv

\* Every step keeps the invariant.
LEMMA MapsNext ==
  ASSUME MapsInv, GmNext
  PROVE  MapsInv'
  BY SetMaxKeeps, MapBegins, MapOneKeeps, MapFailsKeeps, MapDoneKeeps, UnmapBegins, UnmapOneKeeps,
     UnmapFailsKeeps, UnmapDoneKeeps, FiniBegins, FiniDoneKeeps, FiniOneKeeps DEF GmNext

\* The invariant says what MappingsAreRecorded says.
LEMMA MapsImply == MapsInv => MappingsAreRecorded
<1> SUFFICES ASSUME MapsInv PROVE MappingsAreRecorded
  OBVIOUS
<1>1. job = NoJob => JobPages = {} /\ job.op # "fini"
  BY DEF JobPages, NoJob
<1> QED BY <1>1 DEF MapsInv, MapTable, MapRegions, MappingsAreRecorded, RegionPages

-----------------------------------------------------------------------------
(* Events *)
\* The ports that the callback scans: of the first half of the first word.
ScannedPorts == \A p \in Ports : p < ScanBits

AtPort == {"mask", "clear", "handle", "unmask", "test", "mark"}
CallbackSteps == {"out", "select", "scan"} \cup AtPort
Binding == [step : {"idle", "unmask", "test", "mark"}, port : Ports \cup {NoPort}]

EvTyped ==
  /\ pending \in SUBSET Ports /\ masked \in SUBSET Ports
  /\ sel \in [Cpus -> SUBSET {0}] /\ upcall \in [Cpus -> BOOLEAN]
  /\ vcpu \in [Ports -> Cpus] /\ action \in [Ports -> {"default", "bound"}]
  /\ callback \in [Cpus -> CallbackSteps] /\ l1 \in [Cpus -> SUBSET {0}]
  /\ port \in [Cpus -> Ports \cup {NoPort}] /\ bind \in [Cpus -> Binding]
  /\ \A c \in Cpus : callback[c] \in AtPort => port[c] \in Ports
  /\ \A c \in Cpus : bind[c].step # "idle" => bind[c].port \in Ports
\* A selector bit comes with an upcall, and no bits are left over between upcalls.
EvUpcalls == \A c \in Cpus :
  /\ 0 \in sel[c] => upcall[c] \/ callback[c] = "select"
  /\ callback[c] \in {"out", "select"} => l1[c] = {}
\* A pending port, whether or not its event is owed, is looked at again.
EvPending == \A p \in pending :
  \/ WillTest(p, AtPort)
  \/ p \in masked /\ action[p] = "default"
  \/ p \notin masked /\ WillScan(p)
EvOwed == \A p \in (owed \ stolen) \ pending : WillTest(p, {"handle"})

EventsInv ==
  EvTyped /\ EvUpcalls /\ EvPending /\ EvOwed /\ owed \in SUBSET Ports /\ QuietPortsAreOpen

-----------------------------------------------------------------------------
\* The ports scanned are in the first word, as the hypervisor and the kernel
\* count.
LEMMA FirstWord ==
  ASSUME ScannedPorts, NEW p \in Ports
  PROVE  /\ p \in 0..(ScanBits - 1) /\ SelectorBit(p) = 0 /\ p \div ScanBits = 0
         /\ p # NoPort
<1>1. p \in Nat /\ p < ScanBits /\ ScanBits \in Nat /\ LongBits \in Nat /\ ScanBits <= LongBits
  BY EventsAssumption DEF ScannedPorts
<1>2. ASSUME NEW m \in Nat, p < m PROVE p \div m = 0
  BY <1>1, <1>2
<1> QED BY <1>1, <1>2 DEF SelectorBit, NoPort

\* What is scanned for the first selector bit.
LEMMA ActiveIs ==
  ASSUME ScannedPorts, EvTyped
  PROVE  /\ \A p : p \in Active(0) <=> p \in pending \ masked
         /\ Active(0) \in SUBSET Nat
<1>1. LongBits \in Nat /\ ScanBits \in Nat
  BY EventsAssumption
<1>2. ASSUME NEW n \in Nat PROVE 0 * LongBits + n = n
  BY <1>1
<1>3. ASSUME NEW p \in pending PROVE p \in 0..(ScanBits - 1) /\ p \in Nat
  BY <1>1, FirstWord DEF EvTyped
<1>4. \A n \in 0..(ScanBits - 1) : n \in Nat
  BY <1>1
<1> QED BY <1>2, <1>3, <1>4 DEF Active

\* A scan ends the word when no port in it is pending and open, or finds one.
LEMMA ScanFinds ==
  ASSUME ScannedPorts, EvTyped, NEW c \in Cpus, Scan(c)
  PROVE  \/ /\ l1' = [l1 EXCEPT ![c] = {}] /\ pending \subseteq masked /\ UNCHANGED <<callback, port>>
         \/ \E p \in pending \ masked :
              /\ port' = [port EXCEPT ![c] = p] /\ callback' = [callback EXCEPT ![c] = "mask"]
              /\ UNCHANGED l1
<1>1. l1[c] = {0}
  BY DEF Scan, EvTyped
<1>2. Min(l1[c]) = 0
  BY <1>1, MinIsLeast
<1>3. CASE Active(0) = {}
  <2>1. pending \subseteq masked
    BY <1>3, ActiveIs
  <2>2. l1' = [l1 EXCEPT ![c] = @ \ {0}] /\ UNCHANGED <<callback, port>>
    BY <1>2, <1>3 DEF Scan
  <2>3. l1' = [l1 EXCEPT ![c] = {}]
    BY <1>1, <2>2
  <2> QED BY <2>1, <2>2, <2>3
<1>4. CASE Active(0) # {}
  <2>1. PICK p : p = Min(Active(0))
    OBVIOUS
  <2>2. p \in pending \ masked /\ p \in Nat
    BY <1>4, <2>1, ActiveIs, MinIsLeast
  <2>3. port' = [port EXCEPT ![c] = 0 * ScanBits + p] /\ Goto(c, "mask") /\ UNCHANGED l1
    BY <1>2, <1>4, <2>1 DEF Scan
  <2>4. 0 * ScanBits + p = p
    BY <2>2, EventsAssumption
  <2> QED BY <2>2, <2>3, <2>4 DEF Goto
<1> QED BY <1>3, <1>4

\* Nothing is pending at first.
LEMMA EventsStart == EvInit => EventsInv
<1> SUFFICES ASSUME EvInit PROVE EventsInv
  OBVIOUS
<1>1. EvTyped
  BY DEF EvInit, EvTyped, CallbackSteps, AtPort, Binding, Idle
<1>2. EvUpcalls
  BY DEF EvInit, EvUpcalls
<1>3. EvPending /\ EvOwed /\ owed \in SUBSET Ports /\ QuietPortsAreOpen
  BY DEF EvInit, EvPending, EvOwed, QuietPortsAreOpen
<1> QED BY <1>1, <1>2, <1>3 DEF EventsInv

\* A step of another part.
LEMMA EventsStay ==
  ASSUME EventsInv, UNCHANGED evVars
  PROVE  EventsInv'
<1> USE DEF evVars, EventsInv
<1>1. EvTyped'
  BY DEF EvTyped
<1>2. EvUpcalls'
  BY DEF EvUpcalls
<1>3. EvPending'
  BY DEF EvPending, WillTest, WillScan
<1>4. EvOwed'
  BY DEF EvOwed, WillTest
<1>5. QuietPortsAreOpen'
  BY DEF QuietPortsAreOpen, WillTest
<1> QED BY <1>1, <1>2, <1>3, <1>4, <1>5

\* A signal: the port is open and its processor gets an upcall, or somebody
\* works on it, or nobody has asked for it.
LEMMA SignalKept ==
  ASSUME ScannedPorts, EventsInv, NEW p \in Ports, Signal(p)
  PROVE  EventsInv'
<1> USE DEF EventsInv
<1>0. PICK v \in Cpus : v = vcpu[p]
  BY DEF EvTyped
<1>1. /\ pending' = pending \cup {p} /\ owed' = owed \cup {p} /\ stolen' = stolen \ {p}
      /\ UNCHANGED <<masked, vcpu, action, callback, l1, port, bind>>
  BY DEF Signal
<1>2. \/ UNCHANGED <<sel, upcall>> /\ (p \in pending \/ p \in masked \/ 0 \in sel[v])
      \/ sel' = [sel EXCEPT ![v] = @ \cup {0}] /\ upcall' = [upcall EXCEPT ![v] = TRUE]
  <2>1. SelectorBit(p) = 0
    BY FirstWord
  <2>2. CASE p \notin pending /\ p \notin masked /\ 0 \notin sel[v]
    BY <1>0, <2>1, <2>2 DEF Signal
  <2>3. CASE ~(p \notin pending /\ p \notin masked /\ 0 \notin sel[v])
    BY <1>0, <2>1, <2>3 DEF Signal
  <2> QED BY <2>2, <2>3
<1>3. EvTyped'
  <2>a. sel \in [Cpus -> SUBSET {0}] /\ upcall \in [Cpus -> BOOLEAN]
    BY DEF EvTyped
  <2>1. sel' \in [Cpus -> SUBSET {0}] /\ upcall' \in [Cpus -> BOOLEAN]
    <3>1. CASE UNCHANGED <<sel, upcall>>
      BY <2>a, <3>1
    <3>2. CASE sel' = [sel EXCEPT ![v] = @ \cup {0}] /\ upcall' = [upcall EXCEPT ![v] = TRUE]
      <4>1. sel[v] \cup {0} \in SUBSET {0}
        BY <2>a
      <4>2. sel' \in [Cpus -> SUBSET {0}]
        BY <2>a, <3>2, <4>1
      <4>3. upcall' \in [Cpus -> BOOLEAN]
        BY <2>a, <3>2
      <4> QED BY <4>2, <4>3
    <3> QED BY <1>2, <3>1, <3>2
  <2> QED BY <1>1, <2>1 DEF EvTyped
<1>4. EvUpcalls'
  BY <1>1, <1>2 DEF EvTyped, EvUpcalls
<1>5. \A q : WillScan(q) => WillScan(q)'
  BY <1>1, <1>2 DEF WillScan, EvTyped
<1>6. \A q, steps : WillTest(q, steps) => WillTest(q, steps)'
  BY <1>1 DEF WillTest
<1>7. QuietPortsAreOpen'
  BY <1>1 DEF QuietPortsAreOpen, WillTest
<1>8. EvPending'
  <2>1. ASSUME NEW q \in pending
        PROVE \/ WillTest(q, AtPort)' \/ (q \in masked' /\ action'[q] = "default")
              \/ (q \notin masked' /\ WillScan(q)')
    BY <1>1, <1>5, <1>6 DEF EvPending
  <2>2. CASE p \in pending
    BY <1>1, <2>1, <2>2 DEF EvPending, AtPort, WillTest
  <2>3. CASE p \notin pending /\ p \in masked
    <3>1. action[p] = "default" \/ action[p] = "bound"
      BY DEF EvTyped
    <3>2. action[p] = "bound" => WillTest(p, AtPort)'
      BY <1>1, <2>3 DEF QuietPortsAreOpen, WillTest, AtPort
    <3> QED BY <1>1, <2>1, <2>3, <3>1, <3>2 DEF EvPending
  <2>4. CASE p \notin pending /\ p \notin masked
    <3>1. 0 \in sel'[v] /\ (upcall'[v] \/ callback'[v] = "select")
      BY <1>1, <1>2, <2>4 DEF EvTyped, EvUpcalls
    <3>2. WillScan(p)'
      BY <3>1, FirstWord DEF WillScan, SelectorBit
    <3> QED BY <1>1, <2>1, <2>4, <3>2 DEF EvPending
  <2> QED BY <2>2, <2>3, <2>4
<1>9. EvOwed'
  BY <1>1 DEF EvOwed, WillTest
<1>10. owed' \in SUBSET Ports
  BY <1>1
<1> QED BY <1>3, <1>4, <1>7, <1>8, <1>9, <1>10

\* The hypervisor notifies another processor from now on.
LEMMA RebindKept ==
  ASSUME EventsInv, NEW p \in Ports, NEW c \in Cpus, Rebind(p, c)
  PROVE  EventsInv'
<1> USE DEF EventsInv, Rebind, evtchn_bind_to_cpu, evShared
<1>1. EvTyped'
  BY DEF EvTyped
<1>2. EvUpcalls'
  BY DEF EvUpcalls
<1>3. EvPending'
  BY DEF EvPending, WillTest, WillScan
<1>4. EvOwed'
  BY DEF EvOwed, WillTest
<1>5. QuietPortsAreOpen'
  BY DEF QuietPortsAreOpen, WillTest
<1> QED BY <1>1, <1>2, <1>3, <1>4, <1>5

\* do_hypervisor_callback begins.
LEMMA UpcallKept ==
  ASSUME EventsInv, NEW c \in Cpus, Upcall(c)
  PROVE  EventsInv'
<1> USE DEF EventsInv, Upcall, evHistory, Goto
<1>1. EvTyped'
  BY DEF EvTyped, CallbackSteps, AtPort
<1>2. EvUpcalls'
  BY DEF EvTyped, EvUpcalls
<1>3. EvPending'
  BY DEF EvTyped, EvPending, WillTest, WillScan, AtPort
<1>4. EvOwed'
  BY DEF EvTyped, EvOwed, WillTest
<1>5. QuietPortsAreOpen'
  BY DEF EvTyped, QuietPortsAreOpen, WillTest
<1> QED BY <1>1, <1>2, <1>3, <1>4, <1>5

\* The selector bits are taken.
LEMMA TakeSelectorKept ==
  ASSUME EventsInv, NEW c \in Cpus, TakeSelector(c)
  PROVE  EventsInv'
<1> USE DEF EventsInv, TakeSelector, evHistory, Goto
<1>1. EvTyped'
  BY DEF EvTyped, CallbackSteps, AtPort
<1>2. EvUpcalls'
  BY DEF EvTyped, EvUpcalls
<1>3. EvPending'
  <2>1. \A p : WillScan(p) => WillScan(p)'
    BY DEF EvTyped, EvUpcalls, WillScan
  <2> QED BY <2>1 DEF EvTyped, EvPending, WillTest, AtPort
<1>4. EvOwed'
  BY DEF EvTyped, EvOwed, WillTest
<1>5. QuietPortsAreOpen'
  BY DEF EvTyped, QuietPortsAreOpen, WillTest
<1> QED BY <1>1, <1>2, <1>3, <1>4, <1>5

\* The scan goes to a port or to the end of the word.
LEMMA ScanKept ==
  ASSUME ScannedPorts, EventsInv, NEW c \in Cpus, Scan(c)
  PROVE  EventsInv'
<1> USE DEF EventsInv
<1>1. UNCHANGED <<evShared, evHistory, action, bind>> /\ callback[c] = "scan"
  BY DEF Scan
<1> USE DEF evShared, evHistory
<1>2. CASE l1' = [l1 EXCEPT ![c] = {}] /\ pending \subseteq masked /\ UNCHANGED <<callback, port>>
  <2>1. EvTyped'
    BY <1>1, <1>2 DEF EvTyped
  <2>2. EvUpcalls'
    BY <1>1, <1>2 DEF EvTyped, EvUpcalls
  <2>3. EvPending'
    BY <1>1, <1>2 DEF EvPending, WillTest
  <2>4. EvOwed'
    BY <1>1, <1>2 DEF EvOwed, WillTest
  <2>5. QuietPortsAreOpen'
    BY <1>1, <1>2 DEF QuietPortsAreOpen, WillTest
  <2> QED BY <1>1, <2>1, <2>2, <2>3, <2>4, <2>5
<1>3. ASSUME NEW p \in pending \ masked, port' = [port EXCEPT ![c] = p],
             callback' = [callback EXCEPT ![c] = "mask"], UNCHANGED l1
      PROVE  EventsInv'
  <2>1. EvTyped'
    BY <1>1, <1>3 DEF EvTyped, CallbackSteps, AtPort
  <2>2. EvUpcalls'
    BY <1>1, <1>3 DEF EvTyped, EvUpcalls
  <2>3. EvPending'
    <3>1. \A q : WillScan(q) => WillScan(q)'
      BY <1>1, <1>3 DEF EvTyped, WillScan
    <3>2. \A q : WillTest(q, AtPort) => WillTest(q, AtPort)'
      BY <1>1, <1>3 DEF EvTyped, WillTest, AtPort
    <3> QED BY <1>1, <3>1, <3>2 DEF EvPending
  <2>4. EvOwed'
    BY <1>1, <1>3 DEF EvTyped, EvOwed, WillTest
  <2>5. QuietPortsAreOpen'
    BY <1>1, <1>3 DEF EvTyped, QuietPortsAreOpen, WillTest
  <2> QED BY <1>1, <2>1, <2>2, <2>3, <2>4, <2>5 DEF EventsInv
<1> QED BY <1>2, <1>3, ScanFinds

\* The callback ends.
LEMMA EndCallbackKept ==
  ASSUME EventsInv, NEW c \in Cpus, EndCallback(c)
  PROVE  EventsInv'
<1> USE DEF EventsInv, EndCallback, evShared, evHistory, Goto
<1>1. EvTyped'
  BY DEF EvTyped, CallbackSteps, AtPort
<1>2. EvUpcalls'
  BY DEF EvTyped, EvUpcalls
<1>3. EvPending'
  <2>1. \A p : WillScan(p) => WillScan(p)'
    BY DEF EvTyped, EvUpcalls, WillScan
  <2> QED BY <2>1 DEF EvTyped, EvPending, WillTest, AtPort
<1>4. EvOwed'
  BY DEF EvTyped, EvOwed, WillTest
<1>5. QuietPortsAreOpen'
  BY DEF EvTyped, QuietPortsAreOpen, WillTest
<1> QED BY <1>1, <1>2, <1>3, <1>4, <1>5

\* do_event masks the port.
LEMMA MaskEvtchnKept ==
  ASSUME EventsInv, NEW c \in Cpus, MaskEvtchn(c)
  PROVE  EventsInv'
<1> USE DEF EventsInv, MaskEvtchn, evHistory, Goto
<1>0. port[c] \in Ports
  BY DEF EvTyped, AtPort
<1>1. EvTyped'
  BY <1>0 DEF EvTyped, CallbackSteps, AtPort
<1>2. EvUpcalls'
  BY DEF EvTyped, EvUpcalls
<1>3. EvPending'
  <2>1. \A p : WillScan(p) => WillScan(p)'
    BY DEF EvTyped, WillScan
  <2>2. \A p : WillTest(p, AtPort) => WillTest(p, AtPort)'
    BY DEF EvTyped, WillTest, AtPort
  <2>3. WillTest(port[c], AtPort)'
    BY DEF EvTyped, WillTest, AtPort
  <2> QED BY <1>0, <2>1, <2>2, <2>3 DEF EvPending
<1>4. EvOwed'
  BY <1>0 DEF EvTyped, EvOwed, WillTest
<1>5. QuietPortsAreOpen'
  BY <1>0 DEF EvTyped, QuietPortsAreOpen, WillTest
<1>6. owed' \in SUBSET Ports
  OBVIOUS
<1> QED BY <1>1, <1>2, <1>3, <1>4, <1>5, <1>6

\* do_event clears the pending bit: the handler is about to run.
LEMMA ClearEvtchnKept ==
  ASSUME EventsInv, NEW c \in Cpus, ClearEvtchn(c)
  PROVE  EventsInv'
<1> USE DEF EventsInv, ClearEvtchn, evHistory, Goto
<1>0. port[c] \in Ports
  BY DEF EvTyped, AtPort
<1>1. EvTyped'
  BY <1>0 DEF EvTyped, CallbackSteps, AtPort
<1>2. EvUpcalls'
  BY DEF EvTyped, EvUpcalls
<1>3. EvPending'
  <2>1. \A p : WillScan(p) => WillScan(p)'
    BY DEF EvTyped, WillScan
  <2>2. \A p : WillTest(p, AtPort) => WillTest(p, AtPort)'
    BY DEF EvTyped, WillTest, AtPort
  <2>3. WillTest(port[c], AtPort)'
    BY DEF EvTyped, WillTest, AtPort
  <2> QED BY <1>0, <2>1, <2>2, <2>3 DEF EvPending
<1>4. EvOwed'
  BY <1>0 DEF EvTyped, EvOwed, WillTest
<1>5. QuietPortsAreOpen'
  BY <1>0 DEF EvTyped, QuietPortsAreOpen, WillTest
<1>6. owed' \in SUBSET Ports
  OBVIOUS
<1> QED BY <1>1, <1>2, <1>3, <1>4, <1>5, <1>6

\* The handler runs, or the event is dropped on the wrong processor.
LEMMA HandleKept ==
  ASSUME EventsInv, NEW c \in Cpus, Handle(c)
  PROVE  EventsInv'
<1> USE DEF EventsInv, Handle, evShared, Goto
<1>0. port[c] \in Ports
  BY DEF EvTyped, AtPort
<1>1. EvTyped'
  BY <1>0 DEF EvTyped, CallbackSteps, AtPort
<1>2. EvUpcalls'
  BY DEF EvTyped, EvUpcalls
<1>3. EvPending'
  <2>1. \A p : WillScan(p) => WillScan(p)'
    BY DEF EvTyped, WillScan
  <2>2. \A p : WillTest(p, AtPort) => WillTest(p, AtPort)'
    BY DEF EvTyped, WillTest, AtPort
  <2>3. WillTest(port[c], AtPort)'
    BY DEF EvTyped, WillTest, AtPort
  <2> QED BY <1>0, <2>1, <2>2, <2>3 DEF EvPending
<1>4. EvOwed'
  BY <1>0 DEF EvTyped, EvOwed, WillTest
<1>5. QuietPortsAreOpen'
  BY <1>0 DEF EvTyped, QuietPortsAreOpen, WillTest
<1>6. owed' \in SUBSET Ports
  OBVIOUS
<1> QED BY <1>1, <1>2, <1>3, <1>4, <1>5, <1>6

\* The port is opened again, and will be looked at.
LEMMA UnmaskBitKept ==
  ASSUME EventsInv, NEW c \in Cpus, UnmaskBit(c)
  PROVE  EventsInv'
<1> USE DEF EventsInv, UnmaskBit, evHistory, Goto
<1>0. port[c] \in Ports
  BY DEF EvTyped, AtPort
<1>1. EvTyped'
  BY <1>0 DEF EvTyped, CallbackSteps, AtPort
<1>2. EvUpcalls'
  BY DEF EvTyped, EvUpcalls
<1>3. EvPending'
  <2>1. \A p : WillScan(p) => WillScan(p)'
    BY DEF EvTyped, WillScan
  <2>2. \A p : WillTest(p, AtPort) => WillTest(p, AtPort)'
    BY DEF EvTyped, WillTest, AtPort
  <2>3. WillTest(port[c], AtPort)'
    BY DEF EvTyped, WillTest, AtPort
  <2> QED BY <1>0, <2>1, <2>2, <2>3 DEF EvPending
<1>4. EvOwed'
  BY <1>0 DEF EvTyped, EvOwed, WillTest
<1>5. QuietPortsAreOpen'
  BY <1>0 DEF EvTyped, QuietPortsAreOpen, WillTest
<1>6. owed' \in SUBSET Ports
  OBVIOUS
<1> QED BY <1>1, <1>2, <1>3, <1>4, <1>5, <1>6

\* The pending bit is looked at after the port was opened.
LEMMA TestPendingKept ==
  ASSUME EventsInv, NEW c \in Cpus, TestPending(c)
  PROVE  EventsInv'
<1> USE DEF EventsInv, evShared, evHistory, Goto, NextPort
<1>0. port[c] \in Ports /\ callback[c] = "test" /\ UNCHANGED <<evShared, evHistory, action, l1, bind>>
  BY DEF EvTyped, AtPort, TestPending
<1>1. \/ port[c] \in pending /\ callback' = [callback EXCEPT ![c] = "mark"] /\ port' = port
      \/ port[c] \notin pending /\ callback' = [callback EXCEPT ![c] = "scan"] /\ port' = [port EXCEPT ![c] = NoPort]
  BY DEF TestPending
<1>2. EvTyped'
  BY <1>0, <1>1 DEF EvTyped, CallbackSteps, AtPort
<1>3. EvUpcalls'
  BY <1>0, <1>1 DEF EvTyped, EvUpcalls
<1>4. EvPending'
  <2>1. \A p : WillScan(p) => WillScan(p)'
    BY <1>0, <1>1 DEF EvTyped, WillScan
  <2>2. \A p \in pending : WillTest(p, AtPort) => WillTest(p, AtPort)'
    BY <1>0, <1>1 DEF EvTyped, WillTest, AtPort
  <2> QED BY <1>0, <2>1, <2>2 DEF EvPending
<1>5. EvOwed'
  BY <1>0, <1>1 DEF EvTyped, EvOwed, WillTest
<1>6. QuietPortsAreOpen'
  BY <1>0, <1>1 DEF EvTyped, QuietPortsAreOpen, WillTest
<1> QED BY <1>0, <1>2, <1>3, <1>4, <1>5, <1>6

\* Marking a port's selector on a processor, whose callback is not between its
\* upcall and its selector, gets the port scanned.
LEMMA MarkedScans ==
  ASSUME ScannedPorts, EventsInv, NEW c \in Cpus, NEW p \in Ports, Marked(c, p), callback[c] # "select",
         UNCHANGED l1, callback'[c] # "out" \/ l1[c] = {}, \A d \in Cpus : d # c => callback'[d] = callback[d]
  PROVE  /\ sel' \in [Cpus -> SUBSET {0}] /\ upcall' \in [Cpus -> BOOLEAN]
         /\ 0 \in sel'[c] /\ upcall'[c] = TRUE
         /\ \A d \in Cpus : d # c => sel'[d] = sel[d] /\ upcall'[d] = upcall[d]
         /\ \A q : WillScan(q) => WillScan(q)'
         /\ WillScan(p)'
<1> USE DEF EventsInv
<1>1. p \div ScanBits = 0 /\ SelectorBit(p) = 0
  BY FirstWord
<1>2. sel' = [sel EXCEPT ![c] = @ \cup {0}] /\ upcall' = [upcall EXCEPT ![c] = @ \/ 0 \notin sel[c]]
  BY <1>1 DEF Marked
<1>3. sel \in [Cpus -> SUBSET {0}] /\ upcall \in [Cpus -> BOOLEAN]
  BY DEF EvTyped
<1>4. upcall[c] \/ 0 \notin sel[c]
  BY DEF EvUpcalls
<1>5. upcall' = [upcall EXCEPT ![c] = TRUE]
  BY <1>2, <1>3, <1>4
<1>6. sel[c] \cup {0} \in SUBSET {0} /\ TRUE \in BOOLEAN
  BY <1>3
<1>7. sel' \in [Cpus -> SUBSET {0}] /\ upcall' \in [Cpus -> BOOLEAN]
  BY <1>2, <1>3, <1>5, <1>6
<1>8. 0 \in sel'[c] /\ upcall'[c] = TRUE /\ \A d \in Cpus : d # c => sel'[d] = sel[d] /\ upcall'[d] = upcall[d]
  BY <1>2, <1>3, <1>5
<1>9. WillScan(p)'
  BY <1>1, <1>8 DEF WillScan, SelectorBit
<1>10. ASSUME NEW q, WillScan(q) PROVE WillScan(q)'
  <2>1. PICK d \in Cpus : \/ SelectorBit(q) \in sel[d] /\ (upcall[d] \/ callback[d] = "select")
                          \/ SelectorBit(q) \in l1[d] /\ callback[d] # "out"
    <3>1. \E d \in Cpus : \/ SelectorBit(q) \in sel[d] /\ (upcall[d] \/ callback[d] = "select")
                          \/ SelectorBit(q) \in l1[d] /\ callback[d] # "out"
      BY <1>10, Zenon DEF WillScan
    <3> QED BY <3>1, Zenon
  <2>2. CASE d = c
    <3>1. SelectorBit(q) \in sel[c] => SelectorBit(q) = 0
      BY <1>3
    <3> QED BY <1>8, <2>1, <2>2, <3>1 DEF WillScan, SelectorBit
  <2>3. CASE d # c
    BY <1>8, <2>1, <2>3 DEF WillScan, SelectorBit
  <2> QED BY <2>2, <2>3
<1> QED BY <1>7, <1>8, <1>9, <1>10

\* A port that is masked and has a handler is being worked on.
LEMMA MaskedIsWorked ==
  ASSUME EventsInv, NEW p \in Ports, p \in masked, action[p] # "default"
  PROVE  WillTest(p, {"mask", "clear", "handle", "unmask"})
  BY DEF EventsInv, EvTyped, QuietPortsAreOpen

\* do_event has the port scanned again.
LEMMA MarkSelectorKept ==
  ASSUME ScannedPorts, EventsInv, NEW c \in Cpus, MarkSelector(c)
  PROVE  EventsInv'
<1> USE DEF EventsInv
<1>0. PICK p \in Ports : p = port[c]
  BY DEF EvTyped, AtPort, MarkSelector
<1>1. /\ callback[c] = "mark" /\ Marked(c, p) /\ callback' = [callback EXCEPT ![c] = "scan"]
      /\ port' = [port EXCEPT ![c] = NoPort] /\ UNCHANGED <<pending, masked, evHistory, action, l1, bind>>
  BY <1>0 DEF MarkSelector, NextPort, Goto
<1> USE DEF evHistory
<1>2. callback'[c] # "out" /\ \A d \in Cpus : d # c => callback'[d] = callback[d]
  BY <1>1 DEF EvTyped
<1>3. /\ sel' \in [Cpus -> SUBSET {0}] /\ upcall' \in [Cpus -> BOOLEAN]
      /\ 0 \in sel'[c] /\ upcall'[c] = TRUE
      /\ \A d \in Cpus : d # c => sel'[d] = sel[d] /\ upcall'[d] = upcall[d]
      /\ \A q : WillScan(q) => WillScan(q)'
      /\ WillScan(p)'
  BY <1>1, <1>2, MarkedScans
<1>4. EvTyped'
  BY <1>1, <1>3 DEF EvTyped, CallbackSteps, AtPort
<1>5. EvUpcalls'
  BY <1>1, <1>3 DEF EvTyped, EvUpcalls
<1>6. EvPending'
  <2>1. \A q : q # p => (WillTest(q, AtPort) => WillTest(q, AtPort)')
    BY <1>0, <1>1 DEF EvTyped, WillTest, AtPort
  <2>2. WillTest(p, {"mask", "clear", "handle", "unmask"}) => WillTest(p, AtPort)'
    BY <1>0, <1>1 DEF EvTyped, WillTest, AtPort
  <2>3. p \in masked /\ action[p] # "default" => WillTest(p, AtPort)'
    BY <2>2, MaskedIsWorked
  <2> QED BY <1>1, <1>3, <2>1, <2>3 DEF EvPending
<1>7. EvOwed'
  BY <1>0, <1>1 DEF EvTyped, EvOwed, WillTest
<1>8. QuietPortsAreOpen'
  BY <1>0, <1>1 DEF EvTyped, QuietPortsAreOpen, WillTest
<1> QED BY <1>1, <1>4, <1>5, <1>6, <1>7, <1>8

\* A thread writes a port's handler, which stays masked.
LEMMA BindKept ==
  ASSUME EventsInv, NEW c \in Cpus, NEW p \in Ports, bind_evtchn(c, p), vcpu' \in [Ports -> Cpus]
  PROVE  EventsInv'
<1> USE DEF EventsInv, evShared
<1>1. PICK q \in Binding : q = [step |-> "unmask", port |-> p]
  BY DEF Binding
<1>2. /\ bind' = [bind EXCEPT ![c] = q] /\ action' = [action EXCEPT ![p] = "bound"] /\ bind[c] = Idle
      /\ UNCHANGED <<evShared, owed, stolen, signals, callback, l1, port>>
      /\ q.step = "unmask" /\ q.port = p /\ q.step # "idle" /\ bind[c].step = "idle"
  BY <1>1 DEF bind_evtchn, Idle
<1>3. bind' \in [Cpus -> Binding] /\ bind'[c] = q /\ \A d \in Cpus : d # c => bind'[d] = bind[d]
  BY <1>2 DEF EvTyped
<1>4. EvTyped'
  <2>1. \A d \in Cpus : bind'[d].step # "idle" => bind'[d].port \in Ports
    BY <1>2, <1>3 DEF EvTyped
  <2>2. action' \in [Ports -> {"default", "bound"}]
    BY <1>2 DEF EvTyped
  <2> QED BY <1>2, <1>3, <2>1, <2>2 DEF EvTyped
<1>5. EvUpcalls'
  BY <1>2 DEF EvUpcalls
<1>6. \A r : WillScan(r) => WillScan(r)'
  BY <1>2 DEF WillScan
<1>7. \A r : WillTest(r, AtPort) => WillTest(r, AtPort)'
  BY <1>2, <1>3 DEF WillTest, AtPort
<1>8. WillTest(p, AtPort)' /\ WillTest(p, {"mask", "clear", "handle", "unmask"})'
  BY <1>2, <1>3 DEF WillTest, AtPort
<1>9. \A r \in Ports : r # p => action'[r] = action[r]
  BY <1>2 DEF EvTyped
<1>10. EvPending'
  <2>1. pending \subseteq Ports
    BY DEF EvTyped
  <2> QED BY <1>2, <1>6, <1>7, <1>8, <1>9, <2>1 DEF EvPending
<1>11. EvOwed'
  BY <1>2, <1>3 DEF EvOwed, WillTest
<1>12. QuietPortsAreOpen'
  <2>1. \A r : WillTest(r, {"mask", "clear", "handle", "unmask"})
               => WillTest(r, {"mask", "clear", "handle", "unmask"})'
    BY <1>2, <1>3 DEF WillTest
  <2> QED BY <1>2, <1>8, <1>9, <2>1 DEF QuietPortsAreOpen
<1> QED BY <1>2, <1>4, <1>5, <1>10, <1>11, <1>12

\* The thread opens the port.
LEMMA BindUnmaskKept ==
  ASSUME EventsInv, NEW c \in Cpus, BindUnmask(c)
  PROVE  EventsInv'
<1> USE DEF EventsInv
<1>0. PICK p \in Ports : p = bind[c].port
  BY DEF EvTyped, BindUnmask
<1>1. PICK q : q = [bind[c] EXCEPT !.step = "test"]
  OBVIOUS
<1>2. bind[c] \in Binding /\ bind[c].step = "unmask"
  BY DEF EvTyped, BindUnmask
<1>3. q \in Binding /\ q.step = "test" /\ q.port = p /\ q.step # "idle"
  BY <1>0, <1>1, <1>2 DEF Binding
<1>4. /\ masked' = masked \ {p} /\ bind' = [bind EXCEPT ![c] = q]
      /\ UNCHANGED <<pending, sel, upcall, evHistory, action, callback, l1, port>>
  BY <1>0, <1>1 DEF BindUnmask
<1> USE DEF evHistory
<1>5. bind' \in [Cpus -> Binding] /\ bind'[c] = q /\ \A d \in Cpus : d # c => bind'[d] = bind[d]
  BY <1>3, <1>4 DEF EvTyped
<1>6. EvTyped'
  BY <1>3, <1>4, <1>5 DEF EvTyped
<1>7. EvUpcalls'
  BY <1>4 DEF EvUpcalls
<1>8. EvPending'
  <2>1. \A r : WillScan(r) => WillScan(r)'
    BY <1>4 DEF WillScan
  <2>2. \A r : WillTest(r, AtPort) => WillTest(r, AtPort)'
    BY <1>0, <1>3, <1>4, <1>5 DEF WillTest, AtPort
  <2>3. WillTest(p, AtPort)'
    BY <1>3, <1>5 DEF WillTest, AtPort
  <2> QED BY <1>4, <2>1, <2>2, <2>3 DEF EvPending
<1>9. EvOwed'
  BY <1>2, <1>4, <1>5 DEF EvOwed, WillTest
<1>10. QuietPortsAreOpen'
  BY <1>0, <1>4, <1>5 DEF QuietPortsAreOpen, WillTest
<1> QED BY <1>4, <1>6, <1>7, <1>8, <1>9, <1>10

\* The thread looks at the pending bit.
LEMMA BindTestKept ==
  ASSUME EventsInv, NEW c \in Cpus, BindTest(c)
  PROVE  EventsInv'
<1> USE DEF EventsInv, evShared, evHistory
<1>0. PICK p \in Ports : p = bind[c].port
  BY DEF EvTyped, BindTest
<1>1. PICK q : q = IF bind[c].port \in pending THEN [bind[c] EXCEPT !.step = "mark"] ELSE Idle
  OBVIOUS
<1>2. bind[c] \in Binding /\ bind[c].step = "test"
  BY DEF EvTyped, BindTest
<1>3. /\ q \in Binding /\ (q.step # "idle" => q.port = p) /\ q.step \in {"idle", "mark"}
      /\ p \in pending => q.step = "mark" /\ q.port = p
  BY <1>0, <1>1, <1>2 DEF Binding, Idle
<1>4. bind' = [bind EXCEPT ![c] = q] /\ UNCHANGED <<evShared, evHistory, action, callback, l1, port>>
  BY <1>1 DEF BindTest
<1>5. bind' \in [Cpus -> Binding] /\ bind'[c] = q /\ \A d \in Cpus : d # c => bind'[d] = bind[d]
  BY <1>3, <1>4 DEF EvTyped
<1>6. EvTyped'
  BY <1>3, <1>4, <1>5 DEF EvTyped
<1>7. EvUpcalls'
  BY <1>4 DEF EvUpcalls
<1>8. EvPending'
  <2>1. \A r : WillScan(r) => WillScan(r)'
    BY <1>4 DEF WillScan
  <2>2. \A r \in pending : WillTest(r, AtPort) => WillTest(r, AtPort)'
    BY <1>0, <1>3, <1>4, <1>5 DEF WillTest, AtPort
  <2> QED BY <1>4, <2>1, <2>2 DEF EvPending
<1>9. EvOwed'
  BY <1>2, <1>4, <1>5 DEF EvOwed, WillTest
<1>10. QuietPortsAreOpen'
  BY <1>2, <1>4, <1>5 DEF QuietPortsAreOpen, WillTest
<1> QED BY <1>4, <1>6, <1>7, <1>8, <1>9, <1>10

\* The thread has the port scanned.
LEMMA BindMarkKept ==
  ASSUME ScannedPorts, EventsInv, NEW c \in Cpus, BindMark(c)
  PROVE  EventsInv'
<1> USE DEF EventsInv
<1>0. PICK p \in Ports : p = bind[c].port
  BY DEF EvTyped, BindMark
<1>1. /\ callback[c] = "out" /\ bind[c].step = "mark" /\ Marked(c, p) /\ bind' = [bind EXCEPT ![c] = Idle]
      /\ UNCHANGED <<pending, masked, evHistory, action, callback, l1, port>>
  BY <1>0 DEF BindMark
<1> USE DEF evHistory
<1>2. l1[c] = {}
  BY <1>1 DEF EvUpcalls
<1>3. /\ sel' \in [Cpus -> SUBSET {0}] /\ upcall' \in [Cpus -> BOOLEAN]
      /\ 0 \in sel'[c] /\ upcall'[c] = TRUE
      /\ \A d \in Cpus : d # c => sel'[d] = sel[d] /\ upcall'[d] = upcall[d]
      /\ \A q : WillScan(q) => WillScan(q)'
      /\ WillScan(p)'
  BY <1>1, <1>2, MarkedScans
<1>a. Idle \in Binding /\ Idle.step = "idle"
  BY DEF Idle, Binding
<1>b. bind' \in [Cpus -> Binding] /\ bind'[c] = Idle /\ \A d \in Cpus : d # c => bind'[d] = bind[d]
  BY <1>1, <1>a DEF EvTyped
<1>4. EvTyped'
  BY <1>1, <1>3, <1>a, <1>b DEF EvTyped
<1>5. EvUpcalls'
  BY <1>1, <1>3 DEF EvTyped, EvUpcalls
<1>6. EvPending'
  <2>1. \A q : q # p => (WillTest(q, AtPort) => WillTest(q, AtPort)')
    BY <1>0, <1>1, <1>b DEF WillTest, AtPort
  <2>2. WillTest(p, {"mask", "clear", "handle", "unmask"}) => WillTest(p, AtPort)'
    BY <1>0, <1>1, <1>b DEF WillTest, AtPort
  <2>3. p \in masked /\ action[p] # "default" => WillTest(p, AtPort)'
    BY <2>2, MaskedIsWorked
  <2> QED BY <1>1, <1>3, <2>1, <2>3 DEF EvPending
<1>7. EvOwed'
  BY <1>0, <1>1, <1>b DEF EvOwed, WillTest
<1>8. QuietPortsAreOpen'
  BY <1>0, <1>1, <1>b DEF QuietPortsAreOpen, WillTest
<1> QED BY <1>1, <1>4, <1>5, <1>6, <1>7, <1>8

\* A port's handler is taken away.
LEMMA UnbindKept ==
  ASSUME EventsInv, NEW p \in Ports, UnbindEvtchn(p)
  PROVE  EventsInv'
<1> USE DEF EventsInv, UnbindEvtchn, evShared, evHistory
<1>1. EvTyped'
  BY DEF EvTyped
<1>2. EvUpcalls'
  BY DEF EvUpcalls
<1>3. EvPending'
  BY DEF EvTyped, EvPending, WillTest, WillScan
<1>4. EvOwed'
  BY DEF EvOwed, WillTest
<1>5. QuietPortsAreOpen'
  BY DEF EvTyped, QuietPortsAreOpen, WillTest
<1> QED BY <1>1, <1>2, <1>3, <1>4, <1>5

\* Every step keeps the invariant.
LEMMA EventsNext ==
  ASSUME ScannedPorts, EventsInv, EvNext
  PROVE  EventsInv'
<1>1. ASSUME NEW p \in Ports, NEW c \in Cpus, BindDriver(c, p) \/ evtchn_alloc_ipi(c, p) \/ bind_virq(c, p)
      PROVE  EventsInv'
  <2>1. vcpu \in [Ports -> Cpus] /\ (PortCpu[p] # ANY_CPU => PortCpu[p] \in Cpus)
    BY EventsAssumption DEF EventsInv, EvTyped
  <2>2. vcpu' \in [Ports -> Cpus] /\ bind_evtchn(c, p)
    BY <1>1, <2>1 DEF BindDriver, evtchn_alloc_ipi, bind_virq
  <2> QED BY <2>2, BindKept
<1>2. ASSUME NEW c \in Cpus, CallbackStep(c) \/ BindStep(c)
      PROVE  EventsInv'
  BY <1>2, UpcallKept, TakeSelectorKept, ScanKept, EndCallbackKept, MaskEvtchnKept, ClearEvtchnKept,
     HandleKept, UnmaskBitKept, TestPendingKept, MarkSelectorKept, BindUnmaskKept, BindTestKept,
     BindMarkKept DEF CallbackStep, BindStep
<1> QED BY <1>1, <1>2, SignalKept, RebindKept, UnbindKept DEF EvNext

\* The invariant says what the properties say.
LEMMA EventsImply == EventsInv => EventsNotLost /\ QuietPortsAreOpen
<1> SUFFICES ASSUME EventsInv PROVE EventsNotLost
  BY DEF EventsInv
<1>1. ASSUME NEW p \in owed \ stolen PROVE Coming(p)
  BY <1>1 DEF EventsInv, EvPending, EvOwed, Coming, AtPort
<1> QED BY <1>1 DEF EventsNotLost

-----------------------------------------------------------------------------
(* Idle processors *)
IdleSteps == {"start", "schedule", "pick", "thread", "check", "until", "look",
              "block_domain", "sleep", "blocked", "up"}
KickRecords == [thread : IdThreads, step : {"test", "send"}]

IdTyped ==
  /\ at \in [IdCpus -> IdleSteps] /\ runs \in [IdCpus -> IdThreads \cup {NoIdThread}]
  /\ cpu_state \in [IdCpus -> {"UP", "SLEEPING"}]
  /\ home \in [IdThreads -> IdCpus \cup {ANYWHERE}]
  /\ ready \in SUBSET IdThreads /\ late \in SUBSET IdThreads
  /\ sleep_queue \in SUBSET [thread : IdThreads, timeout : Nat]
  /\ kicks \in [IdCpus -> SUBSET KickRecords]
  /\ until \in [IdCpus -> Int] /\ timer \in [IdCpus -> Int] /\ now \in Nat
  /\ raised \in [IdCpus -> SUBSET {"ipi", "device", "timer"}]
\* A processor says that it sleeps in block_domain only, and runs its own threads.
IdRuns == \A c \in IdCpus :
  /\ at[c] \in {"start", "blocked", "up"} \/ cpu_state[c] = "UP"
  /\ runs[c] # NoIdThread => home[runs[c]] = c
  /\ at[c] = "thread" => runs[c] # NoIdThread
\* What the processor is going to be woken by covers its threads that sleep, and
\* its threads that are ready are to be kicked or came too late.
InTime(c, limit) == \A s \in sleep_queue : home[s.thread] = c => limit <= s.timeout
CpuFits(c) ==
  /\ at[c] \in {"look", "block_domain"} /\ until[c] > 0 => InTime(c, until[c])
  /\ at[c] \in {"sleep", "blocked"} /\ raised[c] = {} => timer[c] > now /\ InTime(c, timer[c])
  /\ at[c] \in {"block_domain", "sleep", "blocked"} /\ raised[c] = {} =>
       \A t \in ready : home[t] = c => t \in late \/ KickComing(t)

IdleInv == IdTyped /\ IdRuns /\ \A c \in IdCpus : CpuFits(c)

-----------------------------------------------------------------------------
\* A processor that does nothing is well, when its threads that sleep are the ones
\* it had, and those that were made ready are to be kicked.
LEMMA CpuStays ==
  ASSUME IdleInv, NEW c \in IdCpus, at'[c] = at[c], until'[c] = until[c], timer'[c] = timer[c], now' = now,
         raised[c] # {} => raised'[c] # {},
         \A s \in sleep_queue' : home'[s.thread] = c => s \in sleep_queue /\ home[s.thread] = c,
         \/ raised'[c] # {}
         \/ \A t \in ready' : home'[t] = c =>
              \/ t \in late' \/ KickComing(t)'
              \/ t \in ready /\ home[t] = c /\ t \notin late /\ ~KickComing(t)
  PROVE  CpuFits(c)'
<1>1. CpuFits(c)
  BY DEF IdleInv
<1> QED BY <1>1 DEF CpuFits, InTime

\* A processor that is neither about to sleep nor asleep is well.
LEMMA CpuAwake ==
  ASSUME NEW c \in IdCpus, at'[c] \notin {"look", "block_domain", "sleep", "blocked"}
  PROVE  CpuFits(c)'
  BY DEF CpuFits

\* A step that touches no thread and no time, of a processor that is well after it.
LEMMA CpuSteps ==
  ASSUME IdleInv, NEW c \in IdCpus, UNCHANGED <<threadVars, kicks, now, raised>>,
         \A d \in IdCpus : d # c => at'[d] = at[d] /\ until'[d] = until[d] /\ timer'[d] = timer[d],
         CpuFits(c)'
  PROVE  \A d \in IdCpus : CpuFits(d)'
<1>1. ASSUME NEW d \in IdCpus, d # c PROVE CpuFits(d)'
  BY <1>1, CpuStays DEF threadVars, KickComing
<1> QED BY <1>1

\* Nobody sleeps at first.
LEMMA IdleBegins == IdInit => IdleInv
<1> SUFFICES ASSUME IdInit PROVE IdleInv
  OBVIOUS
<1>1. IdTyped
  BY DEF IdInit, IdTyped, IdleSteps, KickRecords, ANYWHERE, Never
<1>2. IdRuns
  BY DEF IdInit, IdRuns
<1>3. \A c \in IdCpus : CpuFits(c)
  BY DEF IdInit, CpuFits
<1> QED BY <1>1, <1>2, <1>3 DEF IdleInv

\* A step of another part.
LEMMA IdleStays ==
  ASSUME IdleInv, UNCHANGED idVars
  PROVE  IdleInv'
<1> USE DEF idVars
<1>1. IdTyped'
  BY DEF IdleInv, IdTyped
<1>2. IdRuns'
  BY DEF IdleInv, IdRuns
<1>3. \A c \in IdCpus : CpuFits(c)'
  BY CpuStays DEF KickComing
<1> QED BY <1>1, <1>2, <1>3 DEF IdleInv

\* The idle thread starts.
LEMMA IdleStartsKept ==
  ASSUME IdleInv, NEW c \in IdCpus, IdleStarts(c)
  PROVE  IdleInv'
<1>1. /\ at' = [at EXCEPT ![c] = "schedule"] /\ cpu_state' = [cpu_state EXCEPT ![c] = "UP"] /\ at[c] = "start"
      /\ UNCHANGED <<threadVars, kicks, until, timer, raised, now, idBudget>>
  BY DEF IdleStarts, IdGoto
<1>2. IdTyped'
  BY <1>1 DEF IdleInv, IdTyped, IdleSteps, threadVars
<1>3. IdRuns'
  BY <1>1 DEF IdleInv, IdTyped, IdRuns, threadVars
<1>4. at'[c] = "schedule" /\ \A d \in IdCpus : d # c => at'[d] = at[d] /\ until'[d] = until[d] /\ timer'[d] = timer[d]
  BY <1>1 DEF IdleInv, IdTyped
<1>5. CpuFits(c)'
  BY <1>4, CpuAwake
<1>6. \A d \in IdCpus : CpuFits(d)'
  BY <1>1, <1>4, <1>5, CpuSteps
<1> QED BY <1>2, <1>3, <1>6 DEF IdleInv

\* Threads that are woken are ready, and those of other processors are to be kicked.
LEMMA WokenKicks ==
  ASSUME IdleInv, NEW c \in IdCpus, NEW ts \in SUBSET IdThreads, WokenBy(c, ts)
  PROVE  /\ ready' \in SUBSET IdThreads /\ kicks' \in [IdCpus -> SUBSET KickRecords]
         /\ \A t : KickComing(t) => KickComing(t)'
         /\ \A t \in ts : home[t] \notin {c, ANYWHERE} => KickComing(t)'
         /\ ready' = ready \cup ts
<1>1. PICK new : new = {[thread |-> t, step |-> "test"] : t \in {u \in ts : home[u] \notin {c, ANYWHERE}}}
  OBVIOUS
<1>2. new \in SUBSET KickRecords
  BY <1>1 DEF KickRecords
<1>3. kicks' = [kicks EXCEPT ![c] = @ \cup new] /\ ready' = ready \cup ts
  BY <1>1 DEF WokenBy
<1>4. kicks \in [IdCpus -> SUBSET KickRecords] /\ ready \in SUBSET IdThreads
  BY DEF IdleInv, IdTyped
<1>5. kicks' \in [IdCpus -> SUBSET KickRecords] /\ ready' \in SUBSET IdThreads
  BY <1>2, <1>3, <1>4
<1>6. \A d \in IdCpus : kicks[d] \subseteq kicks'[d]
  BY <1>3, <1>4
<1>7. new \subseteq kicks'[c]
  BY <1>3, <1>4
<1>8. ASSUME NEW t \in ts, home[t] \notin {c, ANYWHERE} PROVE KickComing(t)'
  <2>1. PICK r : r = [thread |-> t, step |-> "test"]
    OBVIOUS
  <2>2. r \in kicks'[c] /\ r.thread = t
    BY <1>1, <1>7, <1>8, <2>1
  <2> QED BY <2>2 DEF KickComing
<1> QED BY <1>3, <1>5, <1>6, <1>8 DEF KickComing

\* Waking threads keeps the other processors well.
LEMMA WokenFits ==
  ASSUME IdleInv, NEW c \in IdCpus, NEW ts \in SUBSET IdThreads, WokenBy(c, ts),
         UNCHANGED <<home, sleep_queue, late, until, timer, now>>,
         \A d \in IdCpus : d # c => at'[d] = at[d] /\ raised'[d] = raised[d],
         NEW d \in IdCpus, d # c
  PROVE  CpuFits(d)'
<1>1. d # ANYWHERE
  BY IdleAssumption DEF ANYWHERE
<1>2. \A t \in ready' : home'[t] = d =>
              \/ t \in late' \/ KickComing(t)'
              \/ t \in ready /\ home[t] = d /\ t \notin late /\ ~KickComing(t)
  BY <1>1, WokenKicks
<1> QED BY <1>2, CpuStays

\* schedule wakes the threads whose timeouts have passed.
LEMMA WakeExpiredKept ==
  ASSUME IdleInv, NEW c \in IdCpus, sched_wake_expired(c)
  PROVE  IdleInv'
<1>1. PICK ts : ts = {s.thread : s \in {y \in sleep_queue : y.timeout <= now /\ ~Runnable(y.thread)}}
  OBVIOUS
<1>2. ts \in SUBSET IdThreads
  BY <1>1 DEF IdleInv, IdTyped
<1>3. /\ WokenBy(c, ts) /\ at' = [at EXCEPT ![c] = "pick"] /\ at[c] = "schedule"
      /\ UNCHANGED <<runs, cpu_state, home, sleep_queue, late, until, timer, raised, now, idBudget>>
  BY <1>1 DEF sched_wake_expired, IdGoto
<1>4. at'[c] = "pick" /\ at' \in [IdCpus -> IdleSteps] /\ \A d \in IdCpus : d # c => at'[d] = at[d]
  BY <1>3 DEF IdleInv, IdTyped, IdleSteps
<1>5. IdTyped'
  BY <1>2, <1>3, <1>4, WokenKicks DEF IdleInv, IdTyped
<1>6. IdRuns'
  BY <1>3, <1>4 DEF IdleInv, IdRuns
<1>7. ASSUME NEW d \in IdCpus PROVE CpuFits(d)'
  <2>1. CASE d = c
    BY <1>4, <2>1, CpuAwake
  <2>2. CASE d # c
    BY <1>2, <1>3, <1>4, <2>2, WokenFits
  <2> QED BY <2>1, <2>2
<1> QED BY <1>5, <1>6, <1>7 DEF IdleInv

\* A processor looks whether the other one sleeps.
LEMMA SignalCpuKept ==
  ASSUME IdleInv, NEW c \in IdCpus, NEW k \in UNION {kicks[d] : d \in IdCpus}, smp_signal_cpu(c, k)
  PROVE  IdleInv'
<1>1. /\ k \in kicks[c] /\ k.step = "test"
      /\ UNCHANGED <<at, runs, cpu_state, home, ready, sleep_queue, until, timer, raised, now, idBudget>>
  BY DEF smp_signal_cpu
<1>2. k \in KickRecords /\ k.thread \in IdThreads
  <2>1. k \in KickRecords
    BY <1>1 DEF IdleInv, IdTyped
  <2> QED BY <2>1 DEF KickRecords
<1>a. PICK r : r = [k EXCEPT !.step = "send"]
  OBVIOUS
<1>3. r \in KickRecords /\ r.thread = k.thread
  BY <1>2, <1>a DEF KickRecords
<1>4. \/ kicks' = [kicks EXCEPT ![c] = (@ \ {k}) \cup {r}] /\ late' = late
      \/ kicks' = [kicks EXCEPT ![c] = @ \ {k}] /\ late' = late \cup ({k.thread} \cap ready)
  BY <1>a DEF smp_signal_cpu
<1>5. kicks \in [IdCpus -> SUBSET KickRecords]
  BY DEF IdleInv, IdTyped
<1>6. IdTyped'
  <2>1. kicks' \in [IdCpus -> SUBSET KickRecords]
    BY <1>3, <1>4, <1>5
  <2>2. late' \in SUBSET IdThreads
    BY <1>2, <1>4 DEF IdleInv, IdTyped
  <2> QED BY <1>1, <2>1, <2>2 DEF IdleInv, IdTyped
<1>7. IdRuns'
  BY <1>1 DEF IdleInv, IdRuns
<1>8. ASSUME NEW t \in ready, t \in late \/ KickComing(t) PROVE t \in late' \/ KickComing(t)'
  <2>1. CASE t \in late
    BY <1>4, <2>1
  <2>2. CASE KickComing(t)
    <3>0. PICK d \in IdCpus : \E h \in kicks[d] : h.thread = t
      BY <2>2 DEF KickComing
    <3>1. PICK h \in kicks[d] : h.thread = t
      BY <3>0
    <3>2. CASE d = c /\ h = k
      <4>1. CASE kicks' = [kicks EXCEPT ![c] = (@ \ {k}) \cup {r}]
        <5>1. r \in kicks'[c] /\ r.thread = t
          BY <1>3, <1>5, <3>1, <3>2, <4>1
        <5> QED BY <5>1 DEF KickComing
      <4>2. CASE late' = late \cup ({k.thread} \cap ready)
        BY <3>1, <3>2, <4>2
      <4> QED BY <1>4, <4>1, <4>2
    <3>3. CASE ~(d = c /\ h = k)
      <4>1. h \in kicks'[d]
        BY <1>4, <1>5, <3>1, <3>3
      <4> QED BY <3>1, <4>1 DEF KickComing
    <3> QED BY <3>2, <3>3
  <2> QED BY <1>8, <2>1, <2>2
<1>9. \A d \in IdCpus : CpuFits(d)'
  BY <1>1, <1>8, CpuStays
<1> QED BY <1>6, <1>7, <1>9 DEF IdleInv

\* A processor that slept is notified.
LEMMA NotifyKept ==
  ASSUME IdleInv, NEW c \in IdCpus, NEW k \in UNION {kicks[d] : d \in IdCpus}, notify_remote_via_evtchn(c, k)
  PROVE  IdleInv'
<1>1. /\ k \in kicks[c] /\ kicks' = [kicks EXCEPT ![c] = @ \ {k}]
      /\ raised' = [raised EXCEPT ![home[k.thread]] = @ \cup {"ipi"}]
      /\ UNCHANGED <<at, threadVars, cpu_state, until, timer, now, idBudget>>
  BY DEF notify_remote_via_evtchn
<1> USE DEF threadVars
<1>2. kicks \in [IdCpus -> SUBSET KickRecords] /\ raised \in [IdCpus -> SUBSET {"ipi", "device", "timer"}]
  BY DEF IdleInv, IdTyped
<1>3. IdTyped'
  <2>1. kicks' \in [IdCpus -> SUBSET KickRecords]
    BY <1>1, <1>2
  <2>2. raised' \in [IdCpus -> SUBSET {"ipi", "device", "timer"}]
    BY <1>1, <1>2
  <2> QED BY <1>1, <2>1, <2>2 DEF IdleInv, IdTyped
<1>4. IdRuns'
  BY <1>1 DEF IdleInv, IdRuns
<1>5. ASSUME NEW d \in IdCpus PROVE CpuFits(d)'
  <2>1. raised[d] # {} => raised'[d] # {}
    BY <1>1, <1>2
  <2>2. ASSUME raised'[d] = {}, NEW t \in ready, home[t] = d, KickComing(t) PROVE KickComing(t)'
    <3>0. PICK e \in IdCpus : \E h \in kicks[e] : h.thread = t
      BY <2>2 DEF KickComing
    <3>1. PICK h \in kicks[e] : h.thread = t
      BY <3>0
    <3>2. CASE e = c /\ h = k
      <4>1. home[k.thread] = d
        BY <2>2, <3>1, <3>2
      <4>2. raised'[d] # {}
        BY <1>1, <1>2, <4>1
      <4> QED BY <2>2, <4>2
    <3>3. CASE ~(e = c /\ h = k)
      <4>1. h \in kicks'[e]
        BY <1>1, <1>2, <3>1, <3>3
      <4> QED BY <3>1, <4>1 DEF KickComing
    <3> QED BY <3>2, <3>3
  <2> QED BY <1>1, <2>1, <2>2, CpuStays
<1> QED BY <1>3, <1>4, <1>5 DEF IdleInv

\* A thread is run.
LEMMA RunKept ==
  ASSUME IdleInv, NEW c \in IdCpus, NEW t \in Candidates(c), at[c] = "pick", Run(c, t),
         timer' = [timer EXCEPT ![c] = now + TimeSlice],
         UNCHANGED <<cpu_state, kicks, until, raised, now>>
  PROVE  IdleInv'
<1>1. /\ t \in IdThreads /\ t # NoIdThread /\ cpu_state[c] = "UP" /\ home[t] \in {c, ANYWHERE}
      /\ c # ANYWHERE
  BY IdleAssumption DEF Candidates, IdleInv, IdTyped, ANYWHERE
<1>2. /\ runs' = [runs EXCEPT ![c] = t] /\ home' = [home EXCEPT ![t] = c]
      /\ ready' = (ready \cup ({runs[c]} \ {NoIdThread})) \ {t} /\ late' = late \ {t}
      /\ sleep_queue' = {s \in sleep_queue : s.thread # t} /\ at' = [at EXCEPT ![c] = "thread"]
  BY DEF Run, IdGoto
<1>3. IdTyped'
  <2>1. timer' \in [IdCpus -> Int]
    BY IdleAssumption DEF IdleInv, IdTyped
  <2>2. at' \in [IdCpus -> IdleSteps] /\ runs' \in [IdCpus -> IdThreads \cup {NoIdThread}] /\ home' \in [IdThreads -> IdCpus \cup {ANYWHERE}]
    BY <1>1, <1>2 DEF IdleInv, IdTyped, IdleSteps
  <2>3. ready' \in SUBSET IdThreads /\ late' \in SUBSET IdThreads /\ sleep_queue' \in SUBSET [thread : IdThreads, timeout : Nat]
    BY <1>1, <1>2 DEF IdleInv, IdTyped
  <2> QED BY <2>1, <2>2, <2>3 DEF IdleInv, IdTyped
<1>4. IdRuns'
  BY <1>1, <1>2, IdleAssumption DEF IdleInv, IdTyped, IdRuns, ANYWHERE
<1>5. CpuFits(c)'
  <2>1. at'[c] = "thread"
    BY <1>2 DEF IdleInv, IdTyped
  <2> QED BY <2>1, CpuAwake
<1>6. ASSUME NEW d \in IdCpus, d # c PROVE CpuFits(d)'
  <2>1. d # ANYWHERE
    BY IdleAssumption DEF ANYWHERE
  <2>2. at'[d] = at[d] /\ timer'[d] = timer[d]
    BY <1>2, <1>6 DEF IdleInv, IdTyped
  <2>3. \A u \in IdThreads : home'[u] = d => home[u] = d /\ u # t /\ u # runs[c]
    BY <1>1, <1>2, <1>6, IdleAssumption DEF IdleInv, IdTyped, IdRuns
  <2>4. \A s \in sleep_queue' : home'[s.thread] = d => s \in sleep_queue /\ home[s.thread] = d
    BY <1>2, <2>3 DEF IdleInv, IdTyped
  <2>5. \A u \in ready' : home'[u] = d =>
              \/ u \in late' \/ KickComing(u)'
              \/ u \in ready /\ home[u] = d /\ u \notin late /\ ~KickComing(u)
    <3>1. \A u : KickComing(u) => KickComing(u)'
      BY DEF KickComing
    <3> QED BY <1>2, <1>3, <2>3, <3>1 DEF IdTyped
  <2> QED BY <2>2, <2>4, <2>5, CpuStays
<1> QED BY <1>3, <1>4, <1>5, <1>6 DEF IdleInv

\* schedule runs a thread or falls through to the idle loop.
LEMMA PickThreadKept ==
  ASSUME IdleInv, NEW c \in IdCpus, pick_thread(c)
  PROVE  IdleInv'
<1>1. /\ at[c] = "pick" /\ timer' = [timer EXCEPT ![c] = now + TimeSlice]
      /\ UNCHANGED <<cpu_state, kicks, until, raised, now, idBudget>>
  BY DEF pick_thread
<1>2. ASSUME NEW t \in Candidates(c), Run(c, t) PROVE IdleInv'
  BY <1>1, <1>2, RunKept
<1>3. CASE at' = [at EXCEPT ![c] = "check"] /\ UNCHANGED threadVars
  <2>1. timer' \in [IdCpus -> Int] /\ at' \in [IdCpus -> IdleSteps]
    BY <1>1, <1>3, IdleAssumption DEF IdleInv, IdTyped, IdleSteps
  <2>2. IdTyped'
    BY <1>1, <1>3, <2>1 DEF IdleInv, IdTyped, threadVars
  <2>3. IdRuns'
    BY <1>1, <1>3 DEF IdleInv, IdTyped, IdRuns, threadVars
  <2>4. at'[c] = "check" /\ \A d \in IdCpus : d # c => at'[d] = at[d] /\ timer'[d] = timer[d] /\ until'[d] = until[d]
    BY <1>1, <1>3 DEF IdleInv, IdTyped
  <2>5. CpuFits(c)'
    BY <2>4, CpuAwake
  <2>6. \A d \in IdCpus : CpuFits(d)'
    BY <1>1, <1>3, <2>4, <2>5, CpuSteps
  <2> QED BY <2>2, <2>3, <2>6 DEF IdleInv
<1> QED BY <1>2, <1>3 DEF pick_thread, IdGoto

\* The processor is UP, so check_suspend lets it go on.
LEMMA CheckSuspendKept ==
  ASSUME IdleInv, NEW c \in IdCpus, check_suspend(c)
  PROVE  IdleInv'
<1>1. /\ at[c] = "check" /\ UNCHANGED <<threadVars, cpu_state, kicks, until, timer, raised, now, idBudget>>
      /\ at' = [at EXCEPT ![c] = "until"]
  BY DEF check_suspend, IdleInv, IdRuns, IdGoto
<1>2. IdTyped'
  BY <1>1 DEF IdleInv, IdTyped, IdleSteps, threadVars
<1>3. IdRuns'
  BY <1>1 DEF IdleInv, IdTyped, IdRuns, threadVars
<1>4. at'[c] = "until" /\ \A d \in IdCpus : d # c => at'[d] = at[d] /\ until'[d] = until[d] /\ timer'[d] = timer[d]
  BY <1>1 DEF IdleInv, IdTyped
<1>5. CpuFits(c)'
  BY <1>4, CpuAwake
<1>6. \A d \in IdCpus : CpuFits(d)'
  BY <1>1, <1>4, <1>5, CpuSteps
<1> QED BY <1>2, <1>3, <1>6 DEF IdleInv

\* The first timeout is not after any.
LEMMA BlockingTimeKept ==
  ASSUME IdleInv, NEW c \in IdCpus, sched_blocking_time(c)
  PROVE  IdleInv'
<1>a. PICK times : times = {s.timeout : s \in sleep_queue}
  OBVIOUS
<1>b. PICK first : first = IF sleep_queue = {} THEN now + DefaultSleep ELSE Min(times)
  OBVIOUS
<1>1. /\ at[c] = "until" /\ UNCHANGED <<threadVars, cpu_state, kicks, timer, raised, now, idBudget>>
      /\ at' = [at EXCEPT ![c] = "look"] /\ until' = [until EXCEPT ![c] = IF first < now THEN -1 ELSE first]
  BY <1>a, <1>b DEF sched_blocking_time, IdGoto
<1>2. first \in Nat /\ now \in Nat /\ \A s \in sleep_queue : first <= s.timeout
  <2>1. times \in SUBSET Nat /\ now \in Nat
    BY <1>a DEF IdleInv, IdTyped
  <2>2. CASE sleep_queue = {}
    BY <1>b, <2>1, <2>2, IdleAssumption
  <2>3. CASE sleep_queue # {}
    <3>1. times # {} /\ first = Min(times)
      BY <1>a, <1>b, <2>3
    <3>2. first \in times /\ \A y \in times : first <= y
      BY <2>1, <3>1, MinIsLeast
    <3> QED BY <1>a, <2>1, <3>2
  <2> QED BY <2>2, <2>3
<1>3. IdTyped'
  <2>1. at' \in [IdCpus -> IdleSteps]
    BY <1>1 DEF IdleInv, IdTyped, IdleSteps
  <2>2. until' \in [IdCpus -> Int]
    BY <1>1, <1>2 DEF IdleInv, IdTyped
  <2> QED BY <1>1, <2>1, <2>2 DEF IdleInv, IdTyped, threadVars
<1>4. IdRuns'
  BY <1>1 DEF IdleInv, IdTyped, IdRuns, threadVars
<1>5. at'[c] = "look" /\ \A d \in IdCpus : d # c => at'[d] = at[d] /\ until'[d] = until[d] /\ timer'[d] = timer[d]
  BY <1>1 DEF IdleInv, IdTyped
<1>6. CpuFits(c)'
  <2>1. until'[c] = (IF first < now THEN -1 ELSE first)
    BY <1>1 DEF IdleInv, IdTyped
  <2> QED BY <1>1, <1>2, <1>5, <2>1 DEF CpuFits, InTime, threadVars
<1>7. \A d \in IdCpus : CpuFits(d)'
  BY <1>1, <1>5, <1>6, CpuSteps
<1> QED BY <1>3, <1>4, <1>7 DEF IdleInv

\* A processor goes to sleep only when no thread is ready.
LEMMA RunnableThreadsKept ==
  ASSUME IdleInv, NEW c \in IdCpus, runnable_threads(c)
  PROVE  IdleInv'
<1>1. /\ at[c] = "look" /\ UNCHANGED <<threadVars, cpu_state, kicks, timer, raised, now, idBudget>>
      /\ \/ until[c] > 0 /\ ready = {} /\ at' = [at EXCEPT ![c] = "block_domain"] /\ until' = until
         \/ at' = [at EXCEPT ![c] = "schedule"] /\ until' = [until EXCEPT ![c] = 0]
  BY DEF runnable_threads, IdGoto
<1>2. IdTyped'
  <2>1. at' \in [IdCpus -> IdleSteps]
    BY <1>1 DEF IdleInv, IdTyped, IdleSteps
  <2>2. until' \in [IdCpus -> Int]
    BY <1>1 DEF IdleInv, IdTyped
  <2> QED BY <1>1, <2>1, <2>2 DEF IdleInv, IdTyped, threadVars
<1>3. IdRuns'
  BY <1>1 DEF IdleInv, IdTyped, IdRuns, threadVars
<1>4. /\ \A d \in IdCpus : d # c => at'[d] = at[d] /\ until'[d] = until[d] /\ timer'[d] = timer[d]
      /\ \/ at'[c] = "schedule"
         \/ at'[c] = "block_domain" /\ until'[c] = until[c] /\ until[c] > 0 /\ ready = {}
  BY <1>1 DEF IdleInv, IdTyped
<1>5. CpuFits(c)'
  <2>1. CpuFits(c)
    BY DEF IdleInv
  <2> QED BY <1>1, <1>4, <2>1 DEF CpuFits, InTime, threadVars
<1>6. \A d \in IdCpus : CpuFits(d)'
  BY <1>1, <1>4, <1>5, CpuSteps
<1> QED BY <1>2, <1>3, <1>6 DEF IdleInv

\* The timer is set for the first timeout.
LEMMA BlockDomainKept ==
  ASSUME IdleInv, NEW c \in IdCpus, block_domain(c)
  PROVE  IdleInv'
<1>1. /\ at[c] = "block_domain" /\ UNCHANGED <<threadVars, cpu_state, kicks, raised, now, idBudget>>
      /\ until' = [until EXCEPT ![c] = 0]
      /\ \/ now < until[c] /\ timer' = [timer EXCEPT ![c] = until[c]] /\ at' = [at EXCEPT ![c] = "sleep"]
         \/ timer' = timer /\ at' = [at EXCEPT ![c] = "schedule"]
  BY DEF block_domain, IdGoto
<1>2. IdTyped'
  <2>1. at' \in [IdCpus -> IdleSteps]
    BY <1>1 DEF IdleInv, IdTyped, IdleSteps
  <2>2. until' \in [IdCpus -> Int] /\ timer' \in [IdCpus -> Int]
    BY <1>1 DEF IdleInv, IdTyped
  <2> QED BY <1>1, <2>1, <2>2 DEF IdleInv, IdTyped, threadVars
<1>3. IdRuns'
  BY <1>1 DEF IdleInv, IdTyped, IdRuns, threadVars
<1>4. /\ \A d \in IdCpus : d # c => at'[d] = at[d] /\ until'[d] = until[d] /\ timer'[d] = timer[d]
      /\ \/ at'[c] = "schedule"
         \/ at'[c] = "sleep" /\ timer'[c] = until[c] /\ now < until[c] /\ until[c] \in Int /\ now \in Nat
  BY <1>1 DEF IdleInv, IdTyped
<1>5. CpuFits(c)'
  <2>1. CpuFits(c)
    BY DEF IdleInv
  <2> QED BY <1>1, <1>4, <2>1 DEF CpuFits, InTime, threadVars, KickComing
<1>6. \A d \in IdCpus : CpuFits(d)'
  BY <1>1, <1>4, <1>5, CpuSteps
<1> QED BY <1>2, <1>3, <1>6 DEF IdleInv

\* The processor says that it sleeps, and blocks.
LEMMA SetSleepingKept ==
  ASSUME IdleInv, NEW c \in IdCpus, SetSleeping(c)
  PROVE  IdleInv'
<1>1. /\ at[c] = "sleep" /\ cpu_state' = [cpu_state EXCEPT ![c] = "SLEEPING"] /\ at' = [at EXCEPT ![c] = "blocked"]
      /\ UNCHANGED <<threadVars, kicks, until, timer, raised, now, idBudget>>
  BY DEF SetSleeping, IdGoto
<1>2. IdTyped'
  BY <1>1 DEF IdleInv, IdTyped, IdleSteps, threadVars
<1>3. IdRuns'
  BY <1>1 DEF IdleInv, IdTyped, IdRuns, threadVars
<1>4. at'[c] = "blocked" /\ \A d \in IdCpus : d # c => at'[d] = at[d] /\ until'[d] = until[d] /\ timer'[d] = timer[d]
  BY <1>1 DEF IdleInv, IdTyped
<1>5. CpuFits(c)'
  <2>1. CpuFits(c)
    BY DEF IdleInv
  <2> QED BY <1>1, <1>4, <2>1 DEF CpuFits, InTime, threadVars, KickComing
<1>6. \A d \in IdCpus : CpuFits(d)'
  BY <1>1, <1>4, <1>5, CpuSteps
<1> QED BY <1>2, <1>3, <1>6 DEF IdleInv

\* The processor says that it is up again.
LEMMA SetUpKept ==
  ASSUME IdleInv, NEW c \in IdCpus, SetUp(c)
  PROVE  IdleInv'
<1>1. /\ at[c] = "up" /\ cpu_state' = [cpu_state EXCEPT ![c] = "UP"] /\ at' = [at EXCEPT ![c] = "schedule"]
      /\ UNCHANGED <<threadVars, kicks, until, timer, raised, now, idBudget>>
  BY DEF SetUp, IdGoto
<1>2. IdTyped'
  BY <1>1 DEF IdleInv, IdTyped, IdleSteps, threadVars
<1>3. IdRuns'
  BY <1>1 DEF IdleInv, IdTyped, IdRuns, threadVars
<1>4. at'[c] = "schedule" /\ \A d \in IdCpus : d # c => at'[d] = at[d] /\ until'[d] = until[d] /\ timer'[d] = timer[d]
  BY <1>1 DEF IdleInv, IdTyped
<1>5. CpuFits(c)'
  BY <1>4, CpuAwake
<1>6. \A d \in IdCpus : CpuFits(d)'
  BY <1>1, <1>4, <1>5, CpuSteps
<1> QED BY <1>2, <1>3, <1>6 DEF IdleInv

\* Interrupts are handled, where they are enabled, and end the sleep.
LEMMA UpcalledKept ==
  ASSUME IdleInv, NEW c \in IdCpus, Upcalled(c)
  PROVE  IdleInv'
<1>1. /\ at[c] \in Open /\ raised' = [raised EXCEPT ![c] = {}]
      /\ UNCHANGED <<runs, cpu_state, home, sleep_queue, late, until, timer, now, idBudget>>
  BY DEF Upcalled, HandleEvents
<1>2. PICK st \in IdleSteps : /\ at' = [at EXCEPT ![c] = st] /\ (at[c] = "blocked" => st = "up")
                            /\ (at[c] # "blocked" => st = at[c] \/ (at[c] = "thread" /\ st = "schedule"))
  <2>1. PICK st : st = CASE at[c] = "blocked" -> "up" [] at[c] = "thread" /\ "timer" \in raised[c] -> "schedule"
                         [] OTHER -> at[c]
    OBVIOUS
  <2>2. at' = [at EXCEPT ![c] = st]
    BY <2>1 DEF Upcalled, HandleEvents
  <2>3. at[c] \in IdleSteps
    BY DEF IdleInv, IdTyped
  <2> QED BY <2>1, <2>2, <2>3 DEF IdleSteps
<1>3. \E ts \in SUBSET IdThreads : WokenBy(c, ts) \/ (ts = {} /\ UNCHANGED <<ready, kicks>>)
  <2>1. CASE "device" \in raised[c]
    <3>1. PICK t \in IdThreads \cup {NoIdThread} : WokenBy(c, {t} \ {NoIdThread})
      BY <2>1 DEF Upcalled, HandleEvents
    <3>2. {t} \ {NoIdThread} \in SUBSET IdThreads
      OBVIOUS
    <3> QED BY <3>1, <3>2
  <2>2. CASE "device" \notin raised[c]
    <3>1. UNCHANGED <<ready, kicks>>
      BY <2>2 DEF Upcalled, HandleEvents
    <3>2. {} \in SUBSET IdThreads
      OBVIOUS
    <3> QED BY <3>1, <3>2
  <2> QED BY <2>1, <2>2
<1>4. PICK ts \in SUBSET IdThreads : WokenBy(c, ts) \/ (ts = {} /\ UNCHANGED <<ready, kicks>>)
  BY <1>3
<1>5. /\ at' \in [IdCpus -> IdleSteps] /\ at'[c] = st /\ st \notin {"look", "block_domain", "sleep", "blocked"}
      /\ raised' \in [IdCpus -> SUBSET {"ipi", "device", "timer"}]
      /\ \A d \in IdCpus : d # c => at'[d] = at[d] /\ raised'[d] = raised[d]
  BY <1>1, <1>2 DEF IdleInv, IdTyped, Open
<1>6. ready' \in SUBSET IdThreads /\ kicks' \in [IdCpus -> SUBSET KickRecords]
  BY <1>4, WokenKicks DEF IdleInv, IdTyped
<1>7. IdTyped'
  BY <1>1, <1>5, <1>6 DEF IdleInv, IdTyped
<1>8. IdRuns'
  BY <1>1, <1>2, <1>5 DEF IdleInv, IdTyped, IdRuns, Open
<1>9. ASSUME NEW d \in IdCpus PROVE CpuFits(d)'
  <2>1. CASE d = c
    BY <1>5, <2>1, CpuAwake
  <2>2. CASE d # c /\ WokenBy(c, ts)
    BY <1>1, <1>5, <2>2, WokenFits
  <2>3. CASE d # c /\ UNCHANGED <<ready, kicks>>
    BY <1>1, <1>5, <2>3, CpuStays DEF KickComing
  <2> QED BY <1>4, <2>1, <2>2, <2>3
<1> QED BY <1>7, <1>8, <1>9 DEF IdleInv

\* An event of a device comes.
LEMMA DeviceEventKept ==
  ASSUME IdleInv, NEW c \in IdCpus, DeviceEvent(c)
  PROVE  IdleInv'
<1>1. raised' = [raised EXCEPT ![c] = @ \cup {"device"}] /\ UNCHANGED <<at, threadVars, cpu_state, kicks, until, timer, now>>
  BY DEF DeviceEvent
<1> USE DEF threadVars
<1>2. raised' \in [IdCpus -> SUBSET {"ipi", "device", "timer"}] /\ \A d \in IdCpus : raised[d] \subseteq raised'[d]
  BY <1>1 DEF IdleInv, IdTyped
<1>3. IdTyped'
  BY <1>1, <1>2 DEF IdleInv, IdTyped
<1>4. IdRuns'
  BY <1>1 DEF IdleInv, IdRuns
<1>5. \A d \in IdCpus : CpuFits(d)'
  BY <1>1, <1>2, CpuStays DEF KickComing
<1> QED BY <1>3, <1>4, <1>5 DEF IdleInv

\* Time passes, and timers expire.
LEMMA TimePassesKept ==
  ASSUME IdleInv, TimePasses
  PROVE  IdleInv'
<1>1. /\ now' = now + 1 /\ UNCHANGED <<at, threadVars, cpu_state, kicks, until>>
      /\ raised' = [c \in IdCpus |-> raised[c] \cup IF Expires(c) THEN {"timer"} ELSE {}]
      /\ timer' = [c \in IdCpus |-> IF Expires(c) THEN Never ELSE timer[c]]
  BY DEF TimePasses
<1> USE DEF threadVars
<1>2. IdTyped'
  <2>1. raised' \in [IdCpus -> SUBSET {"ipi", "device", "timer"}]
    BY <1>1 DEF IdleInv, IdTyped
  <2>2. timer' \in [IdCpus -> Int] /\ now' \in Nat
    BY <1>1 DEF IdleInv, IdTyped, Never
  <2> QED BY <1>1, <2>1, <2>2 DEF IdleInv, IdTyped
<1>3. IdRuns'
  BY <1>1 DEF IdleInv, IdRuns
<1>4. ASSUME NEW c \in IdCpus PROVE CpuFits(c)'
  <2>1. CpuFits(c) /\ now \in Nat /\ timer[c] \in Int
    BY DEF IdleInv, IdTyped
  <2>2. CASE Expires(c)
    <3>1. raised'[c] # {}
      BY <1>1, <2>2
    <3> QED BY <1>1, <2>1, <3>1 DEF CpuFits, InTime
  <2>3. CASE ~Expires(c)
    <3>1. raised'[c] = raised[c] /\ timer'[c] = timer[c]
      BY <1>1, <2>3
    <3>2. timer[c] > now => timer[c] > now + 1
      BY <2>1, <2>3 DEF Expires, Never
    <3> QED BY <1>1, <2>1, <3>1, <3>2 DEF CpuFits, InTime, KickComing
  <2> QED BY <2>2, <2>3
<1> QED BY <1>2, <1>3, <1>4 DEF IdleInv

\* A thread wakes another.
LEMMA WakeKept ==
  ASSUME IdleInv, NEW c \in IdCpus, NEW t \in IdThreads, wake(c, t)
  PROVE  IdleInv'
<1>1. /\ at[c] = "thread" /\ WokenBy(c, {t})
      /\ UNCHANGED <<at, runs, cpu_state, home, sleep_queue, late, until, timer, raised, now>>
  BY DEF wake, IdCall
<1>2. {t} \in SUBSET IdThreads
  OBVIOUS
<1>3. IdTyped'
  BY <1>1, <1>2, WokenKicks DEF IdleInv, IdTyped
<1>4. IdRuns'
  BY <1>1 DEF IdleInv, IdRuns
<1>5. ASSUME NEW d \in IdCpus PROVE CpuFits(d)'
  <2>1. CASE d = c
    BY <1>1, <2>1, CpuAwake
  <2>2. CASE d # c
    BY <1>1, <1>2, <2>2, WokenFits
  <2> QED BY <2>1, <2>2
<1> QED BY <1>3, <1>4, <1>5 DEF IdleInv

\* A thread blocks, or sleeps until a time.
LEMMA LeaveKeptIdle ==
  ASSUME IdleInv, NEW c \in IdCpus, at[c] = "thread", Leaves(c),
         UNCHANGED <<cpu_state, home, ready, kicks, late, until, timer, raised, now>>,
         \/ sleep_queue' = sleep_queue
         \/ \E n \in 1..2 : sleep_queue' = sleep_queue \cup {[thread |-> runs[c], timeout |-> now + n]}
  PROVE  IdleInv'
<1>1. runs' = [runs EXCEPT ![c] = NoIdThread] /\ at' = [at EXCEPT ![c] = "schedule"]
  BY DEF Leaves, IdGoto
<1>2. runs[c] \in IdThreads /\ home[runs[c]] = c /\ now \in Nat /\ cpu_state[c] = "UP"
  BY DEF IdleInv, IdTyped, IdRuns
<1>3. /\ sleep_queue' \in SUBSET [thread : IdThreads, timeout : Nat]
      /\ \A s \in sleep_queue' : home[s.thread] = c \/ s \in sleep_queue
  <2>1. CASE sleep_queue' = sleep_queue
    BY <2>1 DEF IdleInv, IdTyped
  <2>2. ASSUME NEW n \in 1..2, sleep_queue' = sleep_queue \cup {[thread |-> runs[c], timeout |-> now + n]}
        PROVE  /\ sleep_queue' \in SUBSET [thread : IdThreads, timeout : Nat]
               /\ \A s \in sleep_queue' : home[s.thread] = c \/ s \in sleep_queue
    <3>1. PICK r : r = [thread |-> runs[c], timeout |-> now + n]
      OBVIOUS
    <3>2. r \in [thread : IdThreads, timeout : Nat] /\ r.thread = runs[c]
      BY <1>2, <3>1
    <3>3. sleep_queue' = sleep_queue \cup {r}
      BY <2>2, <3>1
    <3> QED BY <1>2, <3>2, <3>3 DEF IdleInv, IdTyped
  <2> QED BY <2>1, <2>2
<1>4. /\ at' \in [IdCpus -> IdleSteps] /\ runs' \in [IdCpus -> IdThreads \cup {NoIdThread}]
      /\ at'[c] = "schedule" /\ \A d \in IdCpus : d # c => at'[d] = at[d]
  BY <1>1 DEF IdleInv, IdTyped, IdleSteps
<1>5. IdTyped'
  BY <1>3, <1>4 DEF IdleInv, IdTyped
<1>6. IdRuns'
  BY <1>1, <1>2, <1>4 DEF IdleInv, IdTyped, IdRuns
<1>7. ASSUME NEW d \in IdCpus PROVE CpuFits(d)'
  <2>1. CASE d = c
    BY <1>4, <2>1, CpuAwake
  <2>2. CASE d # c
    BY <1>3, <1>4, <2>2, CpuStays DEF KickComing
  <2> QED BY <2>1, <2>2
<1> QED BY <1>5, <1>6, <1>7 DEF IdleInv

\* Every step keeps the invariant.
LEMMA IdleNext ==
  ASSUME IdleInv, IdNext
  PROVE  IdleInv'
<1>1. ASSUME NEW c \in IdCpus,
             \/ IdleStarts(c) \/ sched_wake_expired(c) \/ pick_thread(c) \/ check_suspend(c)
             \/ sched_blocking_time(c) \/ runnable_threads(c) \/ block_domain(c) \/ SetSleeping(c) \/ SetUp(c)
             \/ Upcalled(c) \/ DeviceEvent(c) \/ \E t \in IdThreads : wake(c, t)
      PROVE  IdleInv'
  BY <1>1, IdleStartsKept, WakeExpiredKept, PickThreadKept, CheckSuspendKept, BlockingTimeKept,
     RunnableThreadsKept, BlockDomainKept, SetSleepingKept, SetUpKept, UpcalledKept, DeviceEventKept, WakeKept
<1>2. ASSUME NEW c \in IdCpus, block(c) \/ \E n \in 1..2 : nanosleep(c, n)
      PROVE  IdleInv'
  <2>1. CASE block(c)
    BY <2>1, LeaveKeptIdle DEF block, IdCall
  <2>2. CASE \E n \in 1..2 : nanosleep(c, n)
    BY <2>2, LeaveKeptIdle DEF nanosleep, IdCall
  <2> QED BY <1>2, <2>1, <2>2
<1>3. ASSUME NEW c \in IdCpus, NEW k \in UNION {kicks[d] : d \in IdCpus},
             smp_signal_cpu(c, k) \/ notify_remote_via_evtchn(c, k)
      PROVE  IdleInv'
  BY <1>3, SignalCpuKept, NotifyKept
<1> QED BY <1>1, <1>2, <1>3, TimePassesKept DEF IdNext

\* The invariant says what SleepersWake says.
LEMMA IdleImplies == IdleInv => SleepersWake
  BY DEF IdleInv, IdTyped, IdleSteps, CpuFits, InTime, SleepersWake


-----------------------------------------------------------------------------
(* The parts together *)

\* The inductive invariant: that of the part the behaviour exercises.
KernelInv ==
  /\ component = "locks" => LocksInv
  /\ component = "clock" => ClockInv
  /\ component = "grants" => GrantsInv /\ gntBug \in BOOLEAN
  /\ component = "maps" => MapsInv
  /\ component = "idle" => IdleInv

\* It holds initially.
LEMMA KernelStart == Init => KernelInv
  BY LocksStart, ClockStart, GrantsStart, MapsStart, IdleBegins DEF Init, KernelInv

\* Every step keeps it.
LEMMA KernelStep == KernelInv /\ [Next]_vars => KernelInv'
<1> SUFFICES ASSUME KernelInv, [Next]_vars PROVE KernelInv'
  OBVIOUS
<1>1. CASE UNCHANGED vars
  <2>1. /\ component' = component /\ UNCHANGED lkVars /\ UNCHANGED ckVars /\ UNCHANGED gntVars /\ UNCHANGED gmVars
        /\ UNCHANGED idVars
    BY <1>1 DEF vars, control, granting
  <2> QED BY <2>1, LocksStay, ClockStays, GrantsStay, MapsStay, IdleStays DEF KernelInv, gntVars
<1>2. CASE Next
  <2>1. /\ component' = component
        /\ component = "locks" => LkNext
        /\ component = "clock" => CkNext
        /\ component = "grants" => GntNext
        /\ component = "maps" => GmNext
        /\ component = "idle" => IdNext
    BY <1>2 DEF Next
  <2> QED BY <2>1, LocksStep, ClockNext, GrantsNext, MapsNext, IdleNext DEF KernelInv
<1> QED BY <1>1, <1>2

\* The invariant holds throughout.
LEMMA KernelInvariant == Spec => []KernelInv
<1>1. Init => KernelInv
  BY KernelStart
<1>2. KernelInv /\ [Next]_vars => KernelInv'
  BY KernelStep
<1> QED BY <1>1, <1>2, PTL DEF Spec

\* A spin lock has one holder, which keeps its processor until it has released
\* the lock, and no context waits for a lock that its own processor holds
\* (os_spin_lock, os_spin_lock_irqsave, preempt_disable, mutex_try_lock), for
\* any number of processors, threads and locks.
THEOREM SpinLocksExclude == Spec => []LocksAreHeld
<1>1. KernelInv => LocksAreHeld
  BY LocksImply DEF KernelInv, LocksAreHeld, Of
<1> QED BY <1>1, KernelInvariant, PTL

\* monotonic_clock and gettimeofday compute a time from values of one update,
\* whatever Xen and the timer interrupt write between their loads.
THEOREM TimeIsOfOneUpdate == Spec => []ClockIsRight
<1>1. KernelInv => ClockIsRight
  BY ClockImplies DEF KernelInv, ClockIsRight, Of
<1> QED BY <1>1, KernelInvariant, PTL

\* A grant is written before it is seen and freed after it is unmapped
\* (gnttab.c), and a mapping is recorded as long as it exists (gntmap.c).
THEOREM GrantsAreAccountedFor == Spec => []GrantsAreKept
<1>1. KernelInv => GrantsAreKept
  BY GrantsImply, MapsImply DEF KernelInv, GrantsAreKept, Of
<1> QED BY <1>1, KernelInvariant, PTL

\* An event that was signalled is handled, no port stays masked, and a processor
\* that sleeps is woken in time (do_hypervisor_callback, do_event, bind_evtchn,
\* idle_thread_fn, block_domain), for any processors, threads and ports of which
\* the callback scans all: it looks at 32 bits of a word (hypervisor.c:80).
THEOREM EventsAlwaysHandled ==
  ASSUME ScannedPorts
  PROVE  Spec => []EventsAreHandled
<1> DEFINE I == component = "events" => EventsInv
<1>1. Init => I
  BY EventsStart DEF Init
<1>2. I /\ [Next]_vars => I'
  <2> SUFFICES ASSUME I, [Next]_vars PROVE I'
    OBVIOUS
  <2>1. CASE UNCHANGED vars
    BY <2>1, EventsStay DEF vars, control
  <2>2. CASE Next
    <3>1. component' = component /\ (component = "events" => EvNext)
      BY <2>2 DEF Next
    <3> QED BY <3>1, EventsNext
  <2> QED BY <2>1, <2>2
<1>3. I /\ KernelInv => EventsAreHandled
  BY EventsImply, IdleImplies DEF KernelInv, EventsAreHandled, Of
<1> QED BY <1>1, <1>2, <1>3, KernelInvariant, PTL DEF Spec
=============================================================================
