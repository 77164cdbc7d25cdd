----------------------------- MODULE Semaphores -----------------------------
(***************************************************************************)
(* The OSAL counting semaphore (semaphores.c) over the spin mutex that     *)
(* guards it (mutexes.c, spinlock.c) and the scheduler operations it uses  *)
(* to put a thread to sleep and to wake it: hibernate, restore and         *)
(* schedule (sched.c).  Threads may also be suspended and resumed by other *)
(* threads at any moment (suspension.c), which touches the same flags.     *)
(*                                                                         *)
(* The critical sections of sem->mutex are atomic steps between taking and *)
(* releasing it: every access to value and head is made with it held.      *)
(*                                                                         *)
(* The flags of a thread are one word.  Most updates of it are made under  *)
(* ready_lock, but those of RESCHED_FLAG and RUNNING_FLAG by the processor *)
(* that executes the thread, or has just left it, are not.  Compiled to a  *)
(* load and a store, such an update writes back the flags modelled here as *)
(* they were at the load.                                                  *)
(***************************************************************************)
EXTENDS Integers, Sequences, FiniteSets

CONSTANTS
  Threads,        \* the threads that use the semaphore
  NoThread,       \* "no owner" of the spin mutex
  InitialValue,   \* the argument of semaphore_create
  NumCpus,        \* processors that can execute threads
  MaxOps,         \* bound: semaphore calls and suspensions made by all threads
  MaxTorn         \* bound: flag updates that others may come between

ASSUME ThreadsAssumption == IsFiniteSet(Threads) /\ NoThread \notin Threads
ASSUME ValueAssumption   == InitialValue \in Nat
ASSUME BoundsAssumption  == NumCpus \in Nat \ {0} /\ MaxOps \in Nat /\ MaxTorn \in Nat

VARIABLES
  owner,        \* sem->mutex->lock->owner: who holds the spin mutex
  value,        \* sem->value
  head,         \* sem->head: the list of waiting threads, oldest first
  runnable,     \* threads with RUNNABLE_FLAG
  hibernating,  \* threads with HIBERNATION_FLAG
  suspended,    \* threads with SUSPENDED_FLAG
  ready,        \* threads linked on ready_queue
  onCpu,        \* threads executing on a processor
  leaving,      \* threads switched out whose RUNNING_FLAG is still to be cleared
  copy,         \* flag words loaded by an update that has not stored them yet
  torn,         \* updates of flags made in two steps so far
  undone,       \* whether such a store has undone another processor's update
  pc,           \* the next step of each thread
  ops,          \* calls and suspensions made so far
  posts,        \* completed increments of the semaphore
  acquired      \* pends and try_pends that have obtained a permit

semVars   == <<value, head, posts, acquired>>
schedVars == <<runnable, hibernating, suspended, ready>>
cpuVars   == <<onCpu, leaving, copy, torn, undone>>
vars      == <<owner, semVars, schedVars, cpuVars, pc, ops>>

\* The flag word of t, as far as it is modelled.
Flags == [runnable : BOOLEAN, hibernating : BOOLEAN, suspended : BOOLEAN]
FlagsOf(t) == [runnable |-> t \in runnable, hibernating |-> t \in hibernating,
               suspended |-> t \in suspended]

Calls == {"pend", "post", "try", "count"}
Steps == {"idle", "pend", "post", "try", "count", "unlock", "unlock_sched",
          "schedule", "switched_out"}

\* Threads blocked in semaphore_pend: enqueued, from hibernate() to the
\* return of schedule().
InPend == {t \in Threads : pc[t] \in {"unlock_sched", "schedule", "switched_out"}}

IsWaiting(t) == \E i \in 1..Len(head) : head[i] = t

Init ==
  /\ owner = NoThread
  /\ value = InitialValue
  /\ head = << >>
  /\ runnable = Threads
  /\ hibernating = {}
  /\ suspended = {}
  /\ ready = Threads
  /\ onCpu = {} /\ leaving = {}
  /\ copy = [t \in Threads |-> {}]
  /\ torn = 0 /\ undone = FALSE
  /\ pc = [t \in Threads |-> "idle"]
  /\ ops = 0
  /\ posts = 0
  /\ acquired = 0

-----------------------------------------------------------------------------
(* The scheduler as its clients see it: a thread executes from the moment  *)
(* pick_thread chooses it until it calls schedule() or is preempted, which *)
(* spin locks forbid.                                                      *)

\* The processor of t executes t, and no update of its flags is half done.
Executing(t) == t \in onCpu /\ copy[t] = {}

\* pick_thread: only a runnable thread on the ready queue is switched in, by a
\* processor that has done with the thread it left.  A flag that was undone can
\* make the code link a linked node, after which the queue may lead to any thread.
Dispatch(t) ==
  /\ t \notin onCpu \cup leaving
  /\ t \in runnable /\ (t \in ready \/ undone)
  /\ Cardinality(onCpu \cup leaving) < NumCpus
  /\ onCpu' = onCpu \cup {t}
  /\ IF pc[t] = "switched_out"
       THEN /\ pc' = [pc EXCEPT ![t] = "idle"]
            /\ acquired' = acquired + 1
       ELSE UNCHANGED <<pc, acquired>>
  /\ UNCHANGED <<owner, value, head, posts, schedVars, leaving, copy, torn, undone, ops>>

\* switch_threads: t is no longer executed, its processor has still to clear
\* its RUNNING_FLAG.
SwitchOut(t) ==
  onCpu' = onCpu \ {t} /\ leaving' = leaving \cup {t} /\ UNCHANGED <<copy, torn, undone>>

\* preempt_schedule: a timer interrupt takes the processor away, unless the
\* thread holds the spin mutex (preempt_count > 0).
Preempt(t) ==
  /\ Executing(t)
  /\ owner # t
  /\ pc[t] # "switched_out"
  /\ SwitchOut(t)
  /\ UNCHANGED <<owner, semVars, schedVars, pc, ops>>

\* The call of schedule() at the end of hibernate_thread.
Schedule(t) ==
  /\ Executing(t)
  /\ pc[t] = "schedule"
  /\ SwitchOut(t)
  /\ pc' = [pc EXCEPT ![t] = "switched_out"]
  /\ UNCHANGED <<owner, semVars, schedVars, ops>>

\* sched_switch_thread_in: clear_running(prev) when nobody comes in between.  It
\* changes none of the flags modelled.
ClearRunning(t) ==
  /\ t \in leaving /\ copy[t] = {}
  /\ leaving' = leaving \ {t}
  /\ UNCHANGED <<owner, semVars, schedVars, onCpu, copy, torn, undone, pc, ops>>

\* The load of an update outside ready_lock: clear_running(prev), or, while t
\* executes, set_need_resched by the timer interrupt and clear_need_resched by
\* schedule().
LoadFlags(t) ==
  /\ t \in onCpu \cup leaving /\ copy[t] = {} /\ torn < MaxTorn
  /\ torn' = torn + 1
  /\ copy' = [copy EXCEPT ![t] = {FlagsOf(t)}]
  /\ UNCHANGED <<owner, semVars, schedVars, onCpu, leaving, undone, pc, ops>>

\* S with t in it exactly when b.
Put(S, t, b) == IF b THEN S \cup {t} ELSE S \ {t}

\* The store: the other flags are again what they were at the load.  For a
\* thread that was left this was clear_running, and the processor goes on.
StoreFlags(t) ==
  \E w \in copy[t] :
    /\ runnable' = Put(runnable, t, w.runnable)
    /\ hibernating' = Put(hibernating, t, w.hibernating)
    /\ suspended' = Put(suspended, t, w.suspended)
    /\ copy' = [copy EXCEPT ![t] = {}]
    /\ leaving' = leaving \ {t}
    /\ undone' = (undone \/ w # FlagsOf(t))
    /\ UNCHANGED <<owner, semVars, ready, onCpu, torn, pc, ops>>

\* suspend_thread, reached from suspend_pthread's checks.
Suspend(t, u) ==
  /\ Executing(t) /\ pc[t] = "idle"
  /\ u # t /\ u \notin suspended
  /\ ops < MaxOps /\ ops' = ops + 1
  /\ suspended' = suspended \cup {u}
  /\ runnable' = runnable \ {u}
  /\ ready' = IF u \in hibernating THEN ready ELSE ready \ {u}
  /\ UNCHANGED <<owner, semVars, hibernating, cpuVars, pc>>

\* Mutant: wakes a thread that still hibernates.
Resume_ignores_hibernation(t, u) ==
  /\ Executing(t) /\ pc[t] = "idle"
  /\ u \in suspended
  /\ suspended' = suspended \ {u}
  /\ runnable' = runnable \cup {u}
  /\ ready' = ready \cup {u}
  /\ UNCHANGED <<owner, semVars, hibernating, cpuVars, pc, ops>>

\* wake_suspended_thread, reached from resume_pthread's checks.
Resume(t, u) ==
  /\ Executing(t) /\ pc[t] = "idle"
  /\ u \in suspended
  /\ suspended' = suspended \ {u}
  /\ IF u \in hibernating
       THEN UNCHANGED <<runnable, ready>>
       ELSE /\ runnable' = runnable \cup {u}
            /\ ready' = ready \cup {u}
  /\ UNCHANGED <<owner, semVars, hibernating, cpuVars, pc, ops>>

-----------------------------------------------------------------------------
(* semaphores.c *)

\* A thread enters semaphore_pend, _post, _try_pend or _count.
Call(t, c) ==
  /\ Executing(t)
  /\ pc[t] = "idle"
  /\ ops < MaxOps
  /\ owner = NoThread            \* mutex_lock: the trylock that succeeds
  /\ owner' = t
  /\ pc' = [pc EXCEPT ![t] = c]
  /\ ops' = ops + 1
  /\ UNCHANGED <<semVars, schedVars, cpuVars>>

\* hibernate(thread), with the thread appended to the waiters.
HibernateThread(t) ==
  /\ head' = Append(head, t)
  /\ runnable' = runnable \ {t}
  /\ hibernating' = hibernating \cup {t}
  /\ ready' = IF t \in suspended THEN ready ELSE ready \ {t}

\* Mutants of restore_thread: a suspended waiter is made runnable; the newest
\* waiter is served; the waiter is not linked on the ready queue.
RestoreThread_ignores_suspended ==
  LET w == Head(head) IN
  /\ head' = Tail(head)
  /\ hibernating' = hibernating \ {w}
  /\ runnable' = runnable \cup {w}
  /\ ready' = ready \cup {w}

RestoreThread_newest ==
  LET w == head[Len(head)] IN
  /\ head' = SubSeq(head, 1, Len(head) - 1)
  /\ hibernating' = hibernating \ {w}
  /\ runnable' = IF w \in suspended THEN runnable ELSE runnable \cup {w}
  /\ ready' = IF w \in suspended THEN ready ELSE ready \cup {w}

RestoreThread_unqueued ==
  LET w == Head(head) IN
  /\ head' = Tail(head)
  /\ hibernating' = hibernating \ {w}
  /\ runnable' = IF w \in suspended THEN runnable ELSE runnable \cup {w}
  /\ UNCHANGED ready

\* restore_thread: the oldest waiter is unlinked and restore()d.
RestoreThread ==
  LET w == Head(head) IN
  /\ head' = Tail(head)
  /\ hibernating' = hibernating \ {w}
  /\ IF w \in suspended
       THEN UNCHANGED <<runnable, ready>>
       ELSE /\ runnable' = runnable \cup {w}
            /\ ready' = ready \cup {w}

semaphore_pend(t) ==
  /\ Executing(t)
  /\ pc[t] = "pend"
  /\ value' = value - 1
  /\ IF value - 1 < 0
       THEN /\ HibernateThread(t)
            /\ pc' = [pc EXCEPT ![t] = "unlock_sched"]
            /\ UNCHANGED acquired
       ELSE /\ pc' = [pc EXCEPT ![t] = "unlock"]
            /\ acquired' = acquired + 1
            /\ UNCHANGED <<head, runnable, hibernating, ready>>
  /\ UNCHANGED <<owner, posts, suspended, cpuVars, ops>>

\* Mutant: the post that brings the value back to zero wakes nobody.
semaphore_post_off_by_one(t) ==
  /\ Executing(t)
  /\ pc[t] = "post"
  /\ value' = value + 1
  /\ posts' = posts + 1
  /\ pc' = [pc EXCEPT ![t] = "unlock"]
  /\ IF value + 1 < 0
       THEN RestoreThread
       ELSE UNCHANGED <<head, runnable, hibernating, ready>>
  /\ UNCHANGED <<owner, acquired, suspended, cpuVars, ops>>

semaphore_post(t) ==
  /\ Executing(t)
  /\ pc[t] = "post"
  /\ value' = value + 1
  /\ posts' = posts + 1
  /\ pc' = [pc EXCEPT ![t] = "unlock"]
  /\ IF value + 1 <= 0
       THEN RestoreThread
       ELSE UNCHANGED <<head, runnable, hibernating, ready>>
  /\ UNCHANGED <<owner, acquired, suspended, cpuVars, ops>>

semaphore_try_pend(t) ==
  /\ Executing(t)
  /\ pc[t] = "try"
  /\ pc' = [pc EXCEPT ![t] = "unlock"]
  /\ IF value <= 0
       THEN UNCHANGED <<value, acquired>>
       ELSE /\ value' = value - 1
            /\ acquired' = acquired + 1
  /\ UNCHANGED <<owner, head, posts, schedVars, cpuVars, ops>>

semaphore_count(t) ==
  /\ Executing(t)
  /\ pc[t] = "count"
  /\ pc' = [pc EXCEPT ![t] = "unlock"]
  /\ UNCHANGED <<owner, semVars, schedVars, cpuVars, ops>>

mutex_unlock(t) ==
  /\ Executing(t)
  /\ pc[t] \in {"unlock", "unlock_sched"}
  /\ owner' = NoThread
  /\ pc' = [pc EXCEPT ![t] = IF @ = "unlock" THEN "idle" ELSE "schedule"]
  /\ UNCHANGED <<semVars, schedVars, cpuVars, ops>>

Step(t) ==
  \/ semaphore_pend(t)
  \/ semaphore_post(t)
  \/ semaphore_try_pend(t)
  \/ semaphore_count(t)
  \/ mutex_unlock(t)
  \/ Schedule(t)

Next ==
  \E t \in Threads :
    \/ \E c \in Calls : Call(t, c)
    \/ Step(t)
    \/ Dispatch(t)
    \/ Preempt(t)
    \/ ClearRunning(t)
    \/ LoadFlags(t)
    \/ StoreFlags(t)
    \/ \E u \in Threads : Suspend(t, u) \/ Resume(t, u)

Spec == Init /\ [][Next]_vars

\* A runnable thread is dispatched again and again, because pick_thread serves
\* the ready queue in FIFO order and the timer preempts whoever runs; a time
\* slice (20 ms) is long enough for it to make a step, although it may be
\* preempted between any two.  Nobody is obliged to make a call, to suspend or
\* to resume.
Fairness ==
  /\ \A t \in Threads :
       /\ SF_vars(Step(t)) /\ SF_vars(Dispatch(t))
       /\ WF_vars(ClearRunning(t) \/ StoreFlags(t))
  /\ WF_vars(\E t \in Threads : Preempt(t))

FairSpec == Spec /\ Fairness

-----------------------------------------------------------------------------
(* Properties *)

Max0(n) == IF n < 0 THEN 0 ELSE n

\* Threads whose permit has been handed over but whose pend has not returned.
Granted == {t \in InPend : ~IsWaiting(t)}

\* Every variable has its type.
TypeOK ==
  /\ owner \in Threads \cup {NoThread}
  /\ value \in Int
  /\ head \in Seq(Threads)
  /\ runnable \in SUBSET Threads
  /\ hibernating \in SUBSET Threads
  /\ suspended \in SUBSET Threads
  /\ ready \in SUBSET Threads
  /\ onCpu \in SUBSET Threads
  /\ leaving \in SUBSET Threads
  /\ copy \in [Threads -> SUBSET Flags]
  /\ torn \in Nat /\ undone \in BOOLEAN
  /\ pc \in [Threads -> Steps]
  /\ ops \in Nat
  /\ posts \in Nat
  /\ acquired \in Nat

\* A negative value counts the waiters exactly, so restore_thread never follows
\* a NULL sem->head and no waiter is left behind when the value reaches zero,
\* also when updates of flags are undone.
WaitersMatchValue == Len(head) = Max0(-value)

\* No thread is on the list of waiters twice, and those on it hibernate: neither
\* their flags nor a flag word that is still to be stored let anybody but a post
\* make them runnable.
WaitersSleep ==
  /\ \A i, j \in 1..Len(head) : head[i] = head[j] => i = j
  /\ \A t \in Threads : IsWaiting(t) =>
       /\ t \in hibernating /\ t \notin runnable
       /\ \A w \in copy[t] : w.hibernating /\ ~w.runnable

\* HIBERNATION_FLAG is set for waiters only.
HibernatingAreWaiters == \A t \in hibernating : IsWaiting(t)

\* Whatever suspend, resume, hibernate and restore did in whichever order, a
\* thread is runnable, and linked on the ready queue, exactly when it neither
\* waits for the semaphore nor is suspended: none is lost, none runs early.
\* Only a store that undoes another processor's update ends this: when
\* clear_running(prev) undoes a restore (sched.c:354), the thread is queued but
\* never picked.
ReadyDiscipline ==
  undone \/ (ready = Threads \ (hibernating \cup suspended) /\ runnable = ready)

\* semaphore_pend does not return while its thread still waits.
WaiterStaysInPend == \A t \in Threads : IsWaiting(t) => t \in InPend

\* Permits are conserved: those obtained by returned calls, those in the hands
\* of woken threads and those still available are the initial ones and the posts.
\* A flag word stored late cannot break it: it never makes a waiter runnable.
PermitsAddUp ==
  acquired + Cardinality(Granted) + Max0(value) = InitialValue + posts

\* Permits and waiters are accounted for: no permit is lost or obtained twice, and
\* nobody is left on the list without the value saying so (semaphore_pend,
\* semaphore_post, semaphore_try_pend).
PermitConservation == WaitersMatchValue /\ PermitsAddUp

\* Pends whose permit has been handed over return: as calls come to an end, there
\* comes a time when none is left (hibernate_thread, restore_thread), but of
\* threads that are suspended, unless an update of flags has been undone.
GrantedReturns == []<>(Granted \subseteq suspended \/ undone)

\* The semaphore implements the abstract counting semaphore.
Abstract == INSTANCE CountingSemaphore
              WITH permits <- Max0(value), waiters <- head, granted <- Granted

ImplementsCountingSemaphore == Abstract!AbsSpec
=============================================================================
