------------------------------- MODULE PteMeet -------------------------------
(***************************************************************************)
(* Barriers (posix/pthread_barrier_*.c): a count that the last arrival     *)
(* resets, and two semaphores that alternate from one round to the next.   *)
(* Which one a thread uses it reads from iStep before it counts itself.    *)
(***************************************************************************)
EXTENDS PteCommon

CONSTANTS BarrierHeight, BarrierUsers   \* the count, the threads that use it
ASSUME BarrierAssumption ==
  BarrierHeight \in Nat \ {0} /\ BarrierUsers \subseteq PThreads

VARIABLES
  brHeight,    \* nCurrentBarrierHeight
  brStep,      \* iStep
  brSem,       \* permits of semBarrierBreeched[0..1]
  brLocal,     \* step, a local of each call
  brEntered,   \* rounds each thread has counted itself into
  brSerial     \* PTHREAD_BARRIER_SERIAL_THREAD results

brVars == <<brHeight, brStep, brSem, brLocal, brEntered, brSerial>>

BrVarsInit ==
  /\ brHeight = BarrierHeight /\ brStep = 0
  /\ brSem = [i \in {0, 1} |-> 0]
  /\ brLocal = [t \in PThreads |-> 0]
  /\ brEntered = [t \in PThreads |-> 0]
  /\ brSerial = 0

\* pthread_barrier_wait reads iStep,
BarrierWait(t) ==
  /\ t \in BarrierUsers
  /\ Enter(t, "wait", "br_count")
  /\ brLocal' = [brLocal EXCEPT ![t] = brStep]
  /\ UNCHANGED <<brHeight, brStep, brSem, brEntered, brSerial>>

\* Mutant: the last arrival is taken to be the one that finds one missing.
CountDown_early(t) ==
  /\ pc[t] = "br_count"
  /\ brHeight' = brHeight - 1
  /\ brEntered' = [brEntered EXCEPT ![t] = @ + 1]
  /\ Goto(t, IF brHeight - 1 <= 1 THEN "br_reset" ELSE "br_wait")
  /\ UNCHANGED <<brStep, brSem, brLocal, brSerial>>

\* and counts the thread in.
CountDown(t) ==
  /\ pc[t] = "br_count"
  /\ brHeight' = brHeight - 1
  /\ brEntered' = [brEntered EXCEPT ![t] = @ + 1]
  /\ Goto(t, IF brHeight - 1 = 0 THEN "br_reset" ELSE "br_wait")
  /\ UNCHANGED <<brStep, brSem, brLocal, brSerial>>

\* The last arrival resets the count before it lets the others go.
ResetHeight(t) ==
  /\ pc[t] = "br_reset"
  /\ brHeight' = BarrierHeight
  /\ Goto(t, "br_post")
  /\ UNCHANGED <<brStep, brSem, brLocal, brEntered, brSerial>>
\* Mutant: a permit for the last arrival too.
PostOthers_all(t) ==
  /\ pc[t] = "br_post"
  /\ brSem' = [brSem EXCEPT ![brLocal[t]] = @ + BarrierHeight]
  /\ Goto(t, "br_flip")
  /\ UNCHANGED <<brHeight, brStep, brLocal, brEntered, brSerial>>
PostOthers(t) ==
  /\ pc[t] = "br_post"
  /\ brSem' = [brSem EXCEPT ![brLocal[t]] = @ + BarrierHeight - 1]
  /\ Goto(t, "br_flip")
  /\ UNCHANGED <<brHeight, brStep, brLocal, brEntered, brSerial>>
BarrierPend(t) ==
  /\ pc[t] = "br_wait" /\ brSem[brLocal[t]] > 0
  /\ brSem' = [brSem EXCEPT ![brLocal[t]] = @ - 1]
  /\ Goto(t, "br_flip")
  /\ UNCHANGED <<brHeight, brStep, brLocal, brEntered, brSerial>>

\* sem_wait tests for a cancellation before it pends: the thread leaves, and
\* stays counted in.  Its permit will be posted and nobody takes it.
BarrierCancelled(t) ==
  /\ pc[t] = "br_wait"
  /\ Leaves(t)
  /\ UNCHANGED brVars

\* Mutant: iStep stays as it is, so one semaphore serves every round.
FlipStep_never(t) ==
  /\ pc[t] = "br_flip"
  /\ brSerial' = brSerial + 1
  /\ brLocal' = [brLocal EXCEPT ![t] = 0]
  /\ Return(t)
  /\ UNCHANGED <<brHeight, brStep, brSem, brEntered>>

\* The first thread across flips iStep and is the serial thread.
FlipStep(t) ==
  /\ pc[t] = "br_flip"
  /\ IF brStep = brLocal[t]
       THEN brStep' = 1 - brLocal[t] /\ brSerial' = brSerial + 1
       ELSE UNCHANGED <<brStep, brSerial>>
  /\ brLocal' = [brLocal EXCEPT ![t] = 0]
  /\ Return(t)
  /\ UNCHANGED <<brHeight, brSem, brEntered>>

\* pthread_barrier_destroy and a new pthread_barrier_init, nobody waiting (an
\* application that has lost a thread leaves the barrier alone).
BarrierReinit(t) ==
  /\ \A u \in PThreads : pc[u] = "idle"
  /\ Enter(t, "reinit", "idle")
  /\ brHeight' = BarrierHeight /\ brStep' = 0
  /\ brSem' = [i \in {0, 1} |-> 0]
  /\ UNCHANGED <<brLocal, brEntered, brSerial>>

BarrierStep(t) ==
  CountDown(t) \/ ResetHeight(t) \/ PostOthers(t) \/ BarrierPend(t) \/ FlipStep(t)

BarrierNext ==
  \E t \in PThreads :
    BarrierWait(t) \/ BarrierReinit(t) \/ BarrierStep(t) \/ BarrierCancelled(t)
-----------------------------------------------------------------------------
(* Properties *)

\* Rounds completed by t: the one it is still in, or was cancelled in, does not
\* count.
Passed(t) == IF pc[t] \in {"br_wait", "br_reset", "br_post", "exited"}
               THEN brEntered[t] - 1 ELSE brEntered[t]

\* Lockstep, when the barrier has as many users as its height: nobody passes
\* round r before all have entered it, and there is one serial thread in each
\* round that everybody has left.
BarrierLockstep ==
  component = "barrier" =>
    /\ \A t, u \in BarrierUsers : Passed(t) <= brEntered[u]
    /\ (\A t \in BarrierUsers : pc[t] = "idle") =>
         \A t \in BarrierUsers : brSerial = brEntered[t]

\* While a round fills, those it has counted in are all still waiting for it, so
\* that the last arrival finds the others there, unless one of them was cancelled
\* at the wait that pthread_barrier_wait calls non-cancelable.
CountedInStay ==
  component = "barrier" /\ brHeight \in 1..BarrierHeight =>
    \/ Cardinality({t \in BarrierUsers : pc[t] = "br_wait"}) >= BarrierHeight - brHeight
    \/ \E t \in BarrierUsers : pc[t] = "exited"

\* Permits are posted for the threads that were counted in and for nobody else:
\* each one still there is for a thread that waits for it or that was cancelled,
\* and is never taken by a thread of another round.
PermitsAreOwn ==
  component = "barrier" =>
    \A i \in {0, 1} :
      brSem[i] <= Cardinality({t \in BarrierUsers :
                                 pc[t] \in {"br_wait", "exited"} /\ brLocal[t] = i})

-----------------------------------------------------------------------------
(***************************************************************************)
(* pthread_once (posix/pthread_once.c): the first caller runs the routine, *)
(* the others wait on a semaphore that they create on demand and that the  *)
(* last of them deletes.  A caller cancelled inside the routine puts the   *)
(* state back, and another caller runs it.  Using a semaphore that is NULL *)
(* or deleted is recorded as a bug, at which the machine stops.            *)
(***************************************************************************)

CONSTANT OnceCancels   \* bound: cancellations inside the routine
ASSUME OnceAssumption == OnceCancels \in Nat

VARIABLES
  onState,     \* once_control->state
  onSem,       \* once_control->semaphore: index in onSems, 0 for NULL
  onSems,      \* the semaphores created: their permits, Deleted once deleted
  onUsers,     \* once_control->numSemaphoreUsers
  onLocal,     \* the semaphore and the count each call is about to use
  onRan,       \* completed executions of the routine
  onCancels,   \* cancellations so far
  onBug        \* a NULL or deleted semaphore was used

onShared == <<onState, onSem, onSems, onUsers>>
onVars   == <<onShared, onLocal, onRan, onCancels, onBug>>

INIT == 0
STARTED == 1
DONE == 2
Deleted == -1

OnVarsInit ==
  /\ onState = INIT /\ onSem = 0 /\ onSems = << >> /\ onUsers = 0
  /\ onLocal = [t \in PThreads |-> <<0, 0>>]
  /\ onRan = 0 /\ onCancels = 0 /\ onBug = FALSE

Usable(h) == h # 0 /\ onSems[h] # Deleted

OnceCall(t) ==
  /\ Enter(t, "once", "on_start")
  /\ UNCHANGED onVars

\* The head of the loop: compare-and-exchange INIT by STARTED.
OnceStart(t) ==
  /\ pc[t] = "on_start"
  /\ onState' = IF onState = INIT THEN STARTED ELSE onState
  /\ Goto(t, CASE onState = DONE -> "idle" [] onState = INIT -> "on_run"
               [] onState = STARTED -> "on_count")
  /\ UNCHANGED <<onSem, onSems, onUsers, onLocal, onRan, onCancels, onBug>>

\* The routine returns; DONE is published, then the semaphore is looked for.
RoutineReturns(t) ==
  /\ pc[t] = "on_run"
  /\ onRan' = onRan + 1
  /\ onState' = DONE
  /\ Goto(t, "on_wake")
  /\ UNCHANGED <<onSem, onSems, onUsers, onLocal, onCancels, onBug>>

\* The thread is cancelled in it: pte_once_init_routine_cleanup.
RoutineCancelled(t) ==
  /\ pc[t] = "on_run" /\ onCancels < OnceCancels
  /\ onCancels' = onCancels + 1
  /\ onState' = INIT
  /\ Goto(t, "on_wake_one")
  /\ UNCHANGED <<onSem, onSems, onUsers, onLocal, onRan, onBug>>

\* Wake numSemaphoreUsers threads, or one: the arguments are read,
ReadArguments(t) ==
  /\ pc[t] \in {"on_wake", "on_wake_one"}
  /\ IF onSem # 0
       THEN /\ onLocal' = [onLocal EXCEPT ![t] =
                             <<onSem, IF pc[t] = "on_wake" THEN onUsers ELSE 1>>]
            /\ Goto(t, IF pc[t] = "on_wake" THEN "on_post" ELSE "on_post_one")
       ELSE /\ Goto(t, IF pc[t] = "on_wake" THEN "on_start" ELSE "exited")
            /\ UNCHANGED onLocal
  /\ UNCHANGED <<onShared, onRan, onCancels, onBug>>

\* and the post is made.
OncePost(t) ==
  /\ pc[t] \in {"on_post", "on_post_one"}
  /\ LET h == onLocal[t][1]  n == onLocal[t][2]
     IN  IF n = 0 \/ Usable(h)
           THEN /\ onSems' = [onSems EXCEPT ![h] = @ + n]
                /\ UNCHANGED onBug
           ELSE onBug' = TRUE /\ UNCHANGED onSems
  /\ onLocal' = [onLocal EXCEPT ![t] = <<0, 0>>]
  /\ Goto(t, IF pc[t] = "on_post" THEN "on_start" ELSE "exited")
  /\ UNCHANGED <<onState, onSem, onUsers, onRan, onCancels>>

\* A waiter counts itself, then makes sure that there is a semaphore: the
\* one that loses the compare-and-exchange deletes its own again.
CountUser(t) ==
  /\ pc[t] = "on_count"
  /\ onUsers' = onUsers + 1
  /\ Goto(t, "on_sem")
  /\ UNCHANGED <<onState, onSem, onSems, onLocal, onRan, onCancels, onBug>>
TestSemaphore(t) ==
  /\ pc[t] = "on_sem"
  /\ Goto(t, IF onSem = 0 THEN "on_create" ELSE "on_recheck")
  /\ UNCHANGED onVars
CreateSemaphore(t) ==
  /\ pc[t] = "on_create"
  /\ IF onSem = 0
       THEN onSems' = Append(onSems, 0) /\ onSem' = Len(onSems) + 1
       ELSE UNCHANGED <<onSems, onSem>>
  /\ Goto(t, "on_recheck")
  /\ UNCHANGED <<onState, onUsers, onLocal, onRan, onCancels, onBug>>

\* The state is looked at again before the wait.
RecheckState(t) ==
  /\ pc[t] = "on_recheck"
  /\ Goto(t, IF onState = STARTED THEN "on_enter" ELSE "on_leave")
  /\ UNCHANGED onVars
EnterPend(t) ==
  /\ pc[t] = "on_enter"
  /\ onLocal' = [onLocal EXCEPT ![t] = <<onSem, 0>>]
  /\ onBug' = ~Usable(onSem)
  /\ Goto(t, "on_pend")
  /\ UNCHANGED <<onShared, onRan, onCancels>>
OncePend(t) ==
  /\ pc[t] = "on_pend"
  /\ LET h == onLocal[t][1]
     IN  IF Usable(h)
           THEN onSems[h] > 0 /\ onSems' = [onSems EXCEPT ![h] = @ - 1] /\ UNCHANGED onBug
           ELSE onBug' = TRUE /\ UNCHANGED onSems
  /\ onLocal' = [onLocal EXCEPT ![t] = <<0, 0>>]
  /\ Goto(t, "on_leave")
  /\ UNCHANGED <<onState, onSem, onUsers, onRan, onCancels>>

\* The last waiter takes the semaphore out and deletes it.
UncountUser(t) ==
  /\ pc[t] = "on_leave"
  /\ onUsers' = onUsers - 1
  /\ Goto(t, IF onUsers = 1 THEN "on_delete" ELSE "on_start")
  /\ UNCHANGED <<onState, onSem, onSems, onLocal, onRan, onCancels, onBug>>
DeleteSemaphore(t) ==
  /\ pc[t] = "on_delete"
  /\ onSem' = 0
  /\ onSems' = IF onSem = 0 THEN onSems ELSE [onSems EXCEPT ![onSem] = Deleted]
  /\ Goto(t, "on_start")
  /\ UNCHANGED <<onState, onUsers, onLocal, onRan, onCancels, onBug>>

OnceStep(t) ==
  /\ ~onBug
  /\ \/ OnceStart(t) \/ RoutineReturns(t) \/ ReadArguments(t) \/ OncePost(t)
     \/ CountUser(t) \/ TestSemaphore(t) \/ CreateSemaphore(t) \/ RecheckState(t)
     \/ EnterPend(t) \/ OncePend(t) \/ UncountUser(t) \/ DeleteSemaphore(t)

OnceNext ==
  \E t \in PThreads :
    OnceStep(t) \/ (~onBug /\ (OnceCall(t) \/ RoutineCancelled(t)))
-----------------------------------------------------------------------------
(* Properties *)

\* The routine completes once, however callers and cancellations interleave,
\* two threads are never in it, and a call returns only after it completed.
OnceRunsOnce ==
  component = "once" =>
    /\ onRan <= 1
    /\ Cardinality({t \in PThreads : pc[t] = "on_run"}) <= (IF onState = STARTED THEN 1 ELSE 0)
    /\ \A t \in PThreads : pc[t] = "idle" /\ calls[t] < MaxCalls["once"][t] => onRan = 1
=============================================================================
