------------------------------- MODULE MCPte -------------------------------
(* TLC instance of the POSIX threads library's synchronisation objects:    *)
(* each behaviour exercises one of them.                                   *)
EXTENDS PteLocks, PteSem, PteCond, PteMeet

CONSTANTS p1, p2, p3

Bound(a, b, c) == [t \in PThreads |-> CASE t = p1 -> a [] t = p2 -> b [] t = p3 -> c]
PteCalls ==
  [mutex |-> Bound(2, 1, 1), sem |-> Bound(2, 1, 1), cond |-> Bound(3, 2, 1),
   rwlock |-> Bound(2, 1, 1), barrier |-> Bound(3, 2, 1), once |-> Bound(1, 1, 1),
   spin |-> Bound(2, 1, 1)]

vars == <<commonVars, mxVars, smVars, cvVars, rwVars, brVars, onVars, spVars>>

Init ==
  /\ \E c \in DOMAIN MaxCalls : CommonInit(c)
  /\ MxVarsInit /\ (component # "mutex" => mxPtr = "object" /\ mxKind = "normal")
  /\ SmVarsInit /\ (component # "sem" => smValue = 0)
  /\ CvVarsInit /\ (component # "cond" => cvPtr = "object")
  /\ RwVarsInit /\ (component # "rwlock" => rwPtr = "object")
  /\ BrVarsInit
  /\ OnVarsInit
  /\ SpVarsInit /\ (component # "spin" => spCpus)

Next ==
  \/ /\ component = "mutex" /\ MutexNext
     /\ UNCHANGED <<smVars, cvVars, rwVars, brVars, onVars, spVars>>
  \/ /\ component = "sem" /\ SemNext
     /\ UNCHANGED <<mxVars, cvVars, rwVars, brVars, onVars, spVars>>
  \/ /\ component = "cond" /\ CondNext
     /\ UNCHANGED <<mxVars, smVars, rwVars, brVars, onVars, spVars>>
  \/ /\ component = "rwlock" /\ RwNext
     /\ UNCHANGED <<mxVars, smVars, cvVars, brVars, onVars, spVars>>
  \/ /\ component = "barrier" /\ BarrierNext
     /\ UNCHANGED <<mxVars, smVars, cvVars, rwVars, onVars, spVars>>
  \/ /\ component = "once" /\ OnceNext
     /\ UNCHANGED <<mxVars, smVars, cvVars, rwVars, brVars, spVars>>
  \/ /\ component = "spin" /\ SpinNext
     /\ UNCHANGED <<mxVars, smVars, cvVars, rwVars, brVars, onVars>>

\* The next step of a thread's call, and the calls that give back what the
\* thread holds.
Step(t) ==
  \/ MutexStep(t) \/ SemStep(t) \/ CondStep(t) \/ RwStep(t)
  \/ BarrierStep(t) \/ OnceStep(t) \/ SpinStep(t)
held == <<pc, mxHeld, cvMutex, rwHeld, spHeld>>
GiveBack(t) ==
  \/ mxHeld[t] > 0 /\ UnlockCall(t) /\ UNCHANGED <<cvMutex, rwHeld, spHeld>>
  \/ UnlockUser(t) /\ UNCHANGED <<mxHeld, rwHeld, spHeld>>
  \/ RwUnlock(t) /\ UNCHANGED <<mxHeld, cvMutex, spHeld>>
  \/ SpinUnlock(t) /\ UNCHANGED <<mxHeld, cvMutex, rwHeld>>

\* Threads are scheduled and give back the locks they hold; calls that are
\* never made are allowed.
Spec ==
  /\ Init /\ [][Next]_vars
  /\ \A t \in PThreads : WF_commonVars(Step(t)) /\ WF_held(GiveBack(t))

\* Calls that wait for another thread to do something it may never do.
MayBlock(t) == component \in {"sem", "cond", "barrier"} /\ op[t] = "wait"

\* t has one of the locks that the library takes for itself inside condition
\* variables and read-write locks, and no write lock to which it belongs.
HasInnerLock(t) ==
  \/ component = "cond" /\ t \in {cvUnblock, cvList}
  \/ component = "rwlock" /\ t \in {rwMtxE, rwMtxS} /\ rwHeld[t] # "w"

\* A thread that was cancelled at a wait of the library has taken one with it.
LockTakenAway == \E u \in PThreads : pc[u] = "exited" /\ HasInnerLock(u)

\* Nobody returns from the library with one of its locks, so that others can go
\* on (pte_cond_unblock, pthread_cond_destroy, pthread_rwlock_unlock), unless
\* such a lock was taken away for good: pthread_cond_destroy that finds
\* mtxUnblockLock locked keeps pte_cond_list_lock.
LocksComeBack ==
  (\E t \in PThreads : pc[t] = "idle" /\ HasInnerLock(t)) => LockTakenAway

\* Every other call returns: whoever waits for a lock is woken once holders
\* let go, whoever signals gets past the gate, a caller of pthread_once is
\* woken when the routine is done or its thread was cancelled.  Only a lock
\* that was taken away can keep a call for ever.
CallReturns ==
  \A t \in PThreads :
    (pc[t] # "idle" /\ ~MayBlock(t)) ~>
       \/ pc[t] \in {"idle", "exited"} \/ onBug \/ LockTakenAway

\* Mutexes, read-write locks and spin locks exclude, whatever mix of blocking,
\* timed and try calls, static initialisation and destruction the threads run.
LocksExclude == MutexExclusion /\ RwExclusion /\ SpinExclusion

\* Threads that meet stay in step: the rounds of a barrier, where whoever is
\* counted in stays and no permit is taken in another round, whoever is
\* cancelled; and the callers of pthread_once around the one that runs the
\* routine (pthread_barrier_wait, pthread_once).
CallersMeet == BarrierLockstep /\ CountedInStay /\ PermitsAreOwn /\ OnceRunsOnce
=============================================================================
