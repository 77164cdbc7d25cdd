------------------------------ MODULE PteCond ------------------------------
(***************************************************************************)
(* Condition variables (posix/pthread_cond_*.c).  semBlockLock is a gate   *)
(* that is closed while signalled waiters are on their way out; waiters    *)
(* sleep on semBlockQueue; mtxUnblockLock guards the counts of waiters.    *)
(* The condition variables are linked on a list under pte_cond_list_lock.  *)
(* The waits for semBlockLock are sem_wait, at whose head a cancelled      *)
(* thread leaves: with whatever it has locked by then.                     *)
(* Semaphores and mutexes are used through what PteSem and PteLocks        *)
(* establish for them: a wait takes a permit, a lock excludes.             *)
(***************************************************************************)
EXTENDS PteCommon

CONSTANTS
  HalfIntMax,       \* INT_MAX / 2: waiters gone before they are subtracted
  BusyAtDestroy     \* may signals and timed-out waits be under way when the
                    \* variable is destroyed?
ASSUME HalfIntMaxAssumption == HalfIntMax \in Nat \ {0} /\ BusyAtDestroy \in BOOLEAN

VARIABLES
  cvPtr,         \* *cond: "static", "object" or "null"
  cvBlocked,     \* nWaitersBlocked
  cvToUnblock,   \* nWaitersToUnblock
  cvGone,        \* nWaitersGone
  cvGate,        \* permits of semBlockLock: 1 open, 0 closed
  cvQueue,       \* permits of semBlockQueue
  cvUnblock,     \* holder of mtxUnblockLock
  cvMutex,       \* holder of the application's mutex
  cvList,        \* holder of pte_cond_list_lock
  cvN            \* nSignalsToIssue, nSignalsWasLeft: a local of each call

cvCounts == <<cvBlocked, cvToUnblock, cvGone>>
cvLocks  == <<cvGate, cvQueue, cvUnblock, cvMutex, cvList>>
cvVars   == <<cvPtr, cvCounts, cvLocks, cvN>>

CvVarsInit ==
  /\ cvPtr \in {"static", "object"}
  /\ cvBlocked = 0 /\ cvToUnblock = 0 /\ cvGone = 0
  /\ cvGate = 1 /\ cvQueue = 0
  /\ cvUnblock = NoPThread /\ cvMutex = NoPThread /\ cvList = NoPThread
  /\ cvN = [t \in PThreads |-> 0]

Destroying == \E t \in PThreads : op[t] = "destroy"

\* The application's mutex, taken around a wait and around some signals.
LockUser(t) ==
  /\ cvMutex = NoPThread
  /\ Enter(t, "lock", "idle")
  /\ cvMutex' = t
  /\ UNCHANGED <<cvPtr, cvCounts, cvGate, cvQueue, cvUnblock, cvList, cvN>>
UnlockUser(t) ==
  /\ cvMutex = t /\ pc[t] = "idle"
  /\ cvMutex' = NoPThread
  /\ UNCHANGED <<commonVars, cvPtr, cvCounts, cvGate, cvQueue, cvUnblock, cvList, cvN>>

\* pthread_cond_wait, pthread_cond_timedwait, with the mutex held.
CondWait(t, o) ==
  /\ cvMutex = t /\ cvPtr # "null" /\ ~Destroying
  /\ Enter(t, o, IF cvPtr = "static" THEN "cv_need_init" ELSE "cv_gate")
  /\ UNCHANGED cvVars

pthread_cond_wait(t) == CondWait(t, "wait")
pthread_cond_timedwait(t) == CondWait(t, "timedwait")

\* pte_cond_check_need_init and pthread_cond_init, which links the new
\* variable on the list; one thread at a time under pte_cond_test_init_lock.
CondCheckNeedInit(t) ==
  /\ pc[t] = "cv_need_init" /\ cvList = NoPThread
  /\ cvPtr' = "object"
  /\ Goto(t, "cv_gate")
  /\ UNCHANGED <<cvCounts, cvLocks, cvN>>

\* sem_wait (semBlockLock); ++nWaitersBlocked; sem_post (semBlockLock).
PassGate(t) ==
  /\ pc[t] = "cv_gate" /\ cvGate = 1
  /\ cvGate' = 0
  /\ Goto(t, "cv_count")
  /\ UNCHANGED <<cvPtr, cvCounts, cvQueue, cvUnblock, cvMutex, cvList, cvN>>
CountWaiter(t) ==
  /\ pc[t] = "cv_count"
  /\ cvBlocked' = cvBlocked + 1
  /\ cvGate' = 1
  /\ Goto(t, "cv_unlock")
  /\ UNCHANGED <<cvPtr, cvToUnblock, cvGone, cvQueue, cvUnblock, cvMutex, cvList, cvN>>

\* The mutex is released only now that the waiter is counted.
ReleaseUser(t) ==
  /\ pc[t] = "cv_unlock"
  /\ cvMutex' = NoPThread
  /\ Goto(t, "cv_queue")
  /\ UNCHANGED <<cvPtr, cvCounts, cvGate, cvQueue, cvUnblock, cvList, cvN>>

\* sem_timedwait (semBlockQueue): woken, or the time has passed.
Woken(t) ==
  /\ pc[t] = "cv_queue" /\ cvQueue > 0
  /\ cvQueue' = cvQueue - 1
  /\ Goto(t, "cv_cleanup")
  /\ UNCHANGED <<cvPtr, cvCounts, cvGate, cvUnblock, cvMutex, cvList, cvN>>
TimedOut(t) ==
  /\ pc[t] = "cv_queue" /\ op[t] = "timedwait" /\ cvQueue = 0
  /\ Goto(t, "cv_cleanup")
  /\ UNCHANGED cvVars

\* The waiter is cancelled: before it pends, or in a timed pend, whose own
\* handler takes a permit that came in between.  Both go on in the handler.
WaitCancelled(t) ==
  /\ pc[t] = "cv_queue"
  /\ pc' = [pc EXCEPT ![t] = "cv_cleanup"]
  /\ op' = [op EXCEPT ![t] = "cancelled"]
  /\ \/ UNCHANGED cvQueue
     \/ op[t] = "timedwait" /\ cvQueue > 0 /\ cvQueue' = cvQueue - 1
  /\ UNCHANGED <<component, calls, cvPtr, cvCounts, cvGate, cvUnblock, cvMutex, cvList, cvN>>

\* mtxUnblockLock, for the cleanup handler of a wait and for a signal.
LockUnblock(t) ==
  /\ pc[t] \in {"cv_cleanup", "cv_signal"} /\ cvUnblock = NoPThread
  /\ cvUnblock' = t
  /\ Goto(t, IF pc[t] = "cv_cleanup" THEN "cv_leave" ELSE "cv_select")
  /\ UNCHANGED <<cvPtr, cvCounts, cvGate, cvQueue, cvMutex, cvList, cvN>>

\* pte_cond_wait_cleanup: the waiter uses up one of the signals on their way,
\* or counts itself gone.
LeaveCounts(t) ==
  /\ pc[t] = "cv_leave"
  /\ cvN' = [cvN EXCEPT ![t] = cvToUnblock]
  /\ IF cvToUnblock # 0
       THEN /\ cvToUnblock' = cvToUnblock - 1
            /\ Goto(t, "cv_left") /\ UNCHANGED cvGone
       ELSE /\ cvGone' = cvGone + 1
            /\ Goto(t, IF cvGone + 1 = HalfIntMax THEN "cv_fold" ELSE "cv_left")
            /\ UNCHANGED cvToUnblock
  /\ UNCHANGED <<cvPtr, cvBlocked, cvLocks>>

\* Too many gone: subtract them with the gate closed, and open it.
FoldGone(t) ==
  /\ pc[t] = "cv_fold" /\ cvGate = 1
  /\ cvBlocked' = cvBlocked - cvGone
  /\ cvGone' = 0
  /\ Goto(t, "cv_left")
  /\ UNCHANGED <<cvPtr, cvToUnblock, cvLocks, cvN>>

\* Mutant: a waiter to whom no signal is owed opens the gate too.
UnlockAfterLeave_early(t) ==
  /\ pc[t] = "cv_left"
  /\ cvUnblock' = NoPThread
  /\ Goto(t, IF cvN[t] <= 1 THEN "cv_open" ELSE "cv_relock")
  /\ UNCHANGED <<cvPtr, cvCounts, cvGate, cvQueue, cvMutex, cvList, cvN>>

\* The last of the signalled waiters opens the gate.
UnlockAfterLeave(t) ==
  /\ pc[t] = "cv_left"
  /\ cvUnblock' = NoPThread
  /\ Goto(t, IF cvN[t] = 1 THEN "cv_open" ELSE "cv_relock")
  /\ UNCHANGED <<cvPtr, cvCounts, cvGate, cvQueue, cvMutex, cvList, cvN>>
OpenGate(t) ==
  /\ pc[t] = "cv_open"
  /\ cvGate' = cvGate + 1
  /\ Goto(t, "cv_relock")
  /\ UNCHANGED <<cvPtr, cvCounts, cvQueue, cvUnblock, cvMutex, cvList, cvN>>
Relock(t) ==
  /\ pc[t] = "cv_relock" /\ cvMutex = NoPThread
  /\ cvN' = [cvN EXCEPT ![t] = 0]
  /\ IF op[t] = "cancelled"
       THEN Leaves(t) /\ UNCHANGED cvMutex   \* the application's handler unlocks
       ELSE Return(t) /\ cvMutex' = t
  /\ UNCHANGED <<cvPtr, cvCounts, cvGate, cvQueue, cvUnblock, cvList>>

\* pthread_cond_signal and broadcast; nothing to do before the first wait.
CondSignal(t, o) ==
  /\ ~Destroying /\ cvPtr # "null"
  /\ Enter(t, o, IF cvPtr = "static" THEN "idle" ELSE "cv_signal")
  /\ UNCHANGED cvVars

pthread_cond_signal(t) == CondSignal(t, "signal")
pthread_cond_broadcast(t) == CondSignal(t, "broadcast")

\* Mutant: the return with nobody to wake forgets to unlock.
SelectWaiters_keeps(t) ==
  /\ pc[t] = "cv_select"
  /\ IF cvToUnblock # 0 /\ cvBlocked # 0
       THEN /\ LET n == IF op[t] = "broadcast" THEN cvBlocked ELSE 1
               IN  /\ cvToUnblock' = cvToUnblock + n
                   /\ cvBlocked' = cvBlocked - n
                   /\ cvN' = [cvN EXCEPT ![t] = n]
            /\ Goto(t, "cv_unblocked")
       ELSE /\ IF cvToUnblock = 0 /\ cvBlocked > cvGone THEN Goto(t, "cv_close") ELSE Return(t)
            /\ UNCHANGED <<cvToUnblock, cvBlocked, cvN>>
  /\ UNCHANGED <<cvPtr, cvGone, cvLocks>>

\* pte_cond_unblock under mtxUnblockLock.  With signals on their way the gate
\* is closed and the counts are its own to change; otherwise close it first.
SelectWaiters(t) ==
  /\ pc[t] = "cv_select"
  /\ LET n == IF op[t] = "broadcast" THEN cvBlocked ELSE 1
     IN  IF cvToUnblock # 0 /\ cvBlocked # 0
           THEN /\ cvToUnblock' = cvToUnblock + n
                /\ cvBlocked' = cvBlocked - n
                /\ cvN' = [cvN EXCEPT ![t] = n]
                /\ Goto(t, "cv_unblocked") /\ UNCHANGED cvUnblock
           ELSE /\ IF cvToUnblock = 0 /\ cvBlocked > cvGone
                     THEN Goto(t, "cv_close") /\ UNCHANGED cvUnblock
                     ELSE Return(t) /\ cvUnblock' = NoPThread
                /\ UNCHANGED <<cvToUnblock, cvBlocked, cvN>>
  /\ UNCHANGED <<cvPtr, cvGone, cvGate, cvQueue, cvMutex, cvList>>
CloseGate(t) ==
  /\ pc[t] = "cv_close" /\ cvGate = 1
  /\ cvGate' = 0
  /\ Goto(t, "cv_take")
  /\ UNCHANGED <<cvPtr, cvCounts, cvQueue, cvUnblock, cvMutex, cvList, cvN>>
TakeWaiters(t) ==
  /\ pc[t] = "cv_take"
  /\ LET b == cvBlocked - cvGone
         n == IF op[t] = "broadcast" THEN b ELSE 1
     IN  /\ cvToUnblock' = n
         /\ cvBlocked' = b - n
         /\ cvN' = [cvN EXCEPT ![t] = n]
  /\ cvGone' = 0
  /\ Goto(t, "cv_unblocked")
  /\ UNCHANGED <<cvPtr, cvLocks>>

\* Unlock, and only then post the signals.
UnlockAfterSelect(t) ==
  /\ pc[t] = "cv_unblocked"
  /\ cvUnblock' = NoPThread
  /\ Goto(t, "cv_post")
  /\ UNCHANGED <<cvPtr, cvCounts, cvGate, cvQueue, cvMutex, cvList, cvN>>
PostSignals(t) ==
  /\ pc[t] = "cv_post"
  /\ cvQueue' = cvQueue + cvN[t]
  /\ cvN' = [cvN EXCEPT ![t] = 0]
  /\ Return(t)
  /\ UNCHANGED <<cvPtr, cvCounts, cvGate, cvUnblock, cvMutex, cvList>>

\* A cancellation at one of the waits for semBlockLock.  Nothing is undone:
\* a signaller, or a waiter about to fold the counts, keeps mtxUnblockLock, and
\* pthread_cond_destroy keeps pte_cond_list_lock.  The application's mutex, if
\* the thread has it, is unlocked by the application's own handler.  In the
\* handler of a cancelled wait further cancellations are disabled.
CancelledAtGate(t) ==
  /\ op[t] # "cancelled"
  /\ pc[t] \in {"cv_gate", "cv_fold", "cv_close", "cv_destroy_gate"}
  /\ Leaves(t)
  /\ cvMutex' = IF cvMutex = t THEN NoPThread ELSE cvMutex
  /\ UNCHANGED <<cvPtr, cvCounts, cvGate, cvQueue, cvUnblock, cvList, cvN>>

\* Everybody inside is a waiter that has been signalled and need only leave.
OnlySignalledInside ==
  LET inside == {u \in PThreads : pc[u] \in {"cv_queue", "cv_cleanup", "cv_leave"}}
  IN  /\ Cardinality(inside) <= cvToUnblock
      /\ \A u \in PThreads \ inside :
           \/ pc[u] \in {"idle", "exited", "cv_relock"}
           \/ pc[u] \in {"cv_left", "cv_open"} /\ cvN[u] > 0

\* pthread_cond_destroy, called when no waiter is left to be signalled and,
\* unless BusyAtDestroy, nobody is inside who has not been signalled.  A
\* static initialiser becomes NULL.
CondDestroy(t) ==
  /\ cvPtr # "null" /\ cvMutex # t /\ ~Destroying
  /\ cvBlocked = cvGone
  /\ \A u \in PThreads : pc[u] \notin {"cv_need_init", "cv_gate", "cv_count"}
  /\ BusyAtDestroy \/ OnlySignalledInside
  /\ Enter(t, "destroy", IF cvPtr = "static" THEN "idle" ELSE "cv_list")
  /\ cvPtr' = IF cvPtr = "static" THEN "null" ELSE cvPtr
  /\ UNCHANGED <<cvCounts, cvLocks, cvN>>
LockList(t) ==
  /\ pc[t] = "cv_list" /\ cvList = NoPThread
  /\ cvList' = t
  /\ Goto(t, "cv_destroy_gate")
  /\ UNCHANGED <<cvPtr, cvCounts, cvGate, cvQueue, cvUnblock, cvMutex, cvN>>
DestroyGate(t) ==
  /\ pc[t] = "cv_destroy_gate" /\ cvGate = 1
  /\ cvGate' = 0
  /\ Goto(t, "cv_destroy_try")
  /\ UNCHANGED <<cvPtr, cvCounts, cvQueue, cvUnblock, cvMutex, cvList, cvN>>

\* trylock of mtxUnblockLock: the EBUSY return opens the gate and keeps
\* pte_cond_list_lock.
DestroyBusy(t) ==
  /\ pc[t] = "cv_destroy_try" /\ cvUnblock # NoPThread
  /\ cvGate' = 1
  /\ Return(t)
  /\ UNCHANGED <<cvPtr, cvCounts, cvQueue, cvUnblock, cvMutex, cvList, cvN>>

\* Waiters that are not gone: EBUSY with everything put back.  Otherwise the
\* variable is unlinked and freed.
DestroyFree(t) ==
  /\ pc[t] = "cv_destroy_try" /\ cvUnblock = NoPThread
  /\ IF cvBlocked > cvGone
       THEN cvGate' = 1 /\ UNCHANGED cvPtr
       ELSE cvPtr' = "null" /\ UNCHANGED cvGate
  /\ cvList' = NoPThread
  /\ Return(t)
  /\ UNCHANGED <<cvCounts, cvQueue, cvUnblock, cvMutex, cvN>>

CondStep(t) ==
  \/ CondCheckNeedInit(t) \/ PassGate(t) \/ CountWaiter(t) \/ ReleaseUser(t)
  \/ Woken(t) \/ TimedOut(t) \/ LockUnblock(t)
  \/ LeaveCounts(t) \/ FoldGone(t) \/ UnlockAfterLeave(t) \/ OpenGate(t) \/ Relock(t)
  \/ SelectWaiters(t) \/ CloseGate(t) \/ TakeWaiters(t)
  \/ UnlockAfterSelect(t) \/ PostSignals(t)
  \/ LockList(t) \/ DestroyGate(t) \/ DestroyBusy(t) \/ DestroyFree(t)

CondNext ==
  \E t \in PThreads :
    \/ LockUser(t) \/ UnlockUser(t)
    \/ pthread_cond_wait(t) \/ pthread_cond_timedwait(t)
    \/ pthread_cond_signal(t) \/ pthread_cond_broadcast(t)
    \/ CondDestroy(t)
    \/ WaitCancelled(t) \/ CancelledAtGate(t)
    \/ CondStep(t)
-----------------------------------------------------------------------------
(* Properties *)

UsesCond(t) == pc[t] \in {"cv_gate", "cv_count", "cv_unlock", "cv_queue", "cv_cleanup",
                          "cv_leave", "cv_fold", "cv_left", "cv_open", "cv_signal",
                          "cv_select", "cv_close", "cv_take", "cv_unblocked", "cv_post"}

\* A signal stays owed until its waiter has gone: the gate is closed exactly
\* while signals are on their way, a count is being made or the variable is
\* being destroyed, so late waiters cannot steal the signals of earlier ones; and
\* a destroyed variable is one nobody is still going to touch.  So it is with
\* threads cancelled at any wait of theirs and at any wait of the library.
CondGate ==
  component = "cond" =>
    /\ cvGate \in {0, 1}
    /\ cvToUnblock > 0 => cvGate = 0
    /\ cvBlocked >= 0 /\ cvToUnblock >= 0
    /\ cvPtr = "null" => \A t \in PThreads : ~UsesCond(t)
=============================================================================
