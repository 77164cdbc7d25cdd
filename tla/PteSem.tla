------------------------------- MODULE PteSem -------------------------------
(***************************************************************************)
(* POSIX semaphores (posix/sem_*.c).  A semaphore keeps two counts: value, *)
(* under s->lock, and the permits of a platform semaphore, on which a      *)
(* waiter pends after it has let go of s->lock.  The port keeps the two in *)
(* step by always pending and always posting; timeouts and cancellation    *)
(* undo the decrement in a cleanup handler.  A critical section of s->lock *)
(* is one step.                                                            *)
(***************************************************************************)
EXTENDS PteCommon

CONSTANT SEM_VALUE_MAX   \* INT_MAX in the code
ASSUME SemValueMaxAssumption == SEM_VALUE_MAX \in Nat \ {0}

VARIABLES
  smPtr,      \* *sem: "object" or "null"
  smValue,    \* s->value
  smOs,       \* permits of s->sem
  smCancel    \* threads with a cancellation pending

smVars == <<smPtr, smValue, smOs, smCancel>>

SmVarsInit ==
  /\ smPtr = "object"
  /\ smValue \in {0, 1}
  /\ smOs = smValue
  /\ smCancel = {}

\* sem_init: value beyond SEM_VALUE_MAX is EINVAL; both counts start equal.
SemInit(t) ==
  /\ smPtr = "null" /\ Alone(t)
  /\ Enter(t, "init", "idle")
  /\ \E v \in 0..SEM_VALUE_MAX + 1 :
       IF v > SEM_VALUE_MAX
         THEN UNCHANGED smVars
         ELSE smPtr' = "object" /\ smValue' = v /\ smOs' = v /\ UNCHANGED smCancel

\* A call fetches s = *sem; NULL is EINVAL.  A waiting call tests for a
\* cancellation before it does anything, the test for NULL included.
SemCall(t, o) ==
  /\ Enter(t, o, CASE t \in smCancel /\ o \in {"wait", "timedwait"} -> "exited"
                   [] OTHER -> IF smPtr = "null" THEN "idle" ELSE "sm_lock")
  /\ UNCHANGED smVars

sem_wait(t) == SemCall(t, "wait")
sem_timedwait(t) == SemCall(t, "timedwait")
sem_trywait(t) == SemCall(t, "trywait")
sem_post(t) == SemCall(t, "post")
sem_post_multiple(t) == SemCall(t, "post_multiple")

\* sem_wait, sem_timedwait: one less under the lock, then always pend.
SemDecrement(t) ==
  /\ pc[t] = "sm_lock" /\ op[t] \in {"wait", "timedwait"}
  /\ smValue' = smValue - 1
  /\ Goto(t, "sm_pend")
  /\ UNCHANGED <<smPtr, smOs, smCancel>>

\* pte_cancellable_wait comes back with a permit.
SemPend(t) ==
  /\ pc[t] = "sm_pend" /\ smOs > 0
  /\ smOs' = smOs - 1
  /\ Return(t)
  /\ UNCHANGED <<smPtr, smValue, smCancel>>

\* It comes back without: cancelled or timed out.  Only a pend with a
\* timeout looks at either.
SemGiveUp(t) ==
  /\ pc[t] = "sm_pend" /\ op[t] = "timedwait" /\ smOs = 0
  /\ Goto(t, IF t \in smCancel THEN "sm_cleanup_cancel" ELSE "sm_cleanup")
  /\ UNCHANGED smVars

\* Mutant: no second attempt, so a post that raced the timeout is counted twice.
SemCleanup_no_retry(t) ==
  /\ pc[t] \in {"sm_cleanup", "sm_cleanup_cancel"}
  /\ smValue' = IF smValue < 0 THEN smValue + 1 ELSE smValue
  /\ Goto(t, IF pc[t] = "sm_cleanup" THEN "idle" ELSE "exited")
  /\ UNCHANGED <<smPtr, smOs, smCancel>>

\* pte_sem_timedwait_cleanup: a second attempt under the lock takes a post
\* that came in between; otherwise the thread no longer waits.  A cancelled
\* thread leaves for good either way.
SemCleanup(t) ==
  /\ pc[t] \in {"sm_cleanup", "sm_cleanup_cancel"}
  /\ IF smOs > 0
       THEN smOs' = smOs - 1 /\ UNCHANGED smValue
       ELSE smValue' = smValue + 1 /\ UNCHANGED smOs
  /\ Goto(t, IF pc[t] = "sm_cleanup" THEN "idle" ELSE "exited")
  /\ UNCHANGED <<smPtr, smCancel>>

\* sem_trywait asks the platform semaphore, not value.
SemTrywait(t) ==
  /\ pc[t] = "sm_lock" /\ op[t] = "trywait"
  /\ IF smOs > 0
       THEN smOs' = smOs - 1 /\ smValue' = smValue - 1
       ELSE UNCHANGED <<smOs, smValue>>
  /\ Return(t)
  /\ UNCHANGED <<smPtr, smCancel>>

\* sem_post: ERANGE at SEM_VALUE_MAX.
SemPost(t) ==
  /\ pc[t] = "sm_lock" /\ op[t] = "post"
  /\ IF smValue < SEM_VALUE_MAX
       THEN smOs' = smOs + 1 /\ smValue' = smValue + 1
       ELSE UNCHANGED <<smOs, smValue>>
  /\ Return(t)
  /\ UNCHANGED <<smPtr, smCancel>>

\* sem_post_multiple(count): all or nothing; count is at least 1.
SemPostMultiple(t) ==
  /\ pc[t] = "sm_lock" /\ op[t] = "post_multiple"
  /\ \E count \in 1..SEM_VALUE_MAX :
       IF smValue <= SEM_VALUE_MAX - count
         THEN smValue' = smValue + count /\ smOs' = smOs + count
         ELSE UNCHANGED <<smOs, smValue>>
  /\ Return(t)
  /\ UNCHANGED <<smPtr, smCancel>>

\* sem_destroy of a semaphore no other call is using, sleeping waiters apart:
\* EBUSY when value says that threads wait.
SemDestroy(t) ==
  /\ smPtr = "object"
  /\ \A u \in PThreads \ {t} : pc[u] \in {"idle", "exited"} \/ (pc[u] = "sm_pend" /\ smOs = 0)
  /\ Enter(t, "destroy", "idle")
  /\ IF smValue < 0
       THEN UNCHANGED <<smPtr, smValue>>
       ELSE smPtr' = "null" /\ smValue' = SEM_VALUE_MAX
  /\ UNCHANGED <<smOs, smCancel>>

\* pthread_cancel of a thread, at any moment.
SemCancel(t) ==
  /\ pc[t] # "exited"
  /\ smCancel = {}
  /\ smCancel' = {t}
  /\ UNCHANGED <<commonVars, smPtr, smValue, smOs>>

SemStep(t) ==
  \/ SemDecrement(t) \/ SemPend(t) \/ SemGiveUp(t) \/ SemCleanup(t)
  \/ SemTrywait(t) \/ SemPost(t) \/ SemPostMultiple(t)

SemNext ==
  \E t \in PThreads :
    \/ SemInit(t) \/ SemDestroy(t) \/ SemCancel(t)
    \/ sem_wait(t) \/ sem_timedwait(t) \/ sem_trywait(t)
    \/ sem_post(t) \/ sem_post_multiple(t)
    \/ SemStep(t)
-----------------------------------------------------------------------------
(* Properties *)

\* The two counts agree whatever mix of waits, timeouts racing posts,
\* cancellations and try-waits has run: value is the platform count less the
\* threads that have decremented it and not taken their permit.  So the
\* negative values sem_destroy and sem_getvalue rely on are the waiters.
SemCountsAgree ==
  component = "sem" /\ smPtr = "object" =>
    /\ smValue = smOs - Cardinality({t \in PThreads :
                          pc[t] \in {"sm_pend", "sm_cleanup", "sm_cleanup_cancel"}})
    /\ smValue <= SEM_VALUE_MAX
=============================================================================
