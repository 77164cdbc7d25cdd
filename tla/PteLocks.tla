------------------------------ MODULE PteLocks ------------------------------
(***************************************************************************)
(* pthread mutexes (posix/pthread_mutex_*.c): lock_idx is 0 when the mutex *)
(* is free, 1 when it is locked and -1 when it is locked and somebody may  *)
(* sleep on the mutex's semaphore.  The three kinds, static initialisers,  *)
(* timed and try locks, and destruction followed by a new initialisation.  *)
(***************************************************************************)
EXTENDS PteCommon

VARIABLES
  mxPtr,     \* *mutex: "static" (an initialiser), "object" or "null"
  mxKind,    \* mx->kind, or the kind the static initialiser stands for
  mxIdx,     \* mx->lock_idx
  mxSem,     \* permits of mx->handle
  mxOwner,   \* mx->ownerThread
  mxCount,   \* mx->recursive_count
  mxHeld     \* locks each thread has obtained and not given back

mxState == <<mxIdx, mxOwner, mxCount>>
mxVars  == <<mxPtr, mxKind, mxIdx, mxSem, mxOwner, mxCount, mxHeld>>

MxKinds == {"normal", "errorcheck", "recursive"}

MxVarsInit ==
  /\ mxPtr \in {"static", "object"}
  /\ mxKind \in MxKinds
  /\ mxIdx = 0 /\ mxSem = 0 /\ mxOwner = NoPThread /\ mxCount = 0
  /\ mxHeld = [t \in PThreads |-> 0]

\* pthread_mutex_init on a destroyed mutex: a fresh object of some kind.
MutexInit(t) ==
  /\ mxPtr = "null" /\ Alone(t)
  /\ Enter(t, "init", "idle")
  /\ mxPtr' = "object"
  /\ mxKind' \in MxKinds
  /\ mxIdx' = 0 /\ mxSem' = 0 /\ mxOwner' = NoPThread /\ mxCount' = 0
  /\ UNCHANGED mxHeld

\* A locking call looks at *mutex: only pthread_mutex_lock tests for NULL.
\* An application does not relock a normal mutex it holds.
MutexCall(t, o) ==
  /\ mxPtr = "null" => o = "lock"
  /\ mxKind = "normal" => mxHeld[t] = 0
  /\ Enter(t, o, CASE mxPtr = "null" -> "idle"
                   [] mxPtr = "static" -> "mx_need_init"
                   [] mxPtr = "object" -> "mx_first")
  /\ UNCHANGED mxVars

pthread_mutex_lock(t) == MutexCall(t, "lock")
pthread_mutex_timedlock(t) == MutexCall(t, "timedlock")
pthread_mutex_trylock(t) == MutexCall(t, "trylock")

\* pte_mutex_check_need_init, under pte_mutex_test_init_lock: the first
\* thread to get there creates the object.
MutexCheckNeedInit(t) ==
  /\ pc[t] = "mx_need_init"
  /\ Goto(t, IF mxPtr = "null" THEN "idle" ELSE "mx_first")
  /\ mxPtr' = IF mxPtr = "static" THEN "object" ELSE mxPtr
  /\ UNCHANGED <<mxKind, mxIdx, mxSem, mxOwner, mxCount, mxHeld>>

\* lock and timedlock of a normal mutex: exchange lock_idx with 1.
NormalFirst(t) ==
  /\ pc[t] = "mx_first" /\ mxKind = "normal" /\ op[t] # "trylock"
  /\ mxIdx' = 1
  /\ IF mxIdx = 0
       THEN Return(t) /\ mxHeld' = [mxHeld EXCEPT ![t] = 1]
       ELSE Goto(t, "mx_exchange") /\ UNCHANGED mxHeld
  /\ UNCHANGED <<mxPtr, mxKind, mxSem, mxOwner, mxCount>>

\* Every other first attempt: compare-and-exchange 0 by 1.
CompareFirst(t) ==
  /\ pc[t] = "mx_first" /\ (mxKind # "normal" \/ op[t] = "trylock")
  /\ IF mxIdx = 0
       THEN /\ mxIdx' = 1
            /\ IF mxKind = "normal"
                 THEN Return(t) /\ mxHeld' = [mxHeld EXCEPT ![t] = 1]
                 ELSE Goto(t, "mx_own") /\ UNCHANGED mxHeld
       ELSE /\ Goto(t, IF mxKind = "normal" \/ (op[t] = "trylock" /\ mxKind # "recursive")
                         THEN "idle" ELSE "mx_owner_test")
            /\ UNCHANGED <<mxIdx, mxHeld>>
  /\ UNCHANGED <<mxPtr, mxKind, mxSem, mxOwner, mxCount>>

\* The thread that obtained lock_idx records itself as the owner.
MutexOwn(t) ==
  /\ pc[t] = "mx_own"
  /\ Return(t)
  /\ mxCount' = 1 /\ mxOwner' = t
  /\ mxHeld' = [mxHeld EXCEPT ![t] = 1]
  /\ UNCHANGED <<mxPtr, mxKind, mxIdx, mxSem>>

\* The mutex was taken: by the caller itself (one more level, or EDEADLK),
\* or by another thread (EBUSY for trylock).
OwnerTest(t) ==
  /\ pc[t] = "mx_owner_test"
  /\ LET again == mxOwner = t /\ mxKind = "recursive"
     IN  /\ Goto(t, IF mxOwner = t \/ op[t] = "trylock" THEN "idle" ELSE "mx_exchange")
         /\ mxCount' = IF again THEN mxCount + 1 ELSE mxCount
         /\ mxHeld' = IF again THEN [mxHeld EXCEPT ![t] = @ + 1] ELSE mxHeld
  /\ UNCHANGED <<mxPtr, mxKind, mxIdx, mxSem, mxOwner>>

\* Mutant: the waiting loop exchanges lock_idx with 1, like the first attempt.
ExchangeMinusOne_forgets(t) ==
  /\ pc[t] = "mx_exchange"
  /\ mxIdx' = 1
  /\ IF mxIdx # 0
       THEN Goto(t, "mx_pend") /\ UNCHANGED mxHeld
       ELSE IF mxKind = "normal"
              THEN Return(t) /\ mxHeld' = [mxHeld EXCEPT ![t] = 1]
              ELSE Goto(t, "mx_own") /\ UNCHANGED mxHeld
  /\ UNCHANGED <<mxPtr, mxKind, mxSem, mxOwner, mxCount>>

\* The head of the waiting loop: exchange lock_idx with -1.
ExchangeMinusOne(t) ==
  /\ pc[t] = "mx_exchange"
  /\ mxIdx' = -1
  /\ IF mxIdx # 0
       THEN Goto(t, "mx_pend") /\ UNCHANGED mxHeld
       ELSE IF mxKind = "normal"
              THEN Return(t) /\ mxHeld' = [mxHeld EXCEPT ![t] = 1]
              ELSE Goto(t, "mx_own") /\ UNCHANGED mxHeld
  /\ UNCHANGED <<mxPtr, mxKind, mxSem, mxOwner, mxCount>>

\* pte_osSemaphorePend returns with a permit.
MutexPend(t) ==
  /\ pc[t] = "mx_pend" /\ mxSem > 0
  /\ mxSem' = mxSem - 1
  /\ Goto(t, "mx_exchange")
  /\ UNCHANGED <<mxPtr, mxKind, mxState, mxHeld>>

\* pte_timed_eventwait: a try_pend failed and the time has passed.  lock_idx
\* keeps the -1 of the thread that gave up.
TimedEventwaitExpires(t) ==
  /\ pc[t] = "mx_pend" /\ op[t] = "timedlock" /\ mxSem = 0
  /\ Return(t)
  /\ UNCHANGED mxVars

\* pthread_mutex_unlock of a mutex the thread holds, or (the kinds with an
\* owner) of one that it does not.
UnlockCall(t) ==
  /\ mxPtr = "object"
  /\ \/ mxHeld[t] > 0 /\ EnterFree(t, "unlock", "mx_unlock")
     \/ mxHeld[t] = 0 /\ mxKind # "normal" /\ Enter(t, "unlock", "mx_unlock")
  /\ UNCHANGED mxVars

\* The kinds with an owner: EPERM for others, one level less, or the last one.
MutexUnlock(t) ==
  /\ pc[t] = "mx_unlock" /\ mxKind # "normal"
  /\ LET level == IF mxKind = "recursive" THEN mxCount - 1 ELSE 0
     IN  IF mxOwner # t
           THEN Return(t) /\ UNCHANGED <<mxOwner, mxCount, mxHeld>>
           ELSE /\ mxCount' = IF mxKind = "recursive" THEN level ELSE mxCount
                /\ mxHeld' = [mxHeld EXCEPT ![t] = @ - 1]
                /\ mxOwner' = IF level = 0 THEN NoPThread ELSE mxOwner
                /\ Goto(t, IF level = 0 THEN "mx_release" ELSE "idle")
  /\ UNCHANGED <<mxPtr, mxKind, mxIdx, mxSem>>

\* lock_idx back to 0; somebody may sleep if it was -1.
MutexRelease(t) ==
  /\ \/ pc[t] = "mx_unlock" /\ mxKind = "normal"
     \/ pc[t] = "mx_release"
  /\ mxIdx' = 0
  /\ mxHeld' = [mxHeld EXCEPT ![t] = 0]
  /\ Goto(t, IF mxIdx < 0 THEN "mx_post" ELSE "idle")
  /\ UNCHANGED <<mxPtr, mxKind, mxSem, mxOwner, mxCount>>

MutexPost(t) ==
  /\ pc[t] = "mx_post"
  /\ mxSem' = mxSem + 1
  /\ Return(t)
  /\ UNCHANGED <<mxPtr, mxKind, mxState, mxHeld>>

\* pthread_mutex_destroy when no other thread is inside a call (its comment
\* says it is not safe otherwise): trylock, then *mutex = NULL, unlock and
\* free; EBUSY if the mutex is held, with the level of an owner that destroys
\* its own recursive mutex put back.  A static initialiser becomes NULL.
MutexDestroy(t) ==
  /\ mxPtr # "null" /\ Alone(t)
  /\ Enter(t, "destroy", "idle")
  /\ mxPtr' = IF mxPtr = "static" \/ mxIdx = 0 THEN "null" ELSE mxPtr
  /\ UNCHANGED <<mxKind, mxIdx, mxSem, mxOwner, mxCount, mxHeld>>

MutexStep(t) ==
  \/ MutexCheckNeedInit(t)
  \/ NormalFirst(t) \/ CompareFirst(t) \/ MutexOwn(t) \/ OwnerTest(t)
  \/ ExchangeMinusOne(t) \/ MutexPend(t) \/ TimedEventwaitExpires(t)
  \/ MutexUnlock(t) \/ MutexRelease(t) \/ MutexPost(t)

MutexNext ==
  \E t \in PThreads :
    \/ MutexInit(t) \/ MutexDestroy(t)
    \/ pthread_mutex_lock(t) \/ pthread_mutex_timedlock(t) \/ pthread_mutex_trylock(t)
    \/ UnlockCall(t)
    \/ MutexStep(t)
-----------------------------------------------------------------------------
(* Properties *)

MxHolders == {t \in PThreads : mxHeld[t] > 0 \/ pc[t] \in {"mx_own", "mx_release"}}

\* Mutual exclusion whatever mix of lock, timedlock, trylock, unlock and
\* static initialisation the threads run: one holder, and lock_idx says so.
MutexExclusion ==
  component = "mutex" =>
    /\ Cardinality(MxHolders) <= 1
    /\ MxHolders # {} <=> mxIdx # 0

-----------------------------------------------------------------------------
(***************************************************************************)
(* pthread spin locks (posix/pthread_spin_*.c).  Created while several     *)
(* processors are active the lock is a word the callers spin on; created   *)
(* on one processor it is a mutex, and every operation finds that out from *)
(* the same word.                                                          *)
(***************************************************************************)

VARIABLES
  spPtr,     \* *lock: "static", "object" or "null"
  spCpus,    \* smp_num_active() > 1, which may change at any time
  spWord,    \* s->interlock: "unlocked", "locked" or "use_mutex"
  spMutex,   \* holder of s->u.mutex
  spHeld     \* threads that hold the lock

spVars == <<spPtr, spCpus, spWord, spMutex, spHeld>>

SpVarsInit ==
  /\ spPtr = "static"
  /\ spCpus \in BOOLEAN
  /\ spWord = "unlocked" /\ spMutex = NoPThread /\ spHeld = {}

\* What pthread_spin_init makes of the number of processors.
FreshWord == IF spCpus THEN "unlocked" ELSE "use_mutex"

ProcessorsChange ==
  /\ spCpus' = ~spCpus
  /\ UNCHANGED <<commonVars, spPtr, spWord, spMutex, spHeld>>

SpinInit(t) ==
  /\ spPtr = "null" /\ Alone(t)
  /\ Enter(t, "init", "idle")
  /\ spPtr' = "object" /\ spWord' = FreshWord
  /\ UNCHANGED <<spCpus, spMutex, spHeld>>

SpinCall(t, o) ==
  /\ t \notin spHeld
  /\ Enter(t, o, CASE spPtr = "null" -> "idle" [] spPtr = "static" -> "sp_need_init"
                   [] spPtr = "object" -> "sp_word")
  /\ UNCHANGED spVars

pthread_spin_lock(t) == SpinCall(t, "lock")
pthread_spin_trylock(t) == SpinCall(t, "trylock")

\* pte_spinlock_check_need_init, under pte_spinlock_test_init_lock.
SpinCheckNeedInit(t) ==
  /\ pc[t] = "sp_need_init"
  /\ Goto(t, IF spPtr = "null" THEN "idle" ELSE "sp_word")
  /\ IF spPtr = "static" THEN spPtr' = "object" /\ spWord' = FreshWord
                         ELSE UNCHANGED <<spPtr, spWord>>
  /\ UNCHANGED <<spCpus, spMutex, spHeld>>

\* Compare-and-exchange unlocked by locked; lock spins while it is locked,
\* trylock is EBUSY.
SpinWord(t) ==
  /\ pc[t] = "sp_word"
  /\ spWord = "locked" => op[t] = "trylock"
  /\ IF spWord = "unlocked"
       THEN spWord' = "locked" /\ spHeld' = spHeld \cup {t}
       ELSE UNCHANGED <<spWord, spHeld>>
  /\ Goto(t, IF spWord = "use_mutex" THEN "sp_mutex" ELSE "idle")
  /\ UNCHANGED <<spPtr, spCpus, spMutex>>

SpinMutex(t) ==
  /\ pc[t] = "sp_mutex"
  /\ spMutex # NoPThread => op[t] = "trylock"
  /\ IF spMutex = NoPThread
       THEN spMutex' = t /\ spHeld' = spHeld \cup {t}
       ELSE UNCHANGED <<spMutex, spHeld>>
  /\ Return(t)
  /\ UNCHANGED <<spPtr, spCpus, spWord>>

\* Compare-and-exchange locked by unlocked, or unlock the mutex.
SpinUnlock(t) ==
  /\ t \in spHeld
  /\ EnterFree(t, "unlock", "idle")
  /\ spHeld' = spHeld \ {t}
  /\ IF spWord = "use_mutex" THEN spMutex' = NoPThread /\ UNCHANGED spWord
                             ELSE spWord' = "unlocked" /\ UNCHANGED spMutex
  /\ UNCHANGED <<spPtr, spCpus>>

\* A held lock is not destroyed: EINVAL, or EBUSY from the mutex.
SpinDestroy(t) ==
  /\ spPtr # "null" /\ Alone(t)
  /\ Enter(t, "destroy", "idle")
  /\ spPtr' = IF spPtr = "object" /\ (spWord = "locked" \/ spMutex # NoPThread)
                THEN spPtr ELSE "null"
  /\ UNCHANGED <<spCpus, spWord, spMutex, spHeld>>

SpinStep(t) == SpinCheckNeedInit(t) \/ SpinWord(t) \/ SpinMutex(t)

SpinNext ==
  \/ ProcessorsChange
  \/ \E t \in PThreads :
       \/ SpinInit(t) \/ SpinDestroy(t) \/ SpinUnlock(t) \/ SpinStep(t)
       \/ pthread_spin_lock(t) \/ pthread_spin_trylock(t)
-----------------------------------------------------------------------------
(* Properties *)

\* One holder, although the number of processors may change between the
\* creation of the lock and its use, and two threads may race to create it.
SpinExclusion ==
  component = "spin" => Cardinality(spHeld) <= 1 /\ (spHeld # {} => spPtr = "object")

-----------------------------------------------------------------------------
(***************************************************************************)
(* Read-write locks (posix/pthread_rwlock_*.c).  A reader passes           *)
(* mtxExclusiveAccess and counts itself; a writer keeps                    *)
(* mtxExclusiveAccess and mtxSharedAccessCompleted, and waits on a         *)
(* condition variable until the readers that were ahead of it have         *)
(* counted themselves out.  Mutexes exclude (PteLocks); a signal wakes the *)
(* one writer that can be waiting, which may also wake for nothing.        *)
(* The increments of the counters are indivisible here; timedrdlock makes  *)
(* one without the mutex that guards the counter.                          *)
(***************************************************************************)

CONSTANT RwIntMax    \* INT_MAX: readers counted in before the counts are reduced
ASSUME RwIntMaxAssumption == RwIntMax \in Nat /\ RwIntMax > 1

VARIABLES
  rwPtr,      \* *rwlock: "static", "object" or "null"
  rwShared,   \* nSharedAccessCount
  rwDone,     \* nCompletedSharedAccessCount
  rwExcl,     \* nExclusiveAccessCount
  rwMtxE,     \* holder of mtxExclusiveAccess
  rwMtxS,     \* holder of mtxSharedAccessCompleted
  rwSignal,   \* cndSharedAccessCompleted: a signal on its way to the writer
  rwHeld      \* what each thread holds: "none", "r" or "w"

rwCounts == <<rwShared, rwDone, rwExcl>>
rwVars   == <<rwPtr, rwCounts, rwMtxE, rwMtxS, rwSignal, rwHeld>>

RwVarsInit ==
  /\ rwPtr \in {"static", "object"}
  /\ rwShared = 0 /\ rwDone = 0 /\ rwExcl = 0
  /\ rwMtxE = NoPThread /\ rwMtxS = NoPThread /\ rwSignal = FALSE
  /\ rwHeld = [t \in PThreads |-> "none"]

RdOps == {"rdlock", "timedrdlock", "tryrdlock"}

\* pthread_rwlock_init after a destroy.
RwInit(t) ==
  /\ rwPtr = "null" /\ Alone(t)
  /\ Enter(t, "init", "idle")
  /\ rwPtr' = "object"
  /\ rwShared' = 0 /\ rwDone' = 0 /\ rwExcl' = 0
  /\ UNCHANGED <<rwSignal, rwMtxE, rwMtxS, rwHeld>>

\* A locking call of a thread that holds nothing; a NULL lock is EINVAL.
RwCall(t, o) ==
  /\ rwHeld[t] = "none"
  /\ Enter(t, o, CASE rwPtr = "null" -> "idle"
                   [] rwPtr = "static" -> "rw_need_init"
                   [] rwPtr = "object" -> "rw_E")
  /\ UNCHANGED rwVars

pthread_rwlock_rdlock(t) == RwCall(t, "rdlock")
pthread_rwlock_timedrdlock(t) == RwCall(t, "timedrdlock")
pthread_rwlock_tryrdlock(t) == RwCall(t, "tryrdlock")
pthread_rwlock_wrlock(t) == RwCall(t, "wrlock")
pthread_rwlock_timedwrlock(t) == RwCall(t, "timedwrlock")
pthread_rwlock_trywrlock(t) == RwCall(t, "trywrlock")

\* pte_rwlock_check_need_init, under pte_rwlock_test_init_lock.
RwCheckNeedInit(t) ==
  /\ pc[t] = "rw_need_init"
  /\ rwPtr' = IF rwPtr = "static" THEN "object" ELSE rwPtr
  /\ Goto(t, IF rwPtr = "null" THEN "idle" ELSE "rw_E")
  /\ UNCHANGED <<rwSignal, rwCounts, rwMtxE, rwMtxS, rwHeld>>

LockE(t) ==
  /\ pc[t] = "rw_E" /\ rwMtxE = NoPThread
  /\ rwMtxE' = t
  /\ Goto(t, IF op[t] \in RdOps THEN "rw_enter" ELSE "rw_S")
  /\ UNCHANGED <<rwSignal, rwPtr, rwCounts, rwMtxS, rwHeld>>

\* EBUSY of a try, ETIMEDOUT of a timed lock.
FailE(t) ==
  /\ pc[t] = "rw_E" /\ rwMtxE # NoPThread
  /\ op[t] \in {"tryrdlock", "trywrlock", "timedrdlock", "timedwrlock"}
  /\ Return(t)
  /\ UNCHANGED rwVars

\* A reader counts itself in.
EnterShared(t) ==
  /\ pc[t] = "rw_enter"
  /\ rwShared' = rwShared + 1
  /\ Goto(t, IF rwShared + 1 = RwIntMax THEN "rw_S" ELSE "rw_entered")
  /\ UNCHANGED <<rwSignal, rwPtr, rwDone, rwExcl, rwMtxE, rwMtxS, rwHeld>>

LockS(t) ==
  /\ pc[t] = "rw_S" /\ rwMtxS = NoPThread
  /\ rwMtxS' = t
  /\ Goto(t, IF op[t] \in RdOps THEN "rw_reduce" ELSE "rw_write")
  /\ UNCHANGED <<rwSignal, rwPtr, rwCounts, rwMtxE, rwHeld>>

\* A timed or try lock that does not get mtxSharedAccessCompleted gives
\* mtxExclusiveAccess back; a reader counts itself out as well.
FailS(t) ==
  /\ pc[t] = "rw_S" /\ rwMtxS # NoPThread
  /\ op[t] \in {"timedrdlock", "timedwrlock", "trywrlock"}
  /\ rwDone' = IF op[t] = "timedrdlock" THEN rwDone + 1 ELSE rwDone
  /\ rwMtxE' = NoPThread
  /\ Return(t)
  /\ UNCHANGED <<rwSignal, rwPtr, rwShared, rwExcl, rwMtxS, rwHeld>>

\* The count reached INT_MAX: take off the readers that have left.
ReduceCounts(t) ==
  /\ pc[t] = "rw_reduce"
  /\ rwShared' = rwShared - rwDone /\ rwDone' = 0
  /\ rwMtxS' = NoPThread
  /\ Goto(t, "rw_entered")
  /\ UNCHANGED <<rwSignal, rwPtr, rwExcl, rwMtxE, rwHeld>>

ReadLocked(t) ==
  /\ pc[t] = "rw_entered"
  /\ rwMtxE' = NoPThread
  /\ rwHeld' = [rwHeld EXCEPT ![t] = "r"]
  /\ Return(t)
  /\ UNCHANGED <<rwSignal, rwPtr, rwCounts, rwMtxS>>

\* A writer with both mutexes takes off the readers that have left.  With
\* readers still inside, a try gives everything back; the others turn the
\* count of readers into a count-down and wait, without mtxSharedAccess-
\* Completed.
WriteOrWait(t) ==
  /\ pc[t] = "rw_write"
  /\ LET left == IF rwDone > 0 THEN rwShared - rwDone ELSE rwShared
         done == IF rwDone > 0 THEN 0 ELSE rwDone
     IN  \/ /\ left = 0
            /\ rwShared' = 0 /\ rwDone' = done /\ rwExcl' = rwExcl + 1
            /\ rwHeld' = [rwHeld EXCEPT ![t] = "w"]
            /\ Return(t)
            /\ UNCHANGED <<rwMtxE, rwMtxS>>
         \/ /\ left > 0 /\ op[t] = "trywrlock"
            /\ rwShared' = left /\ rwDone' = done
            /\ rwMtxE' = NoPThread /\ rwMtxS' = NoPThread
            /\ Return(t)
            /\ UNCHANGED <<rwExcl, rwHeld>>
         \/ /\ left > 0 /\ op[t] # "trywrlock"
            /\ rwShared' = left /\ rwDone' = -left
            /\ rwMtxS' = NoPThread
            /\ Goto(t, "rw_wait")
            /\ UNCHANGED <<rwExcl, rwMtxE, rwHeld>>
  /\ UNCHANGED <<rwPtr, rwSignal>>

\* pthread_cond_wait comes back with mtxSharedAccessCompleted: somebody has
\* signalled, or (timed) time is up, in which case a signal that came too
\* late stays behind and wakes the next writer for nothing.
WriterWakes(t) ==
  /\ pc[t] = "rw_wait" /\ rwMtxS = NoPThread
  /\ rwMtxS' = t
  /\ \/ rwSignal /\ rwSignal' = FALSE /\ Goto(t, "rw_woken")
     \/ op[t] = "timedwrlock" /\ Goto(t, "rw_cancelwrwait") /\ UNCHANGED rwSignal
  /\ UNCHANGED <<rwPtr, rwCounts, rwMtxE, rwHeld>>

\* A writer is cancelled in the wait, whose handler relocks as well.
WriterCancelled(t) ==
  /\ pc[t] = "rw_wait" /\ rwMtxS = NoPThread
  /\ rwMtxS' = t
  /\ pc' = [pc EXCEPT ![t] = "rw_cancelwrwait"]
  /\ op' = [op EXCEPT ![t] = "cancelled"]
  /\ UNCHANGED <<component, calls, rwPtr, rwCounts, rwMtxE, rwHeld, rwSignal>>

\* Mutant: one wake-up of the condition variable is taken for the last reader.
WriterRetests_once(t) ==
  /\ pc[t] = "rw_woken"
  /\ rwShared' = 0 /\ rwExcl' = rwExcl + 1
  /\ rwHeld' = [rwHeld EXCEPT ![t] = "w"]
  /\ Return(t)
  /\ UNCHANGED <<rwPtr, rwDone, rwMtxE, rwMtxS, rwSignal>>

\* The loop tests the count-down again after each wake-up.
WriterRetests(t) ==
  /\ pc[t] = "rw_woken"
  /\ IF rwDone < 0
       THEN /\ rwMtxS' = NoPThread
            /\ Goto(t, "rw_wait")
            /\ UNCHANGED <<rwShared, rwExcl, rwHeld>>
       ELSE /\ rwShared' = 0 /\ rwExcl' = rwExcl + 1
            /\ rwHeld' = [rwHeld EXCEPT ![t] = "w"]
            /\ Return(t)
            /\ UNCHANGED rwMtxS
  /\ UNCHANGED <<rwPtr, rwDone, rwMtxE, rwSignal>>

\* pte_rwlock_cancelwrwait, of a writer that gave up or was cancelled: the
\* count-down becomes the readers still inside.
CancelWrwait(t) ==
  /\ pc[t] = "rw_cancelwrwait"
  /\ rwShared' = -rwDone /\ rwDone' = 0
  /\ rwMtxS' = NoPThread /\ rwMtxE' = NoPThread
  /\ IF op[t] = "cancelled" THEN Leaves(t) ELSE Return(t)
  /\ UNCHANGED <<rwSignal, rwPtr, rwExcl, rwHeld>>

\* pthread_rwlock_unlock decides by nExclusiveAccessCount, not by who calls.
RwUnlock(t) ==
  /\ rwHeld[t] # "none"
  /\ EnterFree(t, "unlock", IF rwExcl = 0 THEN "rw_leave" ELSE "idle")
  /\ rwHeld' = [rwHeld EXCEPT ![t] = "none"]
  /\ IF rwExcl = 0
       THEN UNCHANGED <<rwExcl, rwMtxE, rwMtxS>>
       ELSE rwExcl' = rwExcl - 1 /\ rwMtxS' = NoPThread /\ rwMtxE' = NoPThread
  /\ UNCHANGED <<rwSignal, rwPtr, rwShared, rwDone>>

\* A reader counts itself out under mtxSharedAccessCompleted; the last one
\* ahead of a waiting writer signals it (a signal nobody waits for is lost).
LeaveShared(t) ==
  /\ pc[t] = "rw_leave" /\ rwMtxS = NoPThread
  /\ rwDone' = rwDone + 1
  /\ rwSignal' = (rwSignal \/ (rwDone + 1 = 0 /\ \E u \in PThreads : pc[u] = "rw_wait"))
  /\ Return(t)
  /\ UNCHANGED <<rwPtr, rwShared, rwExcl, rwMtxE, rwMtxS, rwHeld>>

\* The last reader is cancelled in pthread_cond_signal (PteCond): it is counted
\* out, sends no signal and keeps mtxSharedAccessCompleted.
LeaverCancelled(t) ==
  /\ pc[t] = "rw_leave" /\ rwMtxS = NoPThread
  /\ rwDone + 1 = 0 /\ \E u \in PThreads : pc[u] = "rw_wait"
  /\ rwDone' = 0
  /\ rwMtxS' = t
  /\ Leaves(t)
  /\ UNCHANGED <<rwPtr, rwShared, rwExcl, rwMtxE, rwHeld, rwSignal>>

\* pthread_rwlock_destroy when no other thread is in a call and nobody has the
\* two mutexes: EBUSY with readers inside.
RwDestroy(t) ==
  /\ rwPtr # "null" /\ Alone(t) /\ rwMtxE = NoPThread /\ rwMtxS = NoPThread
  /\ Enter(t, "destroy", "idle")
  /\ rwPtr' = IF rwExcl > 0 \/ rwShared > rwDone THEN rwPtr ELSE "null"
  /\ UNCHANGED <<rwSignal, rwCounts, rwMtxE, rwMtxS, rwHeld>>

RwStep(t) ==
  \/ RwCheckNeedInit(t) \/ LockE(t) \/ FailE(t) \/ EnterShared(t) \/ LockS(t) \/ FailS(t)
  \/ ReduceCounts(t) \/ ReadLocked(t) \/ WriteOrWait(t) \/ WriterWakes(t)
  \/ WriterRetests(t) \/ CancelWrwait(t) \/ LeaveShared(t)

RwNext ==
  \E t \in PThreads :
    \/ RwInit(t) \/ RwDestroy(t)
    \/ pthread_rwlock_rdlock(t) \/ pthread_rwlock_timedrdlock(t) \/ pthread_rwlock_tryrdlock(t)
    \/ pthread_rwlock_wrlock(t) \/ pthread_rwlock_timedwrlock(t) \/ pthread_rwlock_trywrlock(t)
    \/ RwUnlock(t) \/ WriterCancelled(t) \/ LeaverCancelled(t)
    \/ RwStep(t)
-----------------------------------------------------------------------------
(* Properties *)

Holding(what) == {t \in PThreads : rwHeld[t] = what}

\* Readers that count as inside: those that hold the lock, are about to, or
\* are on their way out.
Inside == Holding("r") \cup {t \in PThreads : pc[t] \in {"rw_entered", "rw_leave"}
                               \/ (op[t] \in RdOps /\ pc[t] \in {"rw_S", "rw_reduce"})}
Waiting == \E t \in PThreads : pc[t] \in {"rw_wait", "rw_woken", "rw_cancelwrwait"}

\* A writer is alone, and the counts tell how many readers are inside, with a
\* writer counting them down, with one that gave up, and across the reduction
\* at INT_MAX.
RwExclusion ==
  component = "rwlock" =>
    /\ Cardinality(Holding("w")) = rwExcl
    /\ Holding("w") # {} => Cardinality(Holding("w")) = 1 /\ Holding("r") = {}
    /\ IF Waiting THEN rwDone = -Cardinality(Inside)
                  ELSE rwShared - rwDone = Cardinality(Inside)
=============================================================================
