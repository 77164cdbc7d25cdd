------------------------------ MODULE PteProofs ------------------------------
(***************************************************************************)
(* Theorems about the synchronisation objects of the POSIX threads         *)
(* library, for every finite set of threads, every number of calls and     *)
(* every value of the limits: an inductive invariant per object, and what  *)
(* MCPte checks as consequences.                                           *)
(*                                                                         *)
(* Each invariant is about behaviours of its own component, so its proof   *)
(* looks at the actions of that object only.                               *)
(***************************************************************************)
EXTENDS MCPte, FiniteSetTheorems, TLAPS

USE PThreadsAssumption

\* One thread more in a set of threads.
LEMMA AddThread ==
  ASSUME NEW S \in SUBSET PThreads, NEW t \in PThreads, t \notin S
  PROVE  /\ Cardinality(S) \in Nat
         /\ Cardinality(S \cup {t}) = Cardinality(S) + 1
<1>1. IsFiniteSet(S)
  BY FS_Subset
<1> QED BY <1>1, FS_AddElement, FS_CardinalityType

\* One thread less in a set of threads.
LEMMA RemoveThread ==
  ASSUME NEW S \in SUBSET PThreads, NEW t \in S
  PROVE  /\ Cardinality(S) \in Nat
         /\ Cardinality(S \ {t}) = Cardinality(S) - 1
         /\ Cardinality(S) >= 1
<1>1. IsFiniteSet(S)
  BY FS_Subset
<1>2. Cardinality(S) # 0
  BY <1>1, FS_EmptySet
<1> QED BY <1>1, <1>2, FS_RemoveElement, FS_CardinalityType

\* Sets of threads are finite, and the empty one is the one with no thread.
LEMMA CountThreads ==
  ASSUME NEW S \in SUBSET PThreads
  PROVE  Cardinality(S) \in Nat /\ (Cardinality(S) = 0 <=> S = {})
<1>1. IsFiniteSet(S)
  BY FS_Subset
<1> QED BY <1>1, FS_EmptySet, FS_CardinalityType

\* A set of which no two threads are members has at most one.
LEMMA AtMostOneThread ==
  ASSUME NEW S \in SUBSET PThreads, \A t, u \in S : t = u
  PROVE  Cardinality(S) <= 1
<1>1. CASE S = {}
  BY <1>1, FS_EmptySet
<1>2. CASE S # {}
  <2>1. PICK t \in S : TRUE
    BY <1>2
  <2>2. S = {t}
    BY <2>1
  <2> QED BY <2>2, FS_Singleton
<1> QED BY <1>1, <1>2

-----------------------------------------------------------------------------
\* Threads that have decremented value and not taken a permit yet.
SemPending == {t \in PThreads : pc[t] \in {"sm_pend", "sm_cleanup", "sm_cleanup_cancel"}}

SemSteps == {"idle", "exited", "sm_lock", "sm_pend", "sm_cleanup", "sm_cleanup_cancel"}
SemOps == {"none", "wait", "timedwait", "trywait", "post", "post_multiple"}

SemTypeOK ==
  /\ pc \in [PThreads -> SemSteps] /\ op \in [PThreads -> SemOps]
  /\ smPtr \in {"object", "null"} /\ smValue \in Int /\ smOs \in Nat

\* The two counts agree while there is a semaphore, and without one nobody is
\* in a call.
SemInv ==
  component = "sem" =>
    /\ SemTypeOK
    /\ smPtr = "object" =>
         smValue = smOs - Cardinality(SemPending) /\ smValue <= SEM_VALUE_MAX
    /\ smPtr = "null" => \A t \in PThreads : pc[t] \in {"idle", "exited"}

\* No step of a semaphore call changes what the behaviour is about.
LEMMA SemKeepsComponent == SemNext => component' = component
  BY DEF SemNext, SemInit, SemDestroy, SemCancel, sem_wait, sem_timedwait,
         sem_trywait, sem_post, sem_post_multiple, SemCall, SemStep, SemDecrement, SemPend,
         SemGiveUp, SemCleanup, SemTrywait, SemPost, SemPostMultiple,
         Enter, Goto, Return, commonVars

\* The invariant of semaphores holds initially: sem_init's two counts are equal.
LEMMA SemInvInit == Init => SemInv
<1> SUFFICES ASSUME Init, component = "sem" PROVE SemInv
  BY DEF SemInv
<1>1. SemPending = {}
  BY DEF Init, CommonInit, SemPending
<1>2. Cardinality(SemPending) = 0
  BY <1>1, FS_EmptySet
<1> QED BY <1>2, SemValueMaxAssumption DEF Init, CommonInit, SemTypeOK, SmVarsInit, SemInv, SemSteps, SemOps

\* Every step of a semaphore call keeps its invariant.
LEMMA SemInvStep ==
  ASSUME SemInv, component = "sem", SemNext
  PROVE  SemInv'
<1> USE SemValueMaxAssumption DEF SemInv, SemSteps, SemOps
<1> SUFFICES ASSUME NEW t \in PThreads,
                    \/ SemInit(t) \/ SemDestroy(t) \/ SemCancel(t)
                    \/ \E o \in {"wait", "timedwait", "trywait", "post", "post_multiple"} : SemCall(t, o)
                    \/ SemStep(t)
             PROVE  SemInv'
  BY DEF SemNext, sem_wait, sem_timedwait, sem_trywait, sem_post, sem_post_multiple
<1>0. Cardinality(SemPending) \in Nat /\ (Cardinality(SemPending) = 0 <=> SemPending = {})
  BY CountThreads DEF SemPending
<1>1. CASE SemInit(t)
  <2>1. pc' = pc /\ op' = op /\ component' = component
    BY <1>1 DEF SemInit, Enter, SemTypeOK
  <2>2. SemPending' = {}
    BY <1>1, <2>1 DEF SemInit, SemPending
  <2>3. Cardinality(SemPending') = 0
    BY <2>2, FS_EmptySet
  <2> QED BY <1>1, <2>1, <2>3 DEF SemInit, SemTypeOK, smVars
<1>2. CASE SemDestroy(t)
  <2>1. pc' = pc /\ op' = op /\ component' = component /\ pc[t] = "idle"
    BY <1>2 DEF SemDestroy, Enter, SemTypeOK
  <2>2. SemPending' = SemPending
    BY <2>1 DEF SemPending
  <2>3. CASE smValue < 0
    BY <1>2, <2>1, <2>2, <2>3 DEF SemDestroy, SemTypeOK
  <2>4. CASE smValue >= 0
    <3>1. SemPending = {}
      BY <1>0, <1>2, <2>1, <2>4 DEF SemDestroy, SemPending
    <3> QED BY <1>2, <2>1, <2>4, <3>1 DEF SemDestroy, SemTypeOK, SemPending
  <2> QED BY <2>3, <2>4 DEF SemTypeOK
<1>3. CASE SemCancel(t)
  BY <1>3 DEF SemCancel, commonVars, SemTypeOK, SemPending
<1>4. ASSUME NEW o \in {"wait", "timedwait", "trywait", "post", "post_multiple"}, SemCall(t, o)
      PROVE  SemInv'
  <2>1. SemTypeOK' /\ component' = component
    BY <1>4 DEF SemCall, Enter, SemTypeOK, smVars
  <2>2. SemPending' = SemPending
    BY <1>4 DEF SemCall, Enter, SemTypeOK, SemPending
  <2> QED BY <1>4, <2>1, <2>2 DEF SemCall, Enter, SemTypeOK, smVars
<1>5. CASE SemDecrement(t)
  <2>1. SemPending' = SemPending \cup {t} /\ t \notin SemPending
    BY <1>5 DEF SemDecrement, Goto, SemTypeOK, SemPending
  <2>2. Cardinality(SemPending') = Cardinality(SemPending) + 1
    BY <2>1, AddThread DEF SemPending
  <2> QED BY <1>5, <1>0, <2>2 DEF SemDecrement, Goto, SemTypeOK
<1>6. ASSUME SemPend(t) \/ SemCleanup(t) PROVE SemInv'
  <2>1. SemPending' = SemPending \ {t} /\ t \in SemPending
    BY <1>6 DEF SemPend, SemCleanup, Goto, Return, SemTypeOK, SemPending
  <2>2. Cardinality(SemPending') = Cardinality(SemPending) - 1 /\ Cardinality(SemPending) >= 1
    BY <2>1, RemoveThread DEF SemPending
  <2> QED BY <1>6, <1>0, <2>1, <2>2 DEF SemPend, SemCleanup, Goto, Return, SemTypeOK, SemPending
<1>7. CASE SemGiveUp(t)
  <2>1. SemPending' = SemPending
    BY <1>7 DEF SemGiveUp, Goto, SemTypeOK, SemPending
  <2> QED BY <1>7, <2>1 DEF SemGiveUp, Goto, SemTypeOK, smVars
<1>8. ASSUME SemTrywait(t) \/ SemPost(t) \/ SemPostMultiple(t) PROVE SemInv'
  <2>1. SemPending' = SemPending
    BY <1>8 DEF SemTrywait, SemPost, SemPostMultiple, Goto, Return, SemTypeOK, SemPending
  <2> QED BY <1>8, <1>0, <2>1 DEF SemTrywait, SemPost, SemPostMultiple, Goto, Return, SemTypeOK
<1> QED BY <1>1, <1>2, <1>3, <1>4, <1>5, <1>6, <1>7, <1>8 DEF SemStep
-----------------------------------------------------------------------------
MxSteps == {"idle", "mx_need_init", "mx_first", "mx_own", "mx_owner_test",
            "mx_exchange", "mx_pend", "mx_unlock", "mx_release", "mx_post"}

MutexTypeOK ==
  /\ pc \in [PThreads -> MxSteps]
  /\ mxPtr \in {"static", "object", "null"} /\ mxKind \in MxKinds
  /\ mxIdx \in {-1, 0, 1} /\ mxSem \in Nat
  /\ mxOwner \in PThreads \cup {NoPThread} /\ mxCount \in Int
  /\ mxHeld \in [PThreads -> Nat]

\* One holder, and lock_idx says whether there is one.
MxOneHolder ==
  /\ \A t, u \in MxHolders : t = u
  /\ MxHolders # {} <=> mxIdx # 0

\* A thread between the exchange and the record of its ownership, or between
\* giving up the ownership and the release, has no level of the lock.
MxHalfway ==
  \A t \in PThreads :
    /\ pc[t] \in {"mx_own", "mx_release"} => mxKind # "normal" /\ mxHeld[t] = 0
    /\ pc[t] = "mx_unlock" /\ mxKind = "normal" => mxHeld[t] > 0

\* ownerThread and recursive_count tell who holds the mutex, and how often.
MxOwnerHolds ==
  /\ mxKind # "normal" => \A t \in PThreads : mxHeld[t] > 0 <=> mxOwner = t
  /\ mxKind = "recursive" /\ mxOwner # NoPThread => mxCount = mxHeld[mxOwner]
  /\ mxKind # "recursive" => \A t \in PThreads : mxHeld[t] <= 1

\* Without an object there is nothing to hold and nobody beyond the test.
MxNoObject ==
  /\ mxPtr # "object" =>
       mxIdx = 0 /\ \A t \in PThreads : pc[t] \in {"idle", "mx_need_init"}
  /\ mxPtr = "null" => \A t \in PThreads : pc[t] = "idle"

\* The inductive invariant of mutexes.
MutexInv ==
  component = "mutex" =>
    MutexTypeOK /\ MxOneHolder /\ MxHalfway /\ MxOwnerHolds /\ MxNoObject

\* No step of a mutex call changes what the behaviour is about.
LEMMA MutexKeepsComponent == MutexNext => component' = component
  BY DEF MutexNext, MutexInit, MutexDestroy, pthread_mutex_lock, pthread_mutex_timedlock,
         pthread_mutex_trylock, MutexCall, UnlockCall, MutexStep, MutexCheckNeedInit,
         NormalFirst, CompareFirst, MutexOwn, OwnerTest, ExchangeMinusOne, MutexPend,
         TimedEventwaitExpires, MutexUnlock, MutexRelease, MutexPost, Enter, EnterFree,
         Goto, Return

\* The invariant of mutexes holds of a free mutex.
LEMMA MutexInvInit == Init => MutexInv
  BY DEF Init, CommonInit, MxVarsInit, MutexInv, MutexTypeOK, MxSteps, MxKinds, MxOneHolder,
         MxHolders, MxHalfway, MxOwnerHolds, MxNoObject

\* Every step of a mutex call keeps its invariant.
LEMMA MutexInvStep ==
  ASSUME MutexInv, component = "mutex", MutexNext
  PROVE  MutexInv'
<1> USE DEF MutexInv, MutexTypeOK, MxSteps, MxKinds, MxOneHolder, MxHolders, MxHalfway,
            MxOwnerHolds, MxNoObject, Goto, Return
<1>1. ASSUME NEW t \in PThreads, MutexInit(t) PROVE MutexInv'
  BY <1>1 DEF MutexInit, Enter, Alone
<1>2. ASSUME NEW t \in PThreads, MutexDestroy(t) PROVE MutexInv'
  BY <1>2 DEF MutexDestroy, Enter, Alone
<1>3. ASSUME NEW t \in PThreads, NEW o \in {"lock", "timedlock", "trylock"}, MutexCall(t, o)
      PROVE  MutexInv'
  BY <1>3 DEF MutexCall, Enter, mxVars
<1>4. ASSUME NEW t \in PThreads, UnlockCall(t) PROVE MutexInv'
  BY <1>4 DEF UnlockCall, Enter, EnterFree, mxVars
<1>5. ASSUME NEW t \in PThreads, MutexCheckNeedInit(t) PROVE MutexInv'
  BY <1>5 DEF MutexCheckNeedInit
<1>6. ASSUME NEW t \in PThreads, NormalFirst(t) PROVE MutexInv'
  BY <1>6 DEF NormalFirst
<1>7. ASSUME NEW t \in PThreads, CompareFirst(t) PROVE MutexInv'
  BY <1>7 DEF CompareFirst
<1>8. ASSUME NEW t \in PThreads, MutexOwn(t) PROVE MutexInv'
  BY <1>8 DEF MutexOwn
<1>9. ASSUME NEW t \in PThreads, OwnerTest(t) PROVE MutexInv'
  BY <1>9 DEF OwnerTest
<1>10. ASSUME NEW t \in PThreads, ExchangeMinusOne(t) PROVE MutexInv'
  BY <1>10 DEF ExchangeMinusOne
<1>11. ASSUME NEW t \in PThreads, MutexPend(t) PROVE MutexInv'
  BY <1>11 DEF MutexPend, mxState
<1>12. ASSUME NEW t \in PThreads, TimedEventwaitExpires(t) PROVE MutexInv'
  BY <1>12 DEF TimedEventwaitExpires, mxVars
<1>13. ASSUME NEW t \in PThreads, MutexUnlock(t) PROVE MutexInv'
  BY <1>13 DEF MutexUnlock
<1>14. ASSUME NEW t \in PThreads, MutexRelease(t) PROVE MutexInv'
  BY <1>14 DEF MutexRelease
<1>15. ASSUME NEW t \in PThreads, MutexPost(t) PROVE MutexInv'
  BY <1>15 DEF MutexPost, mxState
<1> QED
  BY <1>1, <1>2, <1>3, <1>4, <1>5, <1>6, <1>7, <1>8, <1>9, <1>10, <1>11, <1>12, <1>13,
     <1>14, <1>15
  DEF MutexNext, MutexStep, pthread_mutex_lock, pthread_mutex_timedlock,
      pthread_mutex_trylock

\* The invariant of mutexes gives mutual exclusion.
LEMMA MutexInvExcludes == MutexInv => MutexExclusion
<1> SUFFICES ASSUME MutexInv, component = "mutex" PROVE MutexExclusion
  BY DEF MutexExclusion
<1>1. Cardinality(MxHolders) <= 1
  BY AtMostOneThread DEF MutexInv, MxOneHolder, MxHolders
<1> QED BY <1>1 DEF MutexInv, MxOneHolder, MutexExclusion
-----------------------------------------------------------------------------
RwSteps == {"idle", "rw_need_init", "rw_E", "rw_enter", "rw_S", "rw_entered", "rw_reduce",
            "rw_write", "rw_wait", "rw_woken", "rw_cancelwrwait", "rw_leave", "exited"}
WrOps == {"wrlock", "timedwrlock", "trywrlock"}

RwTypeOK ==
  /\ pc \in [PThreads -> RwSteps]
  /\ op \in [PThreads -> {"none", "unlock", "cancelled"} \cup RdOps \cup WrOps]
  /\ rwPtr \in {"static", "object", "null"}
  /\ rwShared \in Int /\ rwDone \in Int /\ rwExcl \in {0, 1}
  /\ rwHeld \in [PThreads -> {"none", "r", "w"}]

\* Who holds the two mutexes, told by the step each thread is at; one that was
\* cancelled may have taken mtxSharedAccessCompleted with it.
RwMutexes ==
  \A t \in PThreads :
    /\ rwMtxE = t <=> \/ rwHeld[t] = "w"
                      \/ pc[t] \in {"rw_enter", "rw_S", "rw_entered", "rw_reduce", "rw_write",
                                    "rw_wait", "rw_woken", "rw_cancelwrwait"}
    /\ rwHeld[t] = "w" => rwMtxS = t
    /\ pc[t] \in {"rw_reduce", "rw_write", "rw_woken", "rw_cancelwrwait"} => rwMtxS = t
    /\ rwMtxS = t => \/ rwHeld[t] = "w"
                     \/ pc[t] \in {"rw_reduce", "rw_write", "rw_woken", "rw_cancelwrwait",
                                   "exited"}

\* A thread that holds the lock is in no call of it, and the steps of readers
\* and writers are not mixed up.
RwPhases ==
  \A t \in PThreads :
    /\ rwHeld[t] # "none" => pc[t] = "idle"
    /\ pc[t] \in {"rw_E", "rw_S", "rw_need_init"} => op[t] \in RdOps \cup WrOps
    /\ pc[t] \in {"rw_enter", "rw_entered", "rw_reduce"} => op[t] \in RdOps
    /\ pc[t] \in {"rw_write", "rw_wait", "rw_woken"} => op[t] \in WrOps
    /\ pc[t] = "rw_cancelwrwait" => op[t] \in WrOps \cup {"cancelled"}

\* nExclusiveAccessCount says whether there is a writer, and then no reader
\* is inside.
RwWriter ==
  /\ \A t \in PThreads : rwHeld[t] = "w" => rwExcl = 1 /\ Inside = {}
  /\ rwExcl = 1 => \E t \in PThreads : rwHeld[t] = "w"

\* The counts tell how many readers are inside.
RwCounted ==
  IF Waiting THEN rwDone = -Cardinality(Inside)
             ELSE rwDone >= 0 /\ rwShared - rwDone = Cardinality(Inside)

RwNoObject ==
  rwPtr # "object" =>
    \A t \in PThreads : rwHeld[t] = "none" /\ pc[t] \in {"idle", "exited", "rw_need_init"}
                         /\ (rwPtr = "null" => pc[t] # "rw_need_init")

\* The inductive invariant of read-write locks.
RwInv ==
  component = "rwlock" =>
    RwTypeOK /\ RwMutexes /\ RwPhases /\ RwWriter /\ RwCounted /\ RwNoObject

\* No step of a read-write lock call changes what the behaviour is about.
LEMMA RwKeepsComponent == RwNext => component' = component
  BY DEF RwNext, RwInit, RwDestroy, pthread_rwlock_rdlock, pthread_rwlock_timedrdlock,
         pthread_rwlock_tryrdlock, pthread_rwlock_wrlock, pthread_rwlock_timedwrlock,
         pthread_rwlock_trywrlock, RwCall, RwUnlock, RwStep, RwCheckNeedInit, LockE, FailE,
         EnterShared, LockS, FailS, ReduceCounts, ReadLocked, WriteOrWait, WriterWakes,
         WriterRetests, CancelWrwait, LeaveShared, WriterCancelled, LeaverCancelled, Enter,
         EnterFree, Goto, Return, Leaves

\* The invariant of read-write locks holds of a free lock.
LEMMA RwInvInit == Init => RwInv
<1> SUFFICES ASSUME Init PROVE RwInv
  OBVIOUS
<1>1. Inside = {} /\ ~Waiting
  BY DEF Init, CommonInit, RwVarsInit, Inside, Holding, Waiting
<1>2. Cardinality(Inside) = 0
  BY <1>1, FS_EmptySet
<1> QED
  BY <1>1, <1>2 DEF Init, CommonInit, RwVarsInit, RwInv, RwTypeOK, RwSteps, RwMutexes, RwPhases,
         RwWriter, RwCounted, RwNoObject

\* Readers that count as inside, thread by thread.
LEMMA InsideIs ==
  /\ Inside \in SUBSET PThreads
  /\ Cardinality(Inside) \in Nat
  /\ Cardinality(Inside) = 0 <=> Inside = {}
  /\ \A t \in PThreads :
       t \in Inside <=> \/ rwHeld[t] = "r"
                        \/ pc[t] \in {"rw_entered", "rw_leave"}
                        \/ op[t] \in RdOps /\ pc[t] \in {"rw_S", "rw_reduce"}
<1>1. Inside \in SUBSET PThreads
  BY DEF Inside, Holding
<1>2. Cardinality(Inside) \in Nat /\ (Cardinality(Inside) = 0 <=> Inside = {})
  BY <1>1, CountThreads
<1> QED BY <1>1, <1>2 DEF Inside, Holding


\* Every step of a read-write lock call keeps its invariant.
LEMMA RwInvStep ==
  ASSUME RwInv, component = "rwlock", RwNext
  PROVE  RwInv'
<1> USE DEF RwInv, RwTypeOK, RwSteps, RdOps, WrOps, RwMutexes, RwPhases, RwNoObject, Goto, Return, Leaves
<1>0. /\ RwTypeOK /\ RwMutexes /\ RwPhases /\ RwWriter /\ RwCounted /\ RwNoObject
      /\ Inside \in SUBSET PThreads
      /\ Cardinality(Inside) \in Nat
      /\ Cardinality(Inside) = 0 <=> Inside = {}
  BY InsideIs
<1>1. ASSUME NEW t \in PThreads, RwInit(t) PROVE RwInv'
  <2>1. Inside = {} /\ Inside' = {} /\ ~Waiting'
    BY <1>1 DEF RwInit, Enter, Alone, Inside, Holding, Waiting
  <2> QED BY <1>1, <1>0, <2>1 DEF RwInit, Enter, Alone, RwWriter, RwCounted
<1>2. ASSUME NEW t \in PThreads, RwDestroy(t) PROVE RwInv'
  <2>1. Inside' = Inside /\ ~Waiting' /\ ~Waiting /\ Holding("r") \subseteq Inside
    BY <1>2 DEF RwDestroy, Enter, Alone, Inside, Holding, Waiting
  <2>2. rwPtr' = "null" => \A u \in PThreads : rwHeld[u] = "none"
    BY <1>2, <1>0, <2>1 DEF RwDestroy, RwWriter, RwCounted, Holding
  <2> QED BY <1>2, <1>0, <2>1, <2>2 DEF RwDestroy, rwCounts, Enter, Alone, RwWriter, RwCounted
<1>3. ASSUME NEW t \in PThreads, NEW o \in RdOps \cup WrOps, RwCall(t, o) PROVE RwInv'
  <2>1. Inside' = Inside /\ Waiting' = Waiting
    BY <1>3 DEF RwCall, Enter, Inside, Holding, Waiting, rwVars
  <2> QED BY <1>3, <1>0, <2>1 DEF RwCall, Enter, RwWriter, RwCounted, rwVars, rwCounts
<1>4. ASSUME NEW t \in PThreads, RwUnlock(t) PROVE RwInv'
  <2>1. Inside' = Inside /\ Waiting' = Waiting
    BY <1>4, <1>0 DEF RwUnlock, EnterFree, RwWriter, Inside, Holding, Waiting
  <2>2. RwTypeOK' /\ RwPhases' /\ RwNoObject'
    <3>1. CASE rwExcl = 0
      BY <1>4, <1>0, <3>1 DEF RwUnlock, EnterFree
    <3>2. CASE rwExcl # 0
      BY <1>4, <1>0, <3>2 DEF RwUnlock, EnterFree
    <3> QED BY <3>1, <3>2
  <2>3. RwMutexes'
    <3>1. CASE rwExcl = 0
      <4>1. rwHeld[t] # "w"
        BY <1>0, <3>1 DEF RwWriter
      <4> QED BY <1>4, <1>0, <3>1, <4>1 DEF RwUnlock, EnterFree
    <3>2. CASE rwExcl # 0
      <4>1. rwHeld[t] = "w"
        <5>1. rwHeld[t] # "r"
          BY <1>0, <3>2, InsideIs DEF RwWriter
        <5> QED BY <1>4, <1>0, <5>1 DEF RwUnlock
      <4>2. /\ rwMtxS' = NoPThread /\ rwMtxE' = NoPThread /\ pc' = pc
            /\ rwHeld' = [rwHeld EXCEPT ![t] = "none"] /\ rwMtxE = t /\ rwMtxS = t
        BY <1>4, <1>0, <3>2, <4>1 DEF RwUnlock, EnterFree
      <4>3. pc[t] = "idle"
        BY <1>0, <4>1
      <4>4. \A u \in PThreads : u # t =>
              /\ rwHeld[u] # "w"
              /\ pc[u] \notin {"rw_enter", "rw_S", "rw_entered", "rw_reduce", "rw_write",
                               "rw_wait", "rw_woken", "rw_cancelwrwait"}
        BY <1>0, <4>2
      <4>5. \A u \in PThreads : rwHeld'[u] # "w" /\ rwMtxE' # u /\ rwMtxS' # u
        BY <1>0, <4>2, <4>4, PThreadsAssumption
      <4>6. \A u \in PThreads :
              pc'[u] \notin {"rw_enter", "rw_S", "rw_entered", "rw_reduce", "rw_write",
                             "rw_wait", "rw_woken", "rw_cancelwrwait"}
        BY <4>2, <4>3, <4>4
      <4> QED BY <4>5, <4>6
    <3> QED BY <3>1, <3>2
  <2>4. RwWriter'
    <3>1. \A u \in PThreads : rwHeld'[u] # "w"
      <4>1. \A u \in PThreads : rwHeld[u] = "w" => u = t
        <5>1. CASE rwExcl = 0
          BY <1>0, <5>1 DEF RwWriter
        <5>2. CASE rwExcl # 0
          <6>1. rwHeld[t] = "w"
            <7>1. rwHeld[t] # "r"
              BY <1>0, <5>2, InsideIs DEF RwWriter
            <7> QED BY <1>4, <1>0, <7>1 DEF RwUnlock
          <6> QED BY <1>0, <6>1
        <5> QED BY <5>1, <5>2
      <4>2. rwHeld' = [rwHeld EXCEPT ![t] = "none"]
        BY <1>4 DEF RwUnlock
      <4> QED BY <1>0, <4>1, <4>2
    <3>2. rwExcl' = 0
      BY <1>4, <1>0 DEF RwUnlock
    <3> QED BY <3>1, <3>2 DEF RwWriter
  <2>5. RwCounted'
    BY <1>4, <1>0, <2>1 DEF RwUnlock, EnterFree, RwCounted
  <2> QED BY <2>2, <2>3, <2>4, <2>5
<1>5. ASSUME NEW t \in PThreads, RwCheckNeedInit(t) \/ LockE(t) \/ FailE(t) \/ LockS(t) PROVE RwInv'
  <2>1. Inside' = Inside /\ Waiting' = Waiting
    BY <1>5 DEF RwCheckNeedInit, LockE, FailE, LockS, Inside, Holding, Waiting, rwVars
  <2> QED BY <1>5, <1>0, <2>1
          DEF RwCheckNeedInit, LockE, FailE, LockS, RwWriter, RwCounted, rwVars, rwCounts
<1>6. ASSUME NEW t \in PThreads, EnterShared(t) PROVE RwInv'
  <2>1. Inside' = Inside \cup {t} /\ t \notin Inside /\ Waiting' = Waiting /\ ~Waiting
    BY <1>6 DEF EnterShared, Inside, Holding, Waiting
  <2>2. Cardinality(Inside') = Cardinality(Inside) + 1
    BY <2>1, <1>0, AddThread
  <2>3. \A u \in PThreads : rwHeld[u] # "w"
    BY <1>6 DEF EnterShared
  <2> QED BY <1>6, <1>0, <2>1, <2>2, <2>3 DEF EnterShared, RwWriter, RwCounted
<1>7. ASSUME NEW t \in PThreads, FailS(t) PROVE RwInv'
  <2>1. Waiting' = Waiting /\ ~Waiting
    BY <1>7 DEF FailS, Waiting
  <2>2. CASE op[t] = "timedrdlock"
    <3>1. Inside' = Inside \ {t} /\ t \in Inside
      BY <1>7, <2>2 DEF FailS, Inside, Holding
    <3>2. Cardinality(Inside') = Cardinality(Inside) - 1
      BY <3>1, <1>0, RemoveThread
    <3> QED BY <1>7, <1>0, <2>1, <2>2, <3>1, <3>2 DEF FailS, RwWriter, RwCounted
  <2>3. CASE op[t] # "timedrdlock"
    <3>1. Inside' = Inside
      BY <1>7, <2>3 DEF FailS, Inside, Holding
    <3> QED BY <1>7, <1>0, <2>1, <2>3, <3>1 DEF FailS, RwWriter, RwCounted
  <2> QED BY <2>2, <2>3
<1>8. ASSUME NEW t \in PThreads, ReduceCounts(t) \/ ReadLocked(t) PROVE RwInv'
  <2>1. Inside' = Inside /\ Waiting' = Waiting /\ ~Waiting
    BY <1>8 DEF ReduceCounts, ReadLocked, Inside, Holding, Waiting
  <2>2. \A u \in PThreads : rwHeld[u] # "w"
    BY <1>8 DEF ReduceCounts, ReadLocked
  <2>3. RwTypeOK' /\ RwPhases' /\ RwNoObject'
    BY <1>8, <1>0 DEF ReduceCounts, ReadLocked, rwCounts
  <2>4. RwMutexes'
    BY <1>8, <1>0, <2>2 DEF ReduceCounts, ReadLocked
  <2>5. RwWriter'
    BY <1>8, <1>0, <2>1, <2>2 DEF ReduceCounts, ReadLocked, RwWriter, rwCounts
  <2>6. RwCounted'
    BY <1>8, <1>0, <2>1 DEF ReduceCounts, ReadLocked, RwCounted, rwCounts
  <2> QED BY <2>3, <2>4, <2>5, <2>6
<1>9. ASSUME NEW t \in PThreads, WriteOrWait(t) PROVE RwInv'
  <2>1. Inside' = Inside /\ ~Waiting
    BY <1>9 DEF WriteOrWait, Inside, Holding, Waiting
  <2>2. \A u \in PThreads : rwHeld[u] # "w"
    BY <1>9 DEF WriteOrWait
  <2>3. rwExcl = 0
    BY <2>2, <1>0 DEF RwWriter
  <2> DEFINE left == IF rwDone > 0 THEN rwShared - rwDone ELSE rwShared
  <2>4. left = Cardinality(Inside)
    BY <2>1, <1>0 DEF RwCounted
  <2>5. CASE left = 0
    <3>1. Inside' = {} /\ ~Waiting'
      BY <1>9, <1>0, <2>1, <2>4, <2>5 DEF WriteOrWait, Waiting
    <3> QED BY <1>9, <1>0, <2>1, <2>2, <2>3, <2>4, <2>5, <3>1 DEF WriteOrWait, RwWriter, RwCounted
  <2>6. CASE left > 0 /\ op[t] = "trywrlock"
    <3>1. ~Waiting'
      BY <1>9, <2>1, <2>6 DEF WriteOrWait, Waiting
    <3> QED BY <1>9, <1>0, <2>1, <2>2, <2>3, <2>4, <2>6, <3>1 DEF WriteOrWait, RwWriter, RwCounted
  <2>7. CASE left > 0 /\ op[t] # "trywrlock"
    <3>1. Waiting'
      BY <1>9, <2>1, <2>7 DEF WriteOrWait, Waiting
    <3> QED BY <1>9, <1>0, <2>1, <2>2, <2>3, <2>4, <2>7, <3>1 DEF WriteOrWait, RwWriter, RwCounted
  <2> QED BY <1>0, <2>4, <2>5, <2>6, <2>7
<1>10. ASSUME NEW t \in PThreads, WriterWakes(t) PROVE RwInv'
  <2>1. Inside' = Inside /\ Waiting' /\ Waiting
    BY <1>10 DEF WriterWakes, Inside, Holding, Waiting
  <2> QED BY <1>10, <1>0, <2>1 DEF WriterWakes, RwWriter, RwCounted, rwCounts
<1>11. ASSUME NEW t \in PThreads, WriterRetests(t) PROVE RwInv'
  <2>1. Inside' = Inside /\ Waiting
    BY <1>11 DEF WriterRetests, Inside, Holding, Waiting
  <2>2. \A u \in PThreads : rwHeld[u] # "w"
    BY <1>11 DEF WriterRetests
  <2>3. rwExcl = 0
    BY <2>2, <1>0 DEF RwWriter
  <2>4. CASE rwDone < 0
    <3>1. Waiting'
      BY <1>11, <2>4 DEF WriterRetests, Waiting
    <3> QED BY <1>11, <1>0, <2>1, <2>2, <2>3, <2>4, <3>1 DEF WriterRetests, RwWriter, RwCounted
  <2>5. CASE rwDone >= 0
    <3>1. ~Waiting' /\ Inside = {} /\ rwDone = 0
      BY <1>11, <1>0, <2>1, <2>5 DEF WriterRetests, Waiting, RwCounted
    <3> QED BY <1>11, <1>0, <2>1, <2>2, <2>3, <2>5, <3>1 DEF WriterRetests, RwWriter, RwCounted
  <2> QED BY <1>0, <2>4, <2>5
<1>12. ASSUME NEW t \in PThreads, CancelWrwait(t) PROVE RwInv'
  <2>1. Inside' = Inside /\ Waiting /\ ~Waiting'
    BY <1>12 DEF CancelWrwait, Inside, Holding, Waiting
  <2>2. \A u \in PThreads : rwHeld[u] # "w"
    BY <1>12 DEF CancelWrwait
  <2>3. RwTypeOK' /\ RwPhases' /\ RwNoObject'
    <3>1. CASE op[t] = "cancelled"
      BY <1>12, <1>0, <3>1 DEF CancelWrwait
    <3>2. CASE op[t] # "cancelled"
      BY <1>12, <1>0, <3>2 DEF CancelWrwait
    <3> QED BY <3>1, <3>2
  <2>4. RwMutexes'
    BY <1>12, <1>0, <2>2 DEF CancelWrwait
  <2>5. RwWriter' /\ RwCounted'
    BY <1>12, <1>0, <2>1, <2>2 DEF CancelWrwait, RwWriter, RwCounted
  <2> QED BY <2>3, <2>4, <2>5
<1>13. ASSUME NEW t \in PThreads, LeaveShared(t) PROVE RwInv'
  <2>1. Inside' = Inside \ {t} /\ t \in Inside /\ Waiting' = Waiting
    BY <1>13 DEF LeaveShared, Inside, Holding, Waiting
  <2>2. Cardinality(Inside') = Cardinality(Inside) - 1 /\ Cardinality(Inside) >= 1
    BY <2>1, <1>0, RemoveThread
  <2>3. \A u \in PThreads : rwHeld[u] # "w"
    BY <2>1, <1>0 DEF RwWriter
  <2> QED BY <1>13, <1>0, <2>1, <2>2, <2>3 DEF LeaveShared, RwWriter, RwCounted
<1>14. ASSUME NEW t \in PThreads, WriterCancelled(t) PROVE RwInv'
  <2>1. Inside' = Inside /\ Waiting' /\ Waiting
    BY <1>14 DEF WriterCancelled, Inside, Holding, Waiting
  <2> QED BY <1>14, <1>0, <2>1 DEF WriterCancelled, RwWriter, RwCounted, rwCounts
<1>15. ASSUME NEW t \in PThreads, LeaverCancelled(t) PROVE RwInv'
  <2>1. Inside' = Inside \ {t} /\ t \in Inside /\ Waiting /\ Waiting'
    BY <1>15 DEF LeaverCancelled, Inside, Holding, Waiting
  <2>2. Cardinality(Inside') = Cardinality(Inside) - 1 /\ Cardinality(Inside) >= 1
    BY <2>1, <1>0, RemoveThread
  <2>3. \A u \in PThreads : rwHeld[u] # "w"
    BY <2>1, <1>0 DEF RwWriter
  <2> QED BY <1>15, <1>0, <2>1, <2>2, <2>3 DEF LeaverCancelled, RwWriter, RwCounted
<1> QED
  BY <1>1, <1>2, <1>3, <1>4, <1>5, <1>6, <1>7, <1>8, <1>9, <1>10, <1>11, <1>12, <1>13,
     <1>14, <1>15
  DEF RwNext, RwStep, pthread_rwlock_rdlock, pthread_rwlock_timedrdlock,
      pthread_rwlock_tryrdlock, pthread_rwlock_wrlock, pthread_rwlock_timedwrlock,
      pthread_rwlock_trywrlock

\* The invariant of read-write locks gives the exclusion of writers.
LEMMA RwInvExcludes == RwInv => RwExclusion
<1> SUFFICES ASSUME RwInv, component = "rwlock" PROVE RwExclusion
  BY DEF RwExclusion
<1>1. \A t, u \in Holding("w") : t = u
  BY DEF RwInv, RwMutexes, Holding
<1>2. CASE Holding("w") = {}
  <2>1. Cardinality(Holding("w")) = 0
    BY <1>2, FS_EmptySet
  <2>2. rwExcl = 0
    BY <1>2 DEF RwInv, RwTypeOK, RwWriter, Holding
  <2> QED BY <1>2, <2>1, <2>2 DEF RwInv, RwCounted, RwExclusion
<1>3. CASE Holding("w") # {}
  <2>1. PICK t \in Holding("w") : TRUE
    BY <1>3
  <2>2. Holding("w") = {t}
    BY <1>1, <2>1
  <2>3. Cardinality(Holding("w")) = 1
    BY <2>2, FS_Singleton
  <2>4. rwExcl = 1 /\ Holding("r") = {}
    BY <2>1 DEF RwInv, RwWriter, Holding, Inside
  <2> QED BY <2>3, <2>4 DEF RwInv, RwCounted, RwExclusion
<1> QED BY <1>2, <1>3
-----------------------------------------------------------------------------
SpSteps == {"idle", "sp_need_init", "sp_word", "sp_mutex"}

\* The word, the mutex behind it and the holder go together.
SpinAgrees ==
  /\ pc \in [PThreads -> SpSteps]
  /\ spPtr \in {"static", "object", "null"} /\ spHeld \in SUBSET PThreads
  /\ spWord = "use_mutex" => spHeld = IF spMutex = NoPThread THEN {} ELSE {spMutex}
  /\ spWord = "locked" => spMutex = NoPThread /\ \E t \in PThreads : spHeld = {t}
  /\ spWord = "unlocked" => spMutex = NoPThread /\ spHeld = {}
  /\ spWord \in {"unlocked", "locked", "use_mutex"}
  /\ \A t \in PThreads : pc[t] = "sp_mutex" => spWord = "use_mutex"

\* Without an object nobody holds the lock or is beyond the test.
SpinNoObject ==
  spPtr # "object" =>
    /\ spHeld = {}
    /\ \A t \in PThreads : pc[t] \in {"idle", "sp_need_init"}
                            /\ (spPtr = "null" => pc[t] = "idle")

\* The inductive invariant of spin locks.
SpinInv == component = "spin" => SpinAgrees /\ SpinNoObject

\* No step of a spin lock call changes what the behaviour is about.
LEMMA SpinKeepsComponent == SpinNext => component' = component
  BY DEF SpinNext, ProcessorsChange, SpinInit, SpinDestroy, SpinUnlock, SpinStep,
         SpinCheckNeedInit, SpinWord, SpinMutex, pthread_spin_lock, pthread_spin_trylock,
         SpinCall, Enter, EnterFree, Goto, Return, commonVars

\* The invariant of spin locks holds of a static initialiser.
LEMMA SpinInvInit == Init => SpinInv
  BY DEF Init, CommonInit, SpVarsInit, SpinInv, SpinAgrees, SpSteps, SpinNoObject

\* Every step of a spin lock call keeps its invariant.
LEMMA SpinInvStep ==
  ASSUME SpinInv, component = "spin", SpinNext
  PROVE  SpinInv'
<1> USE DEF SpinInv, SpinAgrees, SpSteps, SpinNoObject, Goto, Return
<1>1. CASE ProcessorsChange
  BY <1>1 DEF ProcessorsChange, commonVars
<1>2. ASSUME NEW t \in PThreads, SpinInit(t) PROVE SpinInv'
  BY <1>2 DEF SpinInit, Enter, Alone, FreshWord
<1>3. ASSUME NEW t \in PThreads, SpinDestroy(t) PROVE SpinInv'
  BY <1>3 DEF SpinDestroy, Enter, Alone
<1>4. ASSUME NEW t \in PThreads, SpinUnlock(t) PROVE SpinInv'
  BY <1>4 DEF SpinUnlock, EnterFree
<1>5. ASSUME NEW t \in PThreads, NEW o \in {"lock", "trylock"}, SpinCall(t, o) PROVE SpinInv'
  BY <1>5 DEF SpinCall, Enter, spVars
<1>6. ASSUME NEW t \in PThreads, SpinCheckNeedInit(t) PROVE SpinInv'
  BY <1>6 DEF SpinCheckNeedInit, FreshWord
<1>7. ASSUME NEW t \in PThreads, SpinWord(t) PROVE SpinInv'
  BY <1>7 DEF SpinWord
<1>8. ASSUME NEW t \in PThreads, SpinMutex(t) PROVE SpinInv'
  BY <1>8 DEF SpinMutex
<1> QED
  BY <1>1, <1>2, <1>3, <1>4, <1>5, <1>6, <1>7, <1>8
  DEF SpinNext, SpinStep, pthread_spin_lock, pthread_spin_trylock

\* The invariant of spin locks gives mutual exclusion.
LEMMA SpinInvExcludes == SpinInv => SpinExclusion
<1> SUFFICES ASSUME SpinInv, component = "spin" PROVE SpinExclusion
  BY DEF SpinExclusion
<1>1. \A t, u \in spHeld : t = u
  BY DEF SpinInv, SpinAgrees
<1>2. Cardinality(spHeld) <= 1
  BY <1>1, AtMostOneThread DEF SpinInv, SpinAgrees
<1> QED BY <1>2 DEF SpinInv, SpinNoObject, SpinExclusion
-----------------------------------------------------------------------------
OnSteps == {"idle", "exited", "on_start", "on_run", "on_wake", "on_wake_one", "on_post",
            "on_post_one", "on_count", "on_sem", "on_create", "on_recheck", "on_enter",
            "on_pend", "on_leave", "on_delete"}

\* The state of the once_control is STARTED while one thread is in the routine
\* and DONE for good once it has returned, and only then do calls return.
OnceInv ==
  component = "once" =>
    /\ pc \in [PThreads -> OnSteps] /\ calls \in [PThreads -> Nat]
    /\ onState \in {INIT, STARTED, DONE}
    /\ onRan = IF onState = DONE THEN 1 ELSE 0
    /\ \A t, u \in PThreads : pc[t] = "on_run" /\ pc[u] = "on_run" => t = u
    /\ \A t \in PThreads :
         /\ pc[t] = "on_run" => onState = STARTED
         /\ pc[t] = "idle" /\ calls[t] < MaxCalls["once"][t] => onState = DONE

\* No step of a pthread_once call changes what the behaviour is about.
LEMMA OnceKeepsComponent == OnceNext => component' = component
  BY DEF OnceNext, OnceCall, OnceStep, OnceStart, RoutineReturns, RoutineCancelled,
         ReadArguments, OncePost, CountUser, TestSemaphore, CreateSemaphore, RecheckState,
         EnterPend, OncePend, UncountUser, DeleteSemaphore, Enter, Goto

\* The invariant of pthread_once holds before the first call.
LEMMA OnceInvInit == Init => OnceInv
  BY MaxCallsAssumption
  DEF Init, CommonInit, OnVarsInit, OnceInv, OnSteps, INIT, STARTED, DONE

\* Every step of a pthread_once call keeps its invariant.
LEMMA OnceInvStep ==
  ASSUME OnceInv, component = "once", OnceNext
  PROVE  OnceInv'
<1> USE MaxCallsAssumption DEF OnceInv, OnSteps, Goto, INIT, STARTED, DONE
<1>1. ASSUME NEW t \in PThreads, OnceCall(t) PROVE OnceInv'
  BY <1>1 DEF OnceCall, Enter, onVars, onShared
<1>2. ASSUME NEW t \in PThreads, OnceStart(t) PROVE OnceInv'
  BY <1>2 DEF OnceStart
<1>3. ASSUME NEW t \in PThreads, RoutineReturns(t) \/ RoutineCancelled(t) PROVE OnceInv'
  BY <1>3 DEF RoutineReturns, RoutineCancelled
<1>4. ASSUME NEW t \in PThreads,
             \/ ReadArguments(t) \/ OncePost(t) \/ CountUser(t) \/ TestSemaphore(t)
             \/ CreateSemaphore(t) \/ RecheckState(t) \/ EnterPend(t) \/ OncePend(t)
             \/ UncountUser(t) \/ DeleteSemaphore(t)
      PROVE  OnceInv'
  <2>1. UNCHANGED <<component, calls, onState, onRan>>
    BY <1>4 DEF ReadArguments, OncePost, CountUser, TestSemaphore, CreateSemaphore,
                RecheckState, EnterPend, OncePend, UncountUser, DeleteSemaphore, onVars, onShared
  <2>2. \E s \in OnSteps \ {"idle", "on_run"} : pc' = [pc EXCEPT ![t] = s]
    BY <1>4 DEF ReadArguments, OncePost, CountUser, TestSemaphore, CreateSemaphore,
                RecheckState, EnterPend, OncePend, UncountUser, DeleteSemaphore
  <2> QED BY <2>1, <2>2
<1> QED BY <1>1, <1>2, <1>3, <1>4 DEF OnceNext, OnceStep

\* The invariant of pthread_once gives one completed execution.
LEMMA OnceInvRunsOnce == OnceInv => OnceRunsOnce
<1> SUFFICES ASSUME OnceInv, component = "once" PROVE OnceRunsOnce
  BY DEF OnceRunsOnce
<1> DEFINE running == {t \in PThreads : pc[t] = "on_run"}
<1>1. Cardinality(running) <= 1
  BY AtMostOneThread DEF OnceInv
<1>2. onState # STARTED => running = {}
  BY DEF OnceInv
<1>3. onState # STARTED => Cardinality(running) <= 0
  BY <1>2, FS_EmptySet
<1> QED BY <1>1, <1>3 DEF OnceInv, OnceRunsOnce, INIT, STARTED, DONE
-----------------------------------------------------------------------------
BrSteps == {"idle", "br_count", "br_wait", "br_reset", "br_post", "br_flip", "exited"}

\* A thread cancelled in its wait keeps its place and its permit.
Sleeping == {"br_wait", "exited"}

\* The users that have counted themselves into the round after the last one
\* whose serial thread is known, and those that sleep on semaphore i.
InRound == {t \in BarrierUsers : brEntered[t] = brSerial + 1}
Sleepers(i) == {t \in BarrierUsers : pc[t] \in Sleeping /\ brLocal[t] = i}

BarrierTypeOK ==
  /\ pc \in [PThreads -> BrSteps]
  /\ brLocal \in [PThreads -> {0, 1}]
  /\ brEntered \in [PThreads -> Nat] /\ brSerial \in Nat
  /\ brHeight \in Int /\ brStep \in {0, 1} /\ brSem \in [{0, 1} -> Nat]

\* A user is in the round iStep stands for, or still on its way out of the
\* previous one, whose semaphore is the other one, or between rounds.
BarrierRounds ==
  /\ \A t \in PThreads \ BarrierUsers : pc[t] = "idle"
  /\ \A t \in BarrierUsers :
       \/ /\ brEntered[t] = brSerial + 1 /\ brLocal[t] = brStep
          /\ pc[t] \in {"br_reset", "br_post", "br_flip"} \cup Sleeping
       \/ brEntered[t] = brSerial /\ pc[t] = "idle"
       \/ brEntered[t] = brSerial /\ pc[t] = "br_count" /\ brLocal[t] = brStep
       \/ /\ brEntered[t] = brSerial /\ brLocal[t] = 1 - brStep
          /\ pc[t] \in {"br_flip"} \cup Sleeping

\* While the round fills, the count says how many are missing and nobody may
\* cross; those of the previous round have a permit each.
BarrierFills ==
  InRound # BarrierUsers =>
    /\ \A t \in InRound : pc[t] \in Sleeping
    /\ brHeight = BarrierHeight - Cardinality(InRound)
    /\ brSem[brStep] = 0
    /\ brSem[1 - brStep] = Cardinality(Sleepers(1 - brStep))

\* Once it is full, the last arrival resets the count, posts, and from then on
\* each sleeper has its permit.
BarrierFull ==
  InRound = BarrierUsers =>
    /\ brSem[1 - brStep] = 0
    /\ \/ \E t \in BarrierUsers :
            /\ pc[t] \in {"br_reset", "br_post"}
            /\ \A u \in BarrierUsers \ {t} : pc[u] \in Sleeping
            /\ brHeight = IF pc[t] = "br_reset" THEN 0 ELSE BarrierHeight
            /\ brSem[brStep] = 0
       \/ /\ \A t \in BarrierUsers : pc[t] \in {"br_flip"} \cup Sleeping
          /\ brHeight = BarrierHeight
          /\ brSem[brStep] = Cardinality(Sleepers(brStep))

\* The inductive invariant of barriers.
BarrierInv ==
  component = "barrier" => BarrierTypeOK /\ BarrierRounds /\ BarrierFills /\ BarrierFull

\* As many users as the count pthread_barrier_init was given.
BarrierFits == Cardinality(BarrierUsers) = BarrierHeight

\* No step of a barrier call changes what the behaviour is about.
LEMMA BarrierKeepsComponent == BarrierNext => component' = component
  BY DEF BarrierNext, BarrierWait, BarrierReinit, BarrierStep, CountDown, ResetHeight,
         PostOthers, BarrierPend, BarrierCancelled, FlipStep, Enter, Goto, Return, Leaves

\* How the two sets of users are counted.
LEMMA BarrierCounts ==
  ASSUME BarrierFits
  PROVE  /\ BarrierUsers # {} /\ BarrierHeight \in Nat \ {0}
         /\ InRound \in SUBSET PThreads /\ Cardinality(InRound) \in Nat
         /\ Cardinality(InRound) = 0 <=> InRound = {}
         /\ \A i \in {0, 1} : /\ Sleepers(i) \in SUBSET PThreads
                              /\ Cardinality(Sleepers(i)) \in Nat
                              /\ Cardinality(Sleepers(i)) = 0 <=> Sleepers(i) = {}
<1>1. InRound \in SUBSET PThreads /\ \A i \in {0, 1} : Sleepers(i) \in SUBSET PThreads
  BY BarrierAssumption DEF InRound, Sleepers
<1>2. BarrierUsers # {} /\ BarrierHeight \in Nat \ {0}
  BY BarrierAssumption, FS_EmptySet DEF BarrierFits
<1> QED BY <1>1, <1>2, CountThreads

\* The invariant of barriers holds of a new barrier.
LEMMA BarrierInvInit == BarrierFits /\ Init => BarrierInv
<1> SUFFICES ASSUME BarrierFits, Init PROVE BarrierInv
  OBVIOUS
<1>1. BarrierUsers # {} /\ BarrierHeight \in Nat \ {0}
  BY BarrierCounts
<1>2. InRound = {} /\ \A i \in {0, 1} : Sleepers(i) = {}
  BY BarrierAssumption DEF Init, CommonInit, BrVarsInit, InRound, Sleepers, Sleeping
<1>3. Cardinality({}) = 0
  BY FS_EmptySet
<1> QED
  BY <1>1, <1>2, <1>3, BarrierAssumption
  DEF Init, CommonInit, BrVarsInit, BarrierInv, BarrierTypeOK, BrSteps, BarrierRounds,
      BarrierFills, BarrierFull

\* Every step of a barrier call keeps its invariant.
LEMMA BarrierInvStep ==
  ASSUME BarrierFits, BarrierInv, component = "barrier", BarrierNext
  PROVE  BarrierInv'
<1> USE BarrierAssumption
    DEF BarrierInv, BarrierTypeOK, BrSteps, Sleeping, BarrierRounds, Goto, Return
<1>0. /\ BarrierUsers # {} /\ BarrierHeight \in Nat \ {0}
      /\ InRound \in SUBSET PThreads /\ Cardinality(InRound) \in Nat
      /\ Cardinality(InRound) = 0 <=> InRound = {}
      /\ \A i \in {0, 1} : /\ Sleepers(i) \in SUBSET PThreads
                           /\ Cardinality(Sleepers(i)) \in Nat
                           /\ Cardinality(Sleepers(i)) = 0 <=> Sleepers(i) = {}
      /\ BarrierFills /\ BarrierFull
  BY BarrierCounts
<1>1. ASSUME NEW t \in PThreads, BarrierWait(t) PROVE BarrierInv'
  <2>1. InRound' = InRound /\ \A i \in {0, 1} : Sleepers(i)' = Sleepers(i)
    BY <1>1 DEF BarrierWait, Enter, InRound, Sleepers
  <2>2. BarrierFills'
    BY <1>0, <1>1, <2>1 DEF BarrierWait, Enter, BarrierFills, InRound
  <2>3. BarrierFull'
    BY <1>0, <1>1, <2>1 DEF BarrierWait, Enter, BarrierFull, InRound
  <2> QED BY <1>1, <2>2, <2>3 DEF BarrierWait, Enter
<1>2. ASSUME NEW t \in PThreads, BarrierReinit(t) PROVE BarrierInv'
  <2>1. InRound' = {} /\ \A i \in {0, 1} : Sleepers(i)' = {}
    BY <1>2 DEF BarrierReinit, Enter, InRound, Sleepers
  <2>2. Cardinality({}) = 0
    BY FS_EmptySet
  <2>3. brStep' = 0 /\ Sleepers(1 - brStep)' = {}
    BY <1>2, <2>1 DEF BarrierReinit
  <2>4. brSem'[0] = 0 /\ brSem'[1] = 0 /\ brStep' = 0 /\ brHeight' = BarrierHeight
    BY <1>2 DEF BarrierReinit
  <2>5. BarrierHeight - 0 = BarrierHeight /\ 1 - 0 = 1
    BY <1>0
  <2>6. brHeight' = BarrierHeight - Cardinality(InRound')
    BY <2>1, <2>2, <2>4, <2>5
  <2>7. brSem'[1 - brStep'] = Cardinality(Sleepers(1 - brStep)')
    BY <2>2, <2>3, <2>4, <2>5
  <2>8. BarrierFills'
    BY <2>1, <2>4, <2>6, <2>7 DEF BarrierFills
  <2> QED BY <1>0, <1>2, <2>1, <2>8 DEF BarrierReinit, Enter, BarrierFull
<1>3. ASSUME NEW t \in PThreads, CountDown(t) PROVE BarrierInv'
  <2>1. t \in BarrierUsers /\ t \notin InRound /\ InRound # BarrierUsers
    BY <1>3 DEF CountDown, InRound
  <2>2. InRound' = InRound \cup {t}
    BY <1>3, <2>1 DEF CountDown, InRound
  <2>3. Cardinality(InRound') = Cardinality(InRound) + 1
    BY <1>0, <2>1, <2>2, AddThread
  <2>4. brHeight - 1 = 0 <=> InRound' = BarrierUsers
    <3>1. InRound' = BarrierUsers => brHeight - 1 = 0
      BY <1>0, <2>1, <2>3 DEF BarrierFits, BarrierFills
    <3>2. brHeight - 1 = 0 => InRound' = BarrierUsers
      <4>1. IsFiniteSet(BarrierUsers) /\ InRound' \subseteq BarrierUsers
        BY FS_Subset DEF InRound
      <4>2. brHeight - 1 = 0 => Cardinality(InRound') = Cardinality(BarrierUsers)
        BY <1>0, <2>1, <2>3 DEF BarrierFits, BarrierFills
      <4> QED BY <4>1, <4>2, FS_Subset
    <3> QED BY <3>1, <3>2
  <2>5. Sleepers(1 - brStep)' = Sleepers(1 - brStep)
    BY <1>3, <2>1 DEF CountDown, Sleepers
  <2>6. BarrierFills'
    BY <1>0, <1>3, <2>1, <2>2, <2>3, <2>4, <2>5 DEF CountDown, BarrierFills
  <2>7. BarrierFull'
    <3> SUFFICES ASSUME InRound' = BarrierUsers PROVE BarrierFull'
      BY DEF BarrierFull
    <3>1. Sleepers(1 - brStep) = {}
      BY <1>3, <2>1, <2>2 DEF CountDown, Sleepers, InRound
    <3> QED BY <1>0, <1>3, <2>1, <2>2, <2>4, <3>1 DEF CountDown, BarrierFills, BarrierFull
  <2> QED BY <1>3, <2>1, <2>6, <2>7 DEF CountDown
<1>4. ASSUME NEW t \in PThreads, ResetHeight(t) PROVE BarrierInv'
  <2>1. InRound' = InRound /\ InRound = BarrierUsers /\ t \in BarrierUsers
    BY <1>0, <1>4 DEF ResetHeight, InRound, BarrierFills
  <2> QED BY <1>0, <1>4, <2>1 DEF ResetHeight, BarrierFills, BarrierFull
<1>5. ASSUME NEW t \in PThreads, PostOthers(t) PROVE BarrierInv'
  <2>1. InRound' = InRound /\ InRound = BarrierUsers /\ t \in BarrierUsers
    BY <1>0, <1>5 DEF PostOthers, InRound, BarrierFills
  <2>2. /\ \A u \in BarrierUsers \ {t} : pc[u] \in Sleeping /\ brLocal[u] = brStep
        /\ brLocal[t] = brStep /\ brSem[brStep] = 0 /\ brHeight = BarrierHeight
        /\ brSem[1 - brStep] = 0
    BY <1>0, <1>5, <2>1 DEF PostOthers, BarrierFull, InRound
  <2>3. Sleepers(brStep)' = BarrierUsers \ {t}
    BY <1>5, <2>1, <2>2 DEF PostOthers, Sleepers
  <2>4. Cardinality(Sleepers(brStep)') = BarrierHeight - 1
    BY <2>1, <2>3, RemoveThread DEF BarrierFits
  <2>5. BarrierFull'
    BY <1>0, <1>5, <2>1, <2>2, <2>4 DEF PostOthers, BarrierFull
  <2> QED BY <1>0, <1>5, <2>1, <2>5 DEF PostOthers, BarrierFills
<1>6. ASSUME NEW t \in PThreads, BarrierPend(t) PROVE BarrierInv'
  <2>1. InRound' = InRound /\ t \in BarrierUsers /\ brLocal[t] \in {0, 1}
    BY <1>6 DEF BarrierPend, InRound
  <2>2. /\ Sleepers(brLocal[t])' = Sleepers(brLocal[t]) \ {t} /\ t \in Sleepers(brLocal[t])
        /\ Sleepers(1 - brLocal[t])' = Sleepers(1 - brLocal[t])
    BY <1>6, <2>1 DEF BarrierPend, Sleepers
  <2>3. Cardinality(Sleepers(brLocal[t])') = Cardinality(Sleepers(brLocal[t])) - 1
    BY <1>0, <2>1, <2>2, RemoveThread
  <2>4. CASE InRound # BarrierUsers
    <3>1. brLocal[t] = 1 - brStep /\ t \notin InRound
      BY <1>0, <1>6, <2>1, <2>4 DEF BarrierPend, BarrierFills, InRound
    <3>2. BarrierFills'
      BY <1>0, <1>6, <2>1, <2>2, <2>3, <2>4, <3>1, ZenonT(90) DEF BarrierPend, BarrierFills
    <3> QED BY <1>6, <2>1, <2>4, <3>2 DEF BarrierPend, BarrierFull
  <2>5. CASE InRound = BarrierUsers
    <3>1. brLocal[t] = brStep
      BY <1>0, <1>6, <2>1, <2>5 DEF BarrierPend, InRound
    <3>2. /\ brSem[1 - brStep] = 0 /\ brHeight = BarrierHeight
          /\ \A u \in BarrierUsers : pc[u] \in {"br_flip"} \cup Sleeping
          /\ brSem[brStep] = Cardinality(Sleepers(brStep))
      BY <1>0, <1>6, <2>1, <2>5, <3>1 DEF BarrierPend, BarrierFull
    <3>3. Sleepers(brStep)' = Sleepers(brStep) \ {t}
          /\ Cardinality(Sleepers(brStep)') = Cardinality(Sleepers(brStep)) - 1
      BY <1>6, <2>2, <2>3, <3>1 DEF BarrierPend
    <3>4. BarrierFull'
      BY <1>0, <1>6, <2>1, <2>5, <3>1, <3>2, <3>3 DEF BarrierPend, BarrierFull
    <3> QED BY <1>6, <2>1, <2>5, <3>4 DEF BarrierPend, BarrierFills
  <2> QED BY <2>4, <2>5
<1>7. ASSUME NEW t \in PThreads, FlipStep(t) PROVE BarrierInv'
  <2>1. t \in BarrierUsers
    BY <1>7 DEF FlipStep
  <2>2. CASE brStep = brLocal[t]
    <3>1. InRound = BarrierUsers
      BY <1>0, <1>7, <2>1, <2>2 DEF FlipStep, BarrierFills, InRound
    <3>2. InRound' = {} /\ Cardinality({}) = 0
      BY <1>7, <2>1, <2>2, <3>1, FS_EmptySet DEF FlipStep, InRound
    <3>3. Sleepers(1 - brStep)' = Sleepers(brStep) /\ brStep' = 1 - brStep
      BY <1>7, <2>1, <2>2 DEF FlipStep, Sleepers
    <3>4. /\ \A u \in BarrierUsers : pc[u] \in {"br_flip"} \cup Sleeping /\ brLocal[u] = brStep
                                      /\ brEntered[u] = brSerial + 1
          /\ brHeight = BarrierHeight
          /\ brSem[brStep] = Cardinality(Sleepers(brStep)) /\ brSem[1 - brStep] = 0
      BY <1>0, <1>7, <2>1, <3>1 DEF FlipStep, BarrierFull, InRound
    <3>5. BarrierFills'
      BY <1>0, <1>7, <2>2, <3>2, <3>3, <3>4 DEF FlipStep, BarrierFills
    <3> QED BY <1>0, <1>7, <2>1, <2>2, <3>2, <3>4, <3>5 DEF FlipStep, BarrierFull
  <2>3. CASE brStep # brLocal[t]
    <3>1. InRound' = InRound /\ t \notin InRound
      BY <1>7, <2>1, <2>3 DEF FlipStep, InRound
    <3>2. \A i \in {0, 1} : Sleepers(i)' = Sleepers(i)
      BY <1>7 DEF FlipStep, Sleepers
    <3>3. BarrierFills'
      BY <1>0, <1>7, <2>3, <3>1, <3>2 DEF FlipStep, BarrierFills
    <3> QED BY <1>7, <2>1, <2>3, <3>1, <3>3 DEF FlipStep, BarrierFull
  <2> QED BY <2>2, <2>3
<1>8. ASSUME NEW t \in PThreads, BarrierCancelled(t) PROVE BarrierInv'
  <2>1. /\ pc[t] = "br_wait" /\ pc' = [pc EXCEPT ![t] = "exited"]
        /\ UNCHANGED <<component, brHeight, brStep, brSem, brLocal, brEntered, brSerial>>
    BY <1>8 DEF BarrierCancelled, Leaves, brVars
  <2>2. InRound' = InRound /\ \A i \in {0, 1} : Sleepers(i)' = Sleepers(i)
    BY <2>1 DEF InRound, Sleepers
  <2>3. BarrierFills'
    BY <1>0, <2>1, <2>2 DEF BarrierFills
  <2>4. BarrierFull'
    BY <1>0, <2>1, <2>2 DEF BarrierFull
  <2> QED BY <2>1, <2>2, <2>3, <2>4
<1> QED BY <1>1, <1>2, <1>3, <1>4, <1>5, <1>6, <1>7, <1>8 DEF BarrierNext, BarrierStep

\* The invariant of barriers gives lockstep.
LEMMA BarrierInvLockstep == BarrierFits /\ BarrierInv => BarrierLockstep
<1> SUFFICES ASSUME BarrierFits, BarrierInv, component = "barrier" PROVE BarrierLockstep
  BY DEF BarrierLockstep
<1> USE BarrierAssumption DEF BarrierInv, BarrierTypeOK, BarrierRounds
<1>1. ASSUME NEW t \in BarrierUsers, NEW u \in BarrierUsers PROVE Passed(t) <= brEntered[u]
  <2>1. CASE brEntered[t] = brSerial + 1 /\ pc[t] = "br_flip"
    <3>1. InRound = BarrierUsers
      BY <2>1 DEF BarrierFills, InRound, Sleeping
    <3> QED BY <2>1, <3>1 DEF Passed, InRound
  <2>2. CASE brEntered[t] = brSerial + 1 /\ pc[t] # "br_flip"
    BY <2>2 DEF Passed, Sleeping
  <2>3. CASE brEntered[t] = brSerial
    BY <2>3 DEF Passed
  <2> QED BY <2>1, <2>2, <2>3
<1>2. (\A t \in BarrierUsers : pc[t] = "idle") => \A t \in BarrierUsers : brSerial = brEntered[t]
  BY DEF Sleeping
<1> QED BY <1>1, <1>2 DEF BarrierLockstep

\* It gives every permit an owner,
LEMMA BarrierInvPermits == BarrierFits /\ BarrierInv => PermitsAreOwn
<1> SUFFICES ASSUME BarrierFits, BarrierInv, component = "barrier", NEW i \in {0, 1}
             PROVE  brSem[i] <= Cardinality(Sleepers(i))
  BY DEF PermitsAreOwn, Sleepers, Sleeping
<1>1. /\ brSem[brStep] \in {0, Cardinality(Sleepers(brStep))}
      /\ brSem[1 - brStep] \in {0, Cardinality(Sleepers(1 - brStep))}
  BY DEF BarrierInv, BarrierTypeOK, BarrierFills, BarrierFull
<1>2. i = brStep \/ i = 1 - brStep
  BY DEF BarrierInv, BarrierTypeOK
<1>3. Cardinality(Sleepers(i)) \in Nat
  BY BarrierCounts
<1>4. brSem[i] \in {0, Cardinality(Sleepers(i))}
  BY <1>1, <1>2
<1> QED BY <1>3, <1>4

\* and has those counted in wait for the others, or cancelled.
LEMMA BarrierInvStay == ASSUME BarrierFits, BarrierInv PROVE CountedInStay
<1> DEFINE waiting == {t \in BarrierUsers : pc[t] = "br_wait"}
<1> SUFFICES ASSUME component = "barrier", brHeight \in 1..BarrierHeight,
                    \A t \in BarrierUsers : pc[t] # "exited"
             PROVE  Cardinality(waiting) >= BarrierHeight - brHeight
  BY DEF CountedInStay
<1>0. IsFiniteSet(waiting) /\ Cardinality(waiting) \in Nat /\ BarrierHeight \in Nat
  <2>1. waiting \in SUBSET PThreads
    BY BarrierAssumption
  <2>2. IsFiniteSet(waiting)
    BY <2>1, FS_Subset
  <2> QED BY <2>1, <2>2, CountThreads, BarrierAssumption
<1>1. CASE InRound # BarrierUsers
  <2>1. InRound \subseteq waiting /\ brHeight = BarrierHeight - Cardinality(InRound)
    <3>1. brHeight = BarrierHeight - Cardinality(InRound)
      BY <1>1 DEF BarrierInv, BarrierFills
    <3>2. ASSUME NEW t \in InRound PROVE t \in waiting
      <4>1. t \in BarrierUsers /\ t \in PThreads
        BY BarrierAssumption DEF InRound
      <4>2. pc[t] \in {"br_wait", "exited"} /\ pc[t] # "exited"
        BY <1>1, <4>1 DEF BarrierInv, BarrierTypeOK, BarrierFills, Sleeping
      <4> QED BY <4>1, <4>2
    <3> QED BY <3>1, <3>2
  <2>2. Cardinality(InRound) <= Cardinality(waiting) /\ Cardinality(InRound) \in Nat
    BY <1>0, <2>1, FS_Subset, BarrierCounts
  <2> HIDE DEF waiting
  <2> QED BY <1>0, <2>1, <2>2
<1>2. CASE InRound = BarrierUsers
  <2>1. brHeight = BarrierHeight
    <3>1. brHeight # 0
      BY BarrierAssumption
    <3> QED BY <1>2, <3>1 DEF BarrierInv, BarrierFull
  <2> HIDE DEF waiting
  <2> QED BY <1>0, <2>1
<1> QED BY <1>1, <1>2
-----------------------------------------------------------------------------
CvSteps == {"idle", "cv_need_init", "cv_gate", "cv_count", "cv_unlock", "cv_queue",
            "cv_cleanup", "cv_leave", "cv_fold", "cv_left", "cv_open", "cv_relock",
            "cv_signal", "cv_select", "cv_close", "cv_take", "cv_unblocked", "cv_post",
            "cv_list", "cv_destroy_gate", "cv_destroy_try", "exited"}
CvOps == {"none", "lock", "wait", "timedwait", "signal", "broadcast", "destroy", "cancelled"}

\* Waiters that are counted and have not yet been through the cleanup.
Counted == {t \in PThreads : pc[t] \in {"cv_unlock", "cv_queue", "cv_cleanup", "cv_leave"}}

\* Threads that have closed the gate, or have become the one that opens it.
OwnsGate(t) == \/ pc[t] \in {"cv_count", "cv_take", "cv_open", "cv_destroy_try"}
               \/ pc[t] = "cv_left" /\ cvN[t] = 1

CondTypeOK ==
  /\ pc \in [PThreads -> CvSteps] /\ op \in [PThreads -> CvOps]
  /\ cvPtr \in {"static", "object", "null"}
  /\ cvBlocked \in Int /\ cvToUnblock \in Nat /\ cvGone \in Nat
  /\ cvGate \in {0, 1} /\ cvN \in [PThreads -> Int]
  /\ cvUnblock \in PThreads \cup {NoPThread} /\ cvList \in PThreads \cup {NoPThread}

\* mtxUnblockLock and pte_cond_list_lock are held at these steps, and by
\* threads that were cancelled at one of them.  pthread_cond_destroy returns
\* with pte_cond_list_lock only when mtxUnblockLock was taken away like that.
UnblockSteps == {"cv_leave", "cv_fold", "cv_left", "cv_select", "cv_close", "cv_take",
                 "cv_unblocked"}
ListSteps == {"cv_destroy_gate", "cv_destroy_try"}
CondLocks ==
  \A t \in PThreads :
    /\ pc[t] \in UnblockSteps => cvUnblock = t
    /\ pc[t] \in ListSteps => cvList = t
    /\ cvUnblock = t => pc[t] \in UnblockSteps \cup {"exited"}
    /\ cvList = t => \/ pc[t] \in ListSteps \cup {"exited"}
                     \/ \E u \in PThreads : cvUnblock = u /\ pc[u] = "exited"

\* The waiters inside are those blocked, less the ones gone, plus the ones
\* that have been signalled; a waiter is only gone when no signal is owed.
CondCounts ==
  /\ cvBlocked - cvGone + cvToUnblock = Cardinality(Counted)
  /\ cvBlocked >= cvGone
  /\ cvToUnblock > 0 => cvGone = 0
  /\ \A t \in PThreads :
       /\ pc[t] \in {"cv_close", "cv_take"} => cvToUnblock = 0 /\ cvBlocked > cvGone
       /\ pc[t] = "cv_fold" => cvN[t] = 0
       /\ pc[t] = "cv_left" => cvN[t] = 0 \/ cvToUnblock = cvN[t] - 1

\* The gate has one owner: a thread, or the signals on their way.
CondGateOwner ==
  /\ \A t, u \in PThreads : OwnsGate(t) /\ OwnsGate(u) => t = u
  /\ \A t \in PThreads : OwnsGate(t) => cvGate = 0 /\ cvToUnblock = 0
  /\ cvToUnblock > 0 => cvGate = 0

\* While the variable is being destroyed, everybody else inside is a waiter
\* on its way out that has been signalled.
CondDestroying ==
  /\ \A t \in PThreads :
       op[t] = "destroy" <=> pc[t] \in {"cv_list", "cv_destroy_gate", "cv_destroy_try"}
  /\ \A t, u \in PThreads : op[t] = "destroy" /\ op[u] = "destroy" => t = u
  /\ Destroying =>
       /\ cvBlocked = cvGone /\ cvPtr = "object"
       /\ \A u \in PThreads :
            \/ pc[u] \in {"idle", "exited", "cv_relock", "cv_queue", "cv_cleanup", "cv_leave",
                          "cv_open", "cv_list", "cv_destroy_gate", "cv_destroy_try"}
            \/ pc[u] = "cv_left" /\ cvN[u] > 0

\* Without an object nobody is beyond the test; without an initialiser nobody
\* is going to make one.
CondNoObject ==
  /\ cvPtr = "static" => \A t \in PThreads : pc[t] \in {"idle", "cv_need_init"}
  /\ cvPtr = "null" => \A t \in PThreads : pc[t] \in {"idle", "exited", "cv_relock"}

\* The inductive invariant of condition variables.
CondInv ==
  component = "cond" =>
    CondTypeOK /\ CondLocks /\ CondCounts /\ CondGateOwner /\ CondDestroying /\ CondNoObject

\* No step of a condition variable call changes what the behaviour is about.
LEMMA CondKeepsComponent == CondNext => component' = component
  BY DEF CondNext, LockUser, UnlockUser, pthread_cond_wait, pthread_cond_timedwait, CondWait,
         pthread_cond_signal, pthread_cond_broadcast, CondSignal, CondDestroy, CondStep,
         CondCheckNeedInit, PassGate, CountWaiter, ReleaseUser, Woken, TimedOut, LockUnblock,
         LeaveCounts, FoldGone, UnlockAfterLeave, OpenGate, Relock, SelectWaiters, CloseGate,
         TakeWaiters, UnlockAfterSelect, PostSignals, LockList, DestroyGate, DestroyBusy,
         DestroyFree, WaitCancelled, CancelledAtGate, Enter, Goto, Return, Leaves, commonVars

\* The invariant of condition variables holds before the first wait.
LEMMA CondInvInit == Init => CondInv
<1> SUFFICES ASSUME Init PROVE CondInv
  OBVIOUS
<1>1. Counted = {}
  BY DEF Init, CommonInit, Counted
<1>2. Cardinality(Counted) = 0
  BY <1>1, FS_EmptySet
<1> QED
  BY <1>2 DEF Init, CommonInit, CvVarsInit, CondInv, CondTypeOK, CvSteps, CvOps, CondLocks,
              UnblockSteps, ListSteps,
              CondCounts, CondGateOwner, OwnsGate, CondDestroying, Destroying, CondNoObject

\* Every step of a condition variable call keeps its invariant, as long as a
\* variable is destroyed only when nobody but signalled waiters is inside.
LEMMA CondInvStep ==
  ASSUME CondInv, component = "cond", CondNext, BusyAtDestroy = FALSE
  PROVE  CondInv'
<1> USE DEF CondInv, CondTypeOK, CvSteps, CvOps, CondLocks, UnblockSteps, ListSteps, OwnsGate,
            CondGateOwner, CondDestroying, Destroying, CondNoObject, Goto, Return, Enter, Leaves,
            cvVars, cvLocks, cvCounts
<1>0. /\ Counted \in SUBSET PThreads /\ Cardinality(Counted) \in Nat
      /\ Cardinality(Counted) = 0 <=> Counted = {}
      /\ CondCounts
  BY CountThreads DEF Counted
<1>1. ASSUME NEW t \in PThreads, LockUser(t) \/ UnlockUser(t) PROVE CondInv'
  <2>1. UNCHANGED <<pc, op, component, cvPtr, cvBlocked, cvToUnblock, cvGone, cvGate,
                    cvUnblock, cvList, cvN>>
    BY <1>1 DEF LockUser, UnlockUser, commonVars
  <2>2. Counted' = Counted
    BY <2>1 DEF Counted
  <2>3. CondCounts'
    BY <1>0, <2>1, <2>2 DEF CondCounts
  <2> QED BY <2>1, <2>3
<1>2. ASSUME NEW t \in PThreads, NEW o \in {"wait", "timedwait"}, CondWait(t, o) PROVE CondInv'
  <2>1. Counted' = Counted
    BY <1>2 DEF CondWait, Counted
  <2>2. CondCounts'
    BY <1>0, <1>2, <2>1 DEF CondWait, CondCounts
  <2> QED BY <1>2, <2>2 DEF CondWait
<1>3. ASSUME NEW t \in PThreads, NEW o \in {"signal", "broadcast"}, CondSignal(t, o) PROVE CondInv'
  <2>1. Counted' = Counted
    BY <1>3 DEF CondSignal, Counted
  <2>2. CondCounts'
    BY <1>0, <1>3, <2>1 DEF CondSignal, CondCounts
  <2> QED BY <1>3, <2>2 DEF CondSignal
<1>4. ASSUME NEW t \in PThreads, CondDestroy(t) PROVE CondInv'
  <2>1. Counted' = Counted
    BY <1>4 DEF CondDestroy, Counted
  <2>2. \A u \in PThreads :
            \/ pc[u] \in {"idle", "exited", "cv_relock", "cv_queue", "cv_cleanup", "cv_leave",
                          "cv_open"}
            \/ pc[u] = "cv_left" /\ cvN[u] > 0
    BY <1>4 DEF CondDestroy, OnlySignalledInside
  <2> QED BY <1>0, <1>4, <2>1, <2>2 DEF CondDestroy, CondCounts
<1>5. ASSUME NEW t \in PThreads,
             \/ CondCheckNeedInit(t) \/ PassGate(t) \/ ReleaseUser(t) \/ Woken(t) \/ TimedOut(t)
             \/ LockUnblock(t) \/ UnlockAfterLeave(t) \/ OpenGate(t) \/ Relock(t)
      PROVE  CondInv'
  <2>1. Counted' = Counted
    BY <1>5 DEF CondCheckNeedInit, PassGate, ReleaseUser, Woken, TimedOut, LockUnblock,
                UnlockAfterLeave, OpenGate, Relock, Counted
  <2>2. CASE CondCheckNeedInit(t)
    <3>1. /\ pc[t] = "cv_need_init" /\ pc' = [pc EXCEPT ![t] = "cv_gate"]
          /\ cvPtr' = "object"
          /\ UNCHANGED <<component, op, cvBlocked, cvToUnblock, cvGone, cvGate, cvUnblock, cvList,
                         cvN>>
      BY <2>2 DEF CondCheckNeedInit
    <3>2. CondCounts'
      <4>1. \A u \in PThreads :
              pc'[u] \in {"cv_close", "cv_take", "cv_fold", "cv_left"} => pc[u] = pc'[u]
        BY <3>1
      <4>2. UNCHANGED <<cvBlocked, cvToUnblock, cvGone, cvN>>
        BY <3>1
      <4> QED BY <1>0, <2>1, <4>1, <4>2 DEF CondCounts
    <3>3. CondTypeOK' /\ CondLocks'
      BY <3>1
    <3>4. CondNoObject' /\ CondGateOwner'
      BY <3>1
    <3>5. CondDestroying'
      BY <3>1
    <3> QED BY <3>1, <3>2, <3>3, <3>4, <3>5
  <2>3. CASE PassGate(t)
    <3>1. CondTypeOK' /\ CondLocks' /\ CondNoObject'
      BY <2>1, <2>3 DEF PassGate
    <3>2. CondCounts'
      BY <1>0, <2>1, <2>3 DEF PassGate, CondCounts
    <3>3. CondGateOwner'
      BY <2>1, <2>3 DEF PassGate
    <3>4. CondDestroying'
      <4>1. pc[t] = "cv_gate" /\ ~Destroying
        BY <2>3 DEF PassGate
      <4>2. pc' = [pc EXCEPT ![t] = "cv_count"] /\ op' = op
        BY <2>3 DEF PassGate
      <4> QED BY <4>1, <4>2
    <3> QED BY <2>1, <2>3, <3>1, <3>2, <3>3, <3>4 DEF PassGate
  <2>4. CASE ReleaseUser(t) \/ Woken(t) \/ TimedOut(t)
    <3>1. \E s \in {"cv_queue", "cv_cleanup"} :
            /\ pc' = [pc EXCEPT ![t] = s] /\ pc[t] \in {"cv_unlock", "cv_queue"}
            /\ s = "cv_queue" => pc[t] = "cv_unlock"
            /\ UNCHANGED <<component, op, cvPtr, cvBlocked, cvToUnblock, cvGone, cvGate, cvUnblock,
                           cvList, cvN>>
      BY <2>4 DEF ReleaseUser, Woken, TimedOut
    <3>2. CondCounts'
      <4>1. \A u \in PThreads :
              pc'[u] \in {"cv_close", "cv_take", "cv_fold", "cv_left"} => pc[u] = pc'[u]
        BY <3>1
      <4>2. UNCHANGED <<cvBlocked, cvToUnblock, cvGone, cvN>>
        BY <3>1
      <4> QED BY <1>0, <2>1, <4>1, <4>2 DEF CondCounts
    <3>3. CondTypeOK' /\ CondLocks' /\ CondNoObject' /\ CondGateOwner'
      BY <3>1
    <3>4. CondDestroying'
      BY <3>1
    <3> QED BY <3>1, <3>2, <3>3, <3>4
  <2>5. CASE LockUnblock(t)
    <3>1. \E s \in {"cv_leave", "cv_select"} :
            /\ pc' = [pc EXCEPT ![t] = s] /\ op' = op
            /\ pc[t] = (IF s = "cv_leave" THEN "cv_cleanup" ELSE "cv_signal")
            /\ cvUnblock = NoPThread /\ cvUnblock' = t
            /\ UNCHANGED <<component, cvPtr, cvBlocked, cvToUnblock, cvGone, cvGate, cvList, cvN>>
      BY <2>5 DEF LockUnblock
    <3>2. CondCounts'
      <4>1. \A u \in PThreads :
              pc'[u] \in {"cv_close", "cv_take", "cv_fold", "cv_left"} => pc[u] = pc'[u]
        BY <3>1
      <4>2. UNCHANGED <<cvBlocked, cvToUnblock, cvGone, cvN>>
        BY <3>1
      <4> QED BY <1>0, <2>1, <4>1, <4>2 DEF CondCounts
    <3>3. CondTypeOK' /\ CondNoObject' /\ CondGateOwner'
      <4>1. CondTypeOK'
        BY <3>1
      <4>2. CondNoObject'
        BY <3>1
      <4>3. CondGateOwner'
        BY <3>1
      <4> QED BY <4>1, <4>2, <4>3
    <3>4. CondLocks'
      BY <3>1
    <3>5. CondDestroying'
      BY <3>1
    <3> QED BY <3>1, <3>2, <3>3, <3>4, <3>5
  <2>6. CASE UnlockAfterLeave(t)
    <3>1. CondTypeOK' /\ CondLocks' /\ CondNoObject'
      BY <2>1, <2>6 DEF UnlockAfterLeave
    <3>2. CondCounts'
      BY <1>0, <2>1, <2>6 DEF UnlockAfterLeave, CondCounts
    <3>3. CondGateOwner'
      BY <2>1, <2>6 DEF UnlockAfterLeave
    <3>4. CondDestroying'
      <4>1. /\ pc[t] = "cv_left" /\ op' = op
            /\ pc' = [pc EXCEPT ![t] = IF cvN[t] = 1 THEN "cv_open" ELSE "cv_relock"]
            /\ UNCHANGED <<cvBlocked, cvGone, cvPtr, cvN>>
        BY <2>6 DEF UnlockAfterLeave
      <4> QED BY <4>1
    <3> QED BY <2>1, <2>6, <3>1, <3>2, <3>3, <3>4 DEF UnlockAfterLeave
  <2>7. CASE OpenGate(t)
    BY <1>0, <2>1, <2>7 DEF OpenGate, CondCounts
  <2>8. CASE Relock(t)
    <3>1. \E s \in {"idle", "exited"} :
            /\ pc[t] = "cv_relock" /\ pc' = [pc EXCEPT ![t] = s]
            /\ s = "exited" => op[t] = "cancelled"
            /\ op' = [op EXCEPT ![t] = "none"] /\ cvN' = [cvN EXCEPT ![t] = 0]
            /\ UNCHANGED <<component, cvPtr, cvBlocked, cvToUnblock, cvGone, cvGate, cvUnblock,
                           cvList>>
      BY <2>8 DEF Relock
    <3>2. CondCounts'
      BY <1>0, <2>1, <3>1 DEF CondCounts
    <3>3. CondTypeOK' /\ CondLocks' /\ CondNoObject' /\ CondGateOwner'
      BY <3>1
    <3>4. CondDestroying'
      BY <3>1
    <3> QED BY <3>1, <3>2, <3>3, <3>4
  <2> QED BY <1>5, <2>2, <2>3, <2>4, <2>5, <2>6, <2>7, <2>8
<1>6. ASSUME NEW t \in PThreads, CountWaiter(t) PROVE CondInv'
  <2>1. Counted' = Counted \cup {t} /\ t \notin Counted
    BY <1>6 DEF CountWaiter, Counted
  <2>2. Cardinality(Counted') = Cardinality(Counted) + 1
    BY <1>0, <2>1, AddThread
  <2> QED BY <1>0, <1>6, <2>2 DEF CountWaiter, CondCounts
<1>7. ASSUME NEW t \in PThreads, LeaveCounts(t) PROVE CondInv'
  <2>1. Counted' = Counted \ {t} /\ t \in Counted
    BY <1>7 DEF LeaveCounts, Counted
  <2>2. Cardinality(Counted') = Cardinality(Counted) - 1 /\ Cardinality(Counted) >= 1
    BY <1>0, <2>1, RemoveThread
  <2>3. CondCounts'
    BY <1>0, <1>7, <2>2 DEF LeaveCounts, CondCounts
  <2>4. CondGateOwner'
    BY <1>0, <1>7 DEF LeaveCounts
  <2>5. CondDestroying'
    BY <1>0, <1>7, <2>2 DEF LeaveCounts, CondCounts
  <2> QED BY <1>7, <2>3, <2>4, <2>5 DEF LeaveCounts
<1>8. ASSUME NEW t \in PThreads, FoldGone(t) PROVE CondInv'
  <2>1. Counted' = Counted
    BY <1>8 DEF FoldGone, Counted
  <2>2. /\ pc[t] = "cv_fold" /\ cvUnblock = t /\ ~Destroying /\ cvN[t] = 0
        /\ cvBlocked >= cvGone
        /\ \A u \in PThreads \ {t} : pc[u] \notin {"cv_left", "cv_fold", "cv_close", "cv_take"}
    BY <1>0, <1>8 DEF FoldGone, CondCounts
  <2>3. /\ cvBlocked' = cvBlocked - cvGone /\ cvGone' = 0
        /\ pc' = [pc EXCEPT ![t] = "cv_left"]
        /\ UNCHANGED <<component, op, cvPtr, cvToUnblock, cvGate, cvUnblock, cvList, cvN>>
    BY <1>8 DEF FoldGone
  <2>4. CondTypeOK' /\ CondLocks' /\ CondNoObject'
    BY <2>2, <2>3
  <2>5. CondCounts'
    BY <1>0, <2>1, <2>2, <2>3 DEF CondCounts
  <2>6. CondGateOwner' /\ CondDestroying'
    BY <2>2, <2>3
  <2> QED BY <2>3, <2>4, <2>5, <2>6
<1>9. ASSUME NEW t \in PThreads, SelectWaiters(t) PROVE CondInv'
  <2>1. Counted' = Counted
    BY <1>9 DEF SelectWaiters, Counted
  <2>2. pc[t] = "cv_select" /\ cvUnblock = t /\ ~Destroying
        /\ \A u \in PThreads \ {t} : pc[u] \notin {"cv_left", "cv_fold", "cv_close", "cv_take"}
    BY <1>9 DEF SelectWaiters
  <2>3. CASE cvToUnblock # 0 /\ cvBlocked # 0
    <3>1. /\ cvGone = 0 /\ cvBlocked \in Nat /\ cvGate = 0
          /\ \A u \in PThreads : ~OwnsGate(u)
      BY <1>0, <2>3 DEF CondCounts
    <3>2. PICK n \in Nat :
            /\ n >= 1 /\ n <= cvBlocked
            /\ cvToUnblock' = cvToUnblock + n /\ cvBlocked' = cvBlocked - n
            /\ cvN' = [cvN EXCEPT ![t] = n]
      BY <1>9, <2>3, <3>1 DEF SelectWaiters
    <3>3. /\ pc' = [pc EXCEPT ![t] = "cv_unblocked"]
          /\ UNCHANGED <<component, op, cvPtr, cvGone, cvGate, cvUnblock, cvList>>
      BY <1>9, <2>3 DEF SelectWaiters
    <3>4. CondTypeOK' /\ CondLocks' /\ CondNoObject'
      BY <2>2, <3>1, <3>2, <3>3
    <3>5. CondCounts'
      BY <1>0, <2>1, <2>2, <3>1, <3>2, <3>3 DEF CondCounts
    <3>6. CondGateOwner' /\ CondDestroying'
      BY <2>2, <3>1, <3>2, <3>3
    <3> QED BY <3>3, <3>4, <3>5, <3>6
  <2>4. CASE ~(cvToUnblock # 0 /\ cvBlocked # 0)
    <3>1. CondTypeOK' /\ CondLocks' /\ CondNoObject'
      BY <1>9, <2>2, <2>4 DEF SelectWaiters
    <3>2. CondCounts'
      BY <1>0, <1>9, <2>1, <2>2, <2>4 DEF SelectWaiters, CondCounts
    <3>3. CondGateOwner' /\ CondDestroying'
      BY <1>9, <2>2, <2>4 DEF SelectWaiters
    <3> QED BY <1>9, <2>4, <3>1, <3>2, <3>3 DEF SelectWaiters
  <2> QED BY <2>3, <2>4
<1>10. ASSUME NEW t \in PThreads, CloseGate(t) PROVE CondInv'
  <2>1. Counted' = Counted
    BY <1>10 DEF CloseGate, Counted
  <2> QED BY <1>0, <1>10, <2>1 DEF CloseGate, CondCounts
<1>11. ASSUME NEW t \in PThreads, TakeWaiters(t) PROVE CondInv'
  <2>1. Counted' = Counted
    BY <1>11 DEF TakeWaiters, Counted
  <2>2. /\ pc[t] = "cv_take" /\ cvUnblock = t /\ ~Destroying
        /\ cvToUnblock = 0 /\ cvBlocked > cvGone
        /\ \A u \in PThreads \ {t} :
             pc[u] \notin {"cv_left", "cv_fold", "cv_close", "cv_take"} /\ ~OwnsGate(u)
    BY <1>0, <1>11 DEF TakeWaiters, CondCounts
  <2>3. PICK n \in Nat :
          /\ n >= 1 /\ n <= cvBlocked - cvGone
          /\ cvToUnblock' = n /\ cvBlocked' = cvBlocked - cvGone - n /\ cvGone' = 0
          /\ cvN' = [cvN EXCEPT ![t] = n]
    <3> DEFINE m == IF op[t] = "broadcast" THEN cvBlocked - cvGone ELSE 1
    <3>1. m \in Nat /\ m >= 1 /\ m <= cvBlocked - cvGone
      BY <2>2
    <3>2. /\ cvToUnblock' = m /\ cvBlocked' = cvBlocked - cvGone - m /\ cvGone' = 0
          /\ cvN' = [cvN EXCEPT ![t] = m]
      BY <1>11 DEF TakeWaiters
    <3> HIDE DEF m
    <3> QED BY <3>1, <3>2
  <2>4. /\ pc' = [pc EXCEPT ![t] = "cv_unblocked"]
        /\ UNCHANGED <<component, op, cvPtr, cvGate, cvUnblock, cvList>>
    BY <1>11 DEF TakeWaiters
  <2>5. cvGate = 0
    BY <2>2
  <2>6. CondTypeOK' /\ CondLocks' /\ CondNoObject'
    BY <2>2, <2>3, <2>4
  <2>7. CondCounts'
    BY <1>0, <2>1, <2>2, <2>3, <2>4 DEF CondCounts
  <2>8. CondGateOwner' /\ CondDestroying'
    BY <2>2, <2>3, <2>4, <2>5
  <2> QED BY <2>4, <2>6, <2>7, <2>8
<1>12. ASSUME NEW t \in PThreads, UnlockAfterSelect(t) \/ PostSignals(t) PROVE CondInv'
  <2>1. Counted' = Counted
    BY <1>12 DEF UnlockAfterSelect, PostSignals, Counted
  <2>2. CondTypeOK' /\ CondLocks' /\ CondNoObject'
    BY <1>12 DEF UnlockAfterSelect, PostSignals
  <2>3. /\ UNCHANGED cvCounts
        /\ \A u \in PThreads :
             /\ pc'[u] \in {"cv_left", "cv_fold", "cv_close", "cv_take"} => pc[u] = pc'[u]
             /\ pc'[u] \in {"cv_left", "cv_fold"} => cvN'[u] = cvN[u]
    BY <1>12 DEF UnlockAfterSelect, PostSignals
  <2>4. CondCounts'
    BY <1>0, <2>1, <2>3 DEF CondCounts
  <2>5. CondGateOwner' /\ CondDestroying'
    BY <1>0, <1>12 DEF UnlockAfterSelect, PostSignals
  <2> QED BY <1>12, <2>2, <2>4, <2>5 DEF UnlockAfterSelect, PostSignals
<1>13. ASSUME NEW t \in PThreads, LockList(t) \/ DestroyGate(t) PROVE CondInv'
  <2>1. Counted' = Counted
    BY <1>13 DEF LockList, DestroyGate, Counted
  <2> QED BY <1>0, <1>13, <2>1 DEF LockList, DestroyGate, CondCounts
<1>14. ASSUME NEW t \in PThreads, pc[t] = "cv_destroy_try"
       PROVE  \A u \in PThreads \ {t} : pc[u] \in {"idle", "exited", "cv_relock"}
  <2>1. Destroying /\ cvToUnblock = 0
    BY <1>14
  <2>2. Counted = {}
    BY <1>0, <2>1 DEF CondCounts
  <2>3. \A u \in PThreads \ {t} : ~OwnsGate(u)
    BY <1>14
  <2> QED BY <1>0, <1>14, <2>1, <2>2, <2>3 DEF CondCounts, Counted
<1>15. ASSUME NEW t \in PThreads, DestroyBusy(t) PROVE CondInv'
  <2>1. \E u \in PThreads : cvUnblock = u /\ pc[u] = "exited" /\ u # t
    BY <1>14, <1>15 DEF DestroyBusy
  <2>2. Counted' = Counted
    BY <1>15 DEF DestroyBusy, Counted
  <2> QED BY <1>0, <1>14, <1>15, <2>1, <2>2 DEF DestroyBusy, CondCounts
<1>16. ASSUME NEW t \in PThreads, DestroyFree(t) PROVE CondInv'
  <2>1. Counted' = Counted
    BY <1>16 DEF DestroyFree, Counted
  <2> QED BY <1>0, <1>14, <1>16, <2>1 DEF DestroyFree, CondCounts
<1>17. ASSUME NEW t \in PThreads, WaitCancelled(t) PROVE CondInv'
  <2>1. /\ pc[t] = "cv_queue" /\ pc' = [pc EXCEPT ![t] = "cv_cleanup"]
        /\ op' = [op EXCEPT ![t] = "cancelled"]
        /\ UNCHANGED <<component, cvPtr, cvBlocked, cvToUnblock, cvGone, cvGate, cvUnblock, cvList,
                       cvN>>
    BY <1>17 DEF WaitCancelled
  <2>2. Counted' = Counted
    BY <2>1 DEF Counted
  <2>3. CondCounts'
    BY <1>0, <2>1, <2>2 DEF CondCounts
  <2>4. CondTypeOK' /\ CondLocks' /\ CondNoObject' /\ CondGateOwner'
    <3>2. CondTypeOK'
      BY <2>1
    <3>3. CondLocks'
      BY <2>1
    <3>4. CondNoObject'
      BY <2>1
    <3>5. CondGateOwner'
      BY <2>1
    <3> QED BY <3>2, <3>3, <3>4, <3>5
  <2>5. CondDestroying'
    <3>1. op[t] # "destroy"
      BY <2>1
    <3>2. \A u \in PThreads : op'[u] = "destroy" <=> op[u] = "destroy"
      BY <2>1, <3>1
    <3>3. \A u \in PThreads :
            IF u = t THEN pc[u] = "cv_queue" /\ pc'[u] = "cv_cleanup" ELSE pc'[u] = pc[u]
      BY <2>1
    <3> QED BY <2>1, <3>1, <3>2, <3>3
  <2> QED BY <2>1, <2>3, <2>4, <2>5
<1>18. ASSUME NEW t \in PThreads, CancelledAtGate(t) PROVE CondInv'
  <2>1. /\ pc[t] \in {"cv_gate", "cv_fold", "cv_close", "cv_destroy_gate"}
        /\ pc' = [pc EXCEPT ![t] = "exited"] /\ op' = [op EXCEPT ![t] = "none"]
        /\ UNCHANGED <<component, cvPtr, cvBlocked, cvToUnblock, cvGone, cvGate, cvUnblock, cvList,
                       cvN>>
    BY <1>18 DEF CancelledAtGate
  <2>2. Counted' = Counted
    BY <2>1 DEF Counted
  <2>3. CondCounts'
    BY <1>0, <2>1, <2>2 DEF CondCounts
  <2>4. CondTypeOK' /\ CondLocks' /\ CondNoObject' /\ CondGateOwner'
    BY <2>1
  <2>5. CondDestroying'
    BY <2>1
  <2> QED BY <2>1, <2>3, <2>4, <2>5
<1> QED
  BY <1>1, <1>2, <1>3, <1>4, <1>5, <1>6, <1>7, <1>8, <1>9, <1>10, <1>11, <1>12, <1>13,
     <1>15, <1>16, <1>17, <1>18
  DEF CondNext, CondStep, pthread_cond_wait, pthread_cond_timedwait, pthread_cond_signal,
      pthread_cond_broadcast

\* The invariant of condition variables gives the properties of the gate.
LEMMA CondInvGate == CondInv => CondGate
  BY DEF CondInv, CondTypeOK, CondLocks, CondCounts, CondGateOwner, CondDestroying,
         CondNoObject, CondGate, UsesCond

\* It tells, with the invariant of read-write locks, who keeps an inner lock.
LEMMA CondInvLocks == CondInv /\ RwInv => LocksComeBack
  BY DEF CondInv, CondTypeOK, CondLocks, UnblockSteps, ListSteps, RwInv, RwMutexes,
         LocksComeBack, LockTakenAway, HasInnerLock
-----------------------------------------------------------------------------
\* A behaviour is about one object from beginning to end.
LEMMA KeepsComponent == [Next]_vars => component' = component
  BY MutexKeepsComponent, SemKeepsComponent, CondKeepsComponent, RwKeepsComponent,
     BarrierKeepsComponent, OnceKeepsComponent, SpinKeepsComponent
  DEF Next, vars, commonVars

\* A step of the library is a step of the object the behaviour is about.
LEMMA StepOfComponent ==
  ASSUME [Next]_vars
  PROVE  /\ component = "mutex" => MutexNext \/ UNCHANGED vars
         /\ component = "sem" => SemNext \/ UNCHANGED vars
         /\ component = "cond" => CondNext \/ UNCHANGED vars
         /\ component = "rwlock" => RwNext \/ UNCHANGED vars
         /\ component = "barrier" => BarrierNext \/ UNCHANGED vars
         /\ component = "once" => OnceNext \/ UNCHANGED vars
         /\ component = "spin" => SpinNext \/ UNCHANGED vars
  BY DEF Next

\* Steps that change nothing keep the invariants.
LEMMA MutexStutter == MutexInv /\ UNCHANGED vars => MutexInv'
  BY DEF vars, commonVars, mxVars, MutexInv, MutexTypeOK, MxOneHolder, MxHolders, MxHalfway,
         MxOwnerHolds, MxNoObject
LEMMA RwStutter == RwInv /\ UNCHANGED vars => RwInv'
  BY DEF vars, commonVars, rwVars, rwCounts, RwInv, RwTypeOK, RwMutexes, RwPhases, RwWriter,
         RwCounted, RwNoObject, Inside, Holding, Waiting
LEMMA SpinStutter == SpinInv /\ UNCHANGED vars => SpinInv'
  BY DEF vars, commonVars, spVars, SpinInv, SpinAgrees, SpinNoObject
LEMMA SemStutter == SemInv /\ UNCHANGED vars => SemInv'
  BY DEF vars, commonVars, smVars, SemInv, SemTypeOK, SemPending
LEMMA CondStutter == CondInv /\ UNCHANGED vars => CondInv'
  BY DEF vars, commonVars, cvVars, cvCounts, cvLocks, CondInv, CondTypeOK, CondLocks,
         CondCounts, Counted, CondGateOwner, OwnsGate, CondDestroying, Destroying, CondNoObject
LEMMA BarrierStutter == BarrierInv /\ UNCHANGED vars => BarrierInv'
  BY DEF vars, commonVars, brVars, BarrierInv, BarrierTypeOK, BarrierRounds, BarrierFills,
         BarrierFull, InRound, Sleepers
LEMMA OnceStutter == OnceInv /\ UNCHANGED vars => OnceInv'
  BY DEF vars, commonVars, onVars, onShared, OnceInv

\* Mutexes, read-write locks and spin locks exclude, for every number of threads,
\* calls and readers (pthread_mutex_lock, pthread_rwlock_wrlock, pthread_spin_lock).
THEOREM LocksAlwaysExclude == Spec => []LocksExclude
<1> DEFINE Inv == MutexInv /\ RwInv /\ SpinInv
<1>1. Init => Inv
  BY MutexInvInit, RwInvInit, SpinInvInit
<1>2. Inv /\ [Next]_vars => Inv'
  <2> SUFFICES ASSUME Inv, [Next]_vars PROVE Inv'
    OBVIOUS
  <2>1. MutexInv'
    BY StepOfComponent, KeepsComponent, MutexInvStep, MutexStutter DEF MutexInv
  <2>2. RwInv'
    BY StepOfComponent, KeepsComponent, RwInvStep, RwStutter DEF RwInv
  <2>3. SpinInv'
    BY StepOfComponent, KeepsComponent, SpinInvStep, SpinStutter DEF SpinInv
  <2> QED BY <2>1, <2>2, <2>3
<1>3. Inv => LocksExclude
  BY MutexInvExcludes, RwInvExcludes, SpinInvExcludes DEF LocksExclude
<1> QED BY <1>1, <1>2, <1>3, PTL DEF Spec

\* The value of a POSIX semaphore is the permits less the waiters that have not
\* taken theirs, for every number of threads and calls (sem_wait, sem_timedwait,
\* sem_post, the cleanup handler).
THEOREM SemCountsAlwaysAgree == Spec => []SemCountsAgree
<1>1. Init => SemInv
  BY SemInvInit
<1>2. SemInv /\ [Next]_vars => SemInv'
  BY StepOfComponent, KeepsComponent, SemInvStep, SemStutter DEF SemInv
<1>3. SemInv => SemCountsAgree
  BY DEF SemInv, SemPending, SemCountsAgree
<1> QED BY <1>1, <1>2, <1>3, PTL DEF Spec

\* The gate of a condition variable is closed while signals are owed, and a
\* destroyed variable is one that nobody is going to touch, as long as a variable
\* is destroyed only when nobody but signalled waiters is inside
\* (pthread_cond_wait, pte_cond_unblock, pthread_cond_destroy).
THEOREM CondGateAlwaysKept == ASSUME BusyAtDestroy = FALSE PROVE Spec => []CondGate
<1>1. Init => CondInv
  BY CondInvInit
<1>2. CondInv /\ [Next]_vars => CondInv'
  BY StepOfComponent, KeepsComponent, CondInvStep, CondStutter DEF CondInv
<1>3. CondInv => CondGate
  BY CondInvGate
<1> QED BY <1>1, <1>2, <1>3, PTL DEF Spec

\* Barrier rounds stay in lockstep when the barrier has as many users as its
\* count, and pthread_once runs its routine once (pthread_barrier_wait,
\* pthread_once), for every number of threads, rounds and cancellations.
THEOREM CallersAlwaysMeet == ASSUME BarrierFits PROVE Spec => []CallersMeet
<1> DEFINE Inv == BarrierInv /\ OnceInv
<1>1. Init => Inv
  BY BarrierInvInit, OnceInvInit
<1>2. Inv /\ [Next]_vars => Inv'
  <2> SUFFICES ASSUME Inv, [Next]_vars PROVE Inv'
    OBVIOUS
  <2>1. BarrierInv'
    BY StepOfComponent, KeepsComponent, BarrierInvStep, BarrierStutter DEF BarrierInv
  <2>2. OnceInv'
    BY StepOfComponent, KeepsComponent, OnceInvStep, OnceStutter DEF OnceInv
  <2> QED BY <2>1, <2>2
<1>3. Inv => CallersMeet
  BY BarrierInvLockstep, BarrierInvPermits, BarrierInvStay, OnceInvRunsOnce DEF CallersMeet
<1> QED BY <1>1, <1>2, <1>3, PTL DEF Spec

\* A thread that is back from a call has no lock of the library, unless a thread
\* that was cancelled has taken one away; this when a condition variable is
\* destroyed only while nobody but signalled waiters is inside (pte_cond_unblock,
\* pte_cond_wait_cleanup, pthread_cond_destroy, pthread_rwlock_unlock).
THEOREM LocksAlwaysComeBack == ASSUME BusyAtDestroy = FALSE PROVE Spec => []LocksComeBack
<1>1. Init => CondInv /\ RwInv
  BY CondInvInit, RwInvInit
<1>2. CondInv /\ [Next]_vars => CondInv'
  BY StepOfComponent, KeepsComponent, CondInvStep, CondStutter DEF CondInv
<1>3. RwInv /\ [Next]_vars => RwInv'
  BY StepOfComponent, KeepsComponent, RwInvStep, RwStutter DEF RwInv
<1>4. CondInv /\ RwInv => LocksComeBack
  BY CondInvLocks
<1> QED BY <1>1, <1>2, <1>3, <1>4, PTL DEF Spec
=============================================================================
