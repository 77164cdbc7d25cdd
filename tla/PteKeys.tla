------------------------------ MODULE PteKeys ------------------------------
(***************************************************************************)
(* Thread-specific data: the library's keys with their destructors         *)
(* (posix/pthread_key_*.c, pthread_setspecific.c, pte_tkAssoc*.c,          *)
(* pte_callUserDestroyRoutines.c) over the platform's storage              *)
(* (platform/tls.c, tls-implement.c): a binary tree for each pthread and   *)
(* one tree for all other threads.  A tree is the sequence of its keys in  *)
(* the order of insertion, which determines its shape.                     *)
(*                                                                         *)
(* A thread's threadLock is only held inside a step; a key's keyLock is    *)
(* held across steps by pthread_setspecific and pthread_key_delete.        *)
(***************************************************************************)
EXTENDS PteCommon, SequencesExt

CONSTANTS
  PKeys,           \* the application's pthread_key_t
  NoPKey,
  KeyCreators,     \* threads that create keys
  DestructorSets,  \* bound: values that destructors set again
  PTHREAD_DESTRUCTOR_ITERATIONS

ASSUME KeysAssumption ==
  /\ KeyCreators \subseteq PThreads /\ IsFiniteSet(PKeys) /\ NoPKey \notin PKeys
  /\ DestructorSets \in Nat /\ PTHREAD_DESTRUCTOR_ITERATIONS \in Nat \ {0}

VARIABLES
  kyNum,     \* key->key, 0 before pthread_key_create and after free
  kyDtor,    \* keys with a destructor
  kyGone,    \* keys that have been deleted
  kyLock,    \* holder of key->keyLock
  kyTree,    \* the tree of each pthread, and of OsThread pte_tls
  kyVal,     \* the values at its nodes
  kyKeys,    \* sp->keys: the chain of the keys a thread is associated with
  kyNext,    \* what is left of it from sp->nextAssoc on
  kyRound,   \* iterations, and assocsRemaining, of an exiting thread
  kyArg,     \* key and value of the call each thread is in
  kyLast,    \* what each thread last set under each key
  kySets     \* values set by destructors so far

kyStore == <<kyTree, kyVal>>
kyExit  == <<kyNext, kyRound>>
kyVars  == <<kyNum, kyDtor, kyGone, kyLock, kyStore, kyKeys, kyExit, kyArg, kyLast, kySets>>

NULL == << >>
Numbers == 1..(Cardinality(PKeys) + 2)
Live(k) == kyNum[k] # 0

\* pthread_init has created keys 1 and 2 (self, cleanup); pte_osThreadCreate
\* puts key 1 in the tree of a pthread.
KyVarsInit ==
  /\ kyNum = [k \in PKeys |-> 0] /\ kyDtor = {} /\ kyGone = {}
  /\ kyLock = [k \in PKeys |-> NoPThread]
  /\ kyTree = [t \in PThreads |-> IF t = OsThread THEN <<1, 2>> ELSE <<1>>]
  /\ kyVal = [t \in PThreads |-> [n \in Numbers |-> NULL]]
  /\ kyKeys = [t \in PThreads |-> << >>] /\ kyNext = [t \in PThreads |-> << >>]
  /\ kyRound = [t \in PThreads |-> [iterations |-> 0, remaining |-> 0]]
  /\ kyArg = [t \in PThreads |-> [key |-> NoPKey, value |-> NULL]]
  /\ kyLast = [t \in PThreads |-> [k \in PKeys |-> NULL]]
  /\ kySets = 0
-----------------------------------------------------------------------------
(* Storage: a pair of the trees and their values *)

Store == [tree |-> kyTree, val |-> kyVal]

tls_has_key(s, t, n) == Contains(s.tree[t], n)

\* tls_set: 1 if the key was there.
tls_set(s, t, n, v) == [s EXCEPT !.val[t][n] = v]

\* tls_search ends at n's node, whose ancestors are the keys inserted first
\* between themselves and n.
Above(tree, m, n) ==
  LET At(k) == SelectInSeq(tree, LAMBDA x : x = k)
  IN  \A i \in 1..Len(tree) :
        (tree[i] >= m /\ tree[i] <= n) \/ (tree[i] >= n /\ tree[i] <= m) => At(m) <= i

\* tls_put: a new leaf; a node that exists is replaced by a leaf, and what
\* was below it is lost.
tls_put(s, t, n, v) ==
  LET keep(m) == m # n /\ ~Above(s.tree[t], n, m)
  IN  [tls_set(s, t, n, v) EXCEPT
        !.tree[t] = IF Contains(@, n) THEN Append(SelectSeq(@, keep), n) ELSE Append(@, n)]

tls_count(s, t) == Len(s.tree[t])

SetStore(s) == kyTree' = s.tree /\ kyVal' = s.val

\* pte_osTlsAlloc numbers a key by the size of the caller's tree.
pte_osTlsAlloc(t, n) ==
  LET own == tls_put(Store, t, n, NULL)
  IN  IF t = OsThread THEN own ELSE tls_put(own, OsThread, n, NULL)

\* pte_osTlsSetValue: when a pthread's tree has no such key it is put there,
\* and then set in the common tree too.
pte_osTlsSetValue(s, t, n, v) ==
  IF tls_has_key(s, t, n) THEN tls_set(s, t, n, v)
  ELSE LET own    == IF t = OsThread THEN s ELSE tls_put(s, t, n, v)
       IN  IF tls_has_key(s, OsThread, n) THEN tls_set(own, OsThread, n, v) ELSE own

\* pte_osTlsGetValue of a pthread puts a missing key with NULL.
pte_osTlsGetValue(s, t, n) == IF tls_has_key(s, t, n) THEN s.val[t][n] ELSE NULL
AfterGet(s, t, n) ==
  IF t = OsThread \/ tls_has_key(s, t, n) THEN s ELSE tls_put(s, t, n, NULL)
-----------------------------------------------------------------------------
(* Keys *)

\* calloc gives the new key one of the addresses not used so far.
pthread_key_create(t, k, dtor) ==
  /\ t \in KeyCreators
  /\ ~Live(k) /\ k \notin kyGone
  /\ k = CHOOSE x \in PKeys : ~Live(x) /\ x \notin kyGone
  /\ Enter(t, "create", "idle")
  /\ LET n == tls_count(Store, t) + 1
     IN  kyNum' = [kyNum EXCEPT ![k] = n] /\ SetStore(pte_osTlsAlloc(t, n))
  /\ kyDtor' = IF dtor THEN kyDtor \cup {k} ELSE kyDtor
  /\ UNCHANGED <<kyGone, kyLock, kyKeys, kyExit, kyArg, kyLast, kySets>>

\* Nobody sets a key that is being deleted.
Deleting(k) == \E t \in PThreads : op[t] = "delete" /\ kyArg[t].key = k

\* The value a thread sets names the thread and the key.
pthread_setspecific(t, k, v) ==
  /\ Live(k) /\ ~Deleting(k) /\ v \in {NULL, <<t, k>>}
  /\ v # kyLast[t][k]
  /\ Enter(t, "set", IF k \in kyDtor /\ v # NULL THEN "ky_lock" ELSE "ky_set")
  /\ kyArg' = [kyArg EXCEPT ![t] = [key |-> k, value |-> v]]
  /\ UNCHANGED <<kyNum, kyDtor, kyGone, kyLock, kyStore, kyKeys, kyExit, kyLast, kySets>>

LockKey(t) ==
  /\ pc[t] = "ky_lock" /\ kyLock[kyArg[t].key] = NoPThread
  /\ kyLock' = [kyLock EXCEPT ![kyArg[t].key] = t]
  /\ Goto(t, "ky_assoc")
  /\ UNCHANGED <<kyNum, kyDtor, kyGone, kyStore, kyKeys, kyExit, kyArg, kyLast, kySets>>

\* pte_tkAssocCreate at the head of both chains, unless there is one.
pte_tkAssocCreate(t) ==
  /\ pc[t] = "ky_assoc"
  /\ LET k == kyArg[t].key
     IN  /\ kyKeys' = IF Contains(kyKeys[t], k) THEN kyKeys
                      ELSE [kyKeys EXCEPT ![t] = <<k>> \o @]
         /\ kyLock' = [kyLock EXCEPT ![k] = NoPThread]
  /\ Goto(t, "ky_set")
  /\ UNCHANGED <<kyNum, kyDtor, kyGone, kyStore, kyExit, kyArg, kyLast, kySets>>

SetValue(t) ==
  /\ pc[t] = "ky_set"
  /\ LET k == kyArg[t].key  v == kyArg[t].value
     IN  /\ SetStore(pte_osTlsSetValue(Store, t, kyNum[k], v))
         /\ kyLast' = [kyLast EXCEPT ![t][k] = v]
  /\ kyArg' = [kyArg EXCEPT ![t] = [key |-> NoPKey, value |-> NULL]]
  /\ Return(t)
  /\ UNCHANGED <<kyNum, kyDtor, kyGone, kyLock, kyKeys, kyExit, kySets>>

\* Only the node it may add matters of pthread_getspecific.
pthread_getspecific(t, k) ==
  /\ Live(k) /\ ~tls_has_key(Store, t, kyNum[k])
  /\ Enter(t, "get", "idle")
  /\ SetStore(AfterGet(Store, t, kyNum[k]))
  /\ UNCHANGED <<kyNum, kyDtor, kyGone, kyLock, kyKeys, kyExit, kyArg, kyLast, kySets>>

\* Threads associated with k: key->threads.
Associated(k) == {t \in PThreads : Contains(kyKeys[t], k)}

\* pthread_key_delete when no thread is setting the key.
pthread_key_delete(t, k) ==
  /\ Live(k) /\ ~Deleting(k)
  /\ \A u \in PThreads : op[u] = "set" => kyArg[u].key # k
  /\ Enter(t, "delete", IF k \in kyDtor /\ Associated(k) # {} THEN "ky_lock_delete" ELSE "ky_free")
  /\ kyArg' = [kyArg EXCEPT ![t] = [key |-> k, value |-> NULL]]
  /\ UNCHANGED <<kyNum, kyDtor, kyGone, kyLock, kyStore, kyKeys, kyExit, kyLast, kySets>>
LockDelete(t) ==
  /\ pc[t] = "ky_lock_delete" /\ kyLock[kyArg[t].key] = NoPThread
  /\ kyLock' = [kyLock EXCEPT ![kyArg[t].key] = t]
  /\ Goto(t, "ky_assocs")
  /\ UNCHANGED <<kyNum, kyDtor, kyGone, kyStore, kyKeys, kyExit, kyArg, kyLast, kySets>>

\* Mutant: the cursor of an exiting thread keeps pointing at the association.
pte_tkAssocDestroy_cursor(t, k) ==
  /\ kyKeys' = [kyKeys EXCEPT ![t] = RemoveFirst(@, k)]
  /\ UNCHANGED kyNext

\* Unlink from both chains; a cursor at the association moves on.
pte_tkAssocDestroy(t, k) ==
  /\ kyKeys' = [kyKeys EXCEPT ![t] = RemoveFirst(@, k)]
  /\ kyNext' = [kyNext EXCEPT ![t] = RemoveFirst(@, k)]

DeleteAssoc(t) ==
  /\ pc[t] = "ky_assocs"
  /\ LET k == kyArg[t].key
     IN  IF Associated(k) # {}
           THEN /\ \E u \in Associated(k) : pte_tkAssocDestroy(u, k)
                /\ UNCHANGED <<kyLock, commonVars>>
           ELSE /\ kyLock' = [kyLock EXCEPT ![k] = NoPThread]
                /\ Goto(t, "ky_free")
                /\ UNCHANGED <<kyKeys, kyNext>>
  /\ UNCHANGED <<kyNum, kyDtor, kyGone, kyStore, kyRound, kyArg, kyLast, kySets>>

\* pthread_mutex_destroy until it is not EBUSY, and free.
FreeKey(t) ==
  /\ pc[t] = "ky_free"
  /\ LET k == kyArg[t].key
     IN  /\ kyLock[k] = NoPThread
         /\ kyNum' = [kyNum EXCEPT ![k] = 0]
         /\ kyGone' = kyGone \cup {k}
  /\ kyArg' = [kyArg EXCEPT ![t] = [key |-> NoPKey, value |-> NULL]]
  /\ Return(t)
  /\ UNCHANGED <<kyDtor, kyLock, kyStore, kyKeys, kyExit, kyLast, kySets>>
-----------------------------------------------------------------------------
(* pte_callUserDestroyRoutines, when a pthread exits *)

CallUserDestroyRoutines(t) ==
  /\ t # OsThread /\ pc[t] = "idle"
  /\ EnterFree(t, "exit", "ky_round")
  /\ UNCHANGED kyVars
NextRound(t) ==
  /\ pc[t] = "ky_round"
  /\ kyRound' = [kyRound EXCEPT ![t] = [iterations |-> @.iterations + 1, remaining |-> 0]]
  /\ kyNext' = [kyNext EXCEPT ![t] = kyKeys[t]]
  /\ Goto(t, "ky_next")
  /\ UNCHANGED <<kyNum, kyDtor, kyGone, kyLock, kyStore, kyKeys, kyArg, kyLast, kySets>>

\* The end of the chain: another round if destructors ran.
EndOfChain(t) ==
  /\ pc[t] = "ky_next" /\ kyNext[t] = << >>
  /\ Goto(t, IF kyRound[t].remaining > 0 THEN "ky_round" ELSE "exited")
  /\ UNCHANGED kyVars

\* With threadLock held, trylock the key's lock: EBUSY lets go and tries again
\* later, which is no step.  The value is cleared before its destructor runs.
NextAssoc(t) ==
  /\ pc[t] = "ky_next" /\ kyNext[t] # << >>
  /\ LET k     == Head(kyNext[t])
         value == pte_osTlsGetValue(Store, t, kyNum[k])
         call  == value # NULL /\ kyRound[t].iterations <= PTHREAD_DESTRUCTOR_ITERATIONS
     IN  /\ kyLock[k] = NoPThread
         /\ SetStore(pte_osTlsSetValue(AfterGet(Store, t, kyNum[k]), t, kyNum[k], NULL))
         /\ kyLast' = [kyLast EXCEPT ![t][k] = NULL]
         /\ IF call
              THEN /\ kyNext' = [kyNext EXCEPT ![t] = Tail(@)]
                   /\ kyRound' = [kyRound EXCEPT ![t].remaining = @ + 1]
                   /\ kyArg' = [kyArg EXCEPT ![t] = [key |-> k, value |-> value]]
                   /\ Goto(t, "ky_destructor")
                   /\ UNCHANGED kyKeys
              ELSE /\ pte_tkAssocDestroy(t, k)
                   /\ UNCHANGED <<kyRound, kyArg, commonVars>>
  /\ UNCHANGED <<kyNum, kyDtor, kyGone, kyLock, kySets>>

\* The destructor, called without a lock, may set a value under its key again.
Destructor(t) ==
  /\ pc[t] = "ky_destructor"
  /\ kyArg' = [kyArg EXCEPT ![t] = [key |-> NoPKey, value |-> NULL]]
  /\ Goto(t, "ky_next")
  /\ LET k == kyArg[t].key
     IN  \/ UNCHANGED <<kyStore, kyLast, kySets>>
         \/ /\ kySets < DestructorSets /\ Live(k) /\ ~Deleting(k)
            /\ Contains(kyKeys[t], k) /\ kyLock[k] = NoPThread
            /\ kySets' = kySets + 1
            /\ SetStore(pte_osTlsSetValue(Store, t, kyNum[k], <<t, k>>))
            /\ kyLast' = [kyLast EXCEPT ![t][k] = <<t, k>>]
  /\ UNCHANGED <<kyNum, kyDtor, kyGone, kyLock, kyKeys, kyExit>>

KeysStep(t) ==
  \/ LockKey(t) \/ pte_tkAssocCreate(t) \/ SetValue(t)
  \/ LockDelete(t) \/ DeleteAssoc(t) \/ FreeKey(t)
  \/ NextRound(t) \/ EndOfChain(t) \/ NextAssoc(t) \/ Destructor(t)

KeysNext ==
  \E t \in PThreads :
    \/ CallUserDestroyRoutines(t)
    \/ \E k \in PKeys :
         \/ \E dtor \in BOOLEAN : pthread_key_create(t, k, dtor)
         \/ \E v \in {NULL, <<t, k>>} : pthread_setspecific(t, k, v)
         \/ pthread_getspecific(t, k) \/ pthread_key_delete(t, k)
    \/ KeysStep(t)
-----------------------------------------------------------------------------
(* Properties *)

\* What thread t reads under each key is what it last set.
ReadsOwn(t) ==
  \A k \in PKeys : Live(k) => pte_osTlsGetValue(Store, t, kyNum[k]) = kyLast[t][k]

\* A pthread's values are its own while keys come from one thread; exiting,
\* deleting and setting threads interleave without a key being used after it
\* was freed; and a thread that has exited has no value left to destroy and is
\* on no key's chain, so its structure can be reused.
KeysAreOwn ==
  component = "keys" =>
    /\ \A t \in PThreads \ {OsThread} : ReadsOwn(t)
    /\ \A t \in PThreads, k \in PKeys :
         Contains(kyKeys[t], k) \/ Contains(kyNext[t], k) => Live(k)
    /\ \A t \in PThreads : pc[t] = "exited" =>
         kyKeys[t] = << >> /\ \A k \in kyDtor : Live(k) /\ ~Deleting(k) => kyLast[t][k] = NULL
=============================================================================
