--------------------------- MODULE PteThreadProofs ---------------------------
(***************************************************************************)
(* Proofs about the threads of the POSIX threads library (PteThread) and   *)
(* their specific data (PteKeys), for any number of threads, structures    *)
(* and keys.                                                               *)
(*                                                                         *)
(* The properties of threads follow from one inductive invariant,          *)
(* ThreadInv, which says of every structure who owns it and by which claim *)
(* it will be given back, of every handle in circulation that it still     *)
(* names the owner, and of every thread how its calls and its state in the *)
(* operating system fit.  That of keys follows from KeysInv, at the end.   *)
(* Each lemma named ...Kept is one operation's preservation of its         *)
(* invariant.  The sequence lemmas come first, so that later steps only    *)
(* need which structure an operation changes and which fields.             *)
(***************************************************************************)
EXTENDS MCPteThreads, TLAPS, FiniteSetTheorems

USE PThreadsAssumption, ThreadAssumption

\* Types.
Ends == PThreads \cup {"none", "NULL", "CANCELED"}
Structs ==
  [x : Nat, state : {0, 1, 3, 4, 6}, detached : BOOLEAN, disabled : BOOLEAN,
   exitStatus : PThreads \cup {"NULL", "CANCELED"},
   os : PThreads \cup {NoPThread}, owner : PThreads \cup {NoPThread}]
Handles == [p : Nat, x : Nat, of : PThreads \cup {NoPThread}]

ThSteps == {"idle", "th_os_create", "th_exit", "th_last", "th_longjmp", "th_wait", "th_detach",
            "th_destroy", "th_cancel", "exited"}
ThOps == {"none", "create", "exit", "join", "detach", "cancel"}

ThTypeOK ==
  /\ pc \in [PThreads -> ThSteps] /\ op \in [PThreads -> ThOps]
  /\ thStruct \in Seq(Structs) /\ thReuse \in Seq(1..Len(thStruct)) /\ thSelf \in [PThreads -> Nat]
  /\ thOs \in [PThreads -> {"none", "started", "running", "dying"}]
  /\ thHandles \in SUBSET Handles /\ thArg \in [PThreads -> Handles]
  /\ thCancelled \in SUBSET PThreads /\ thAsked \in SUBSET PThreads
  /\ thEnd \in [PThreads -> Ends] /\ thJoined \in [PThreads -> Ends]

\* No element twice.
Distinct(q) == \A i, j \in 1..Len(q) : q[i] = q[j] => i = j

\* The reuse queue holds exactly the structures that nobody owns, each once, and a
\* thread owns at most one structure.
ThPool ==
  /\ Distinct(thReuse)
  /\ \A s \in 1..Len(thStruct) : Contains(thReuse, s) <=> thStruct[s].owner = NoPThread
  /\ \A r, s \in 1..Len(thStruct) :
       thStruct[r].owner = thStruct[s].owner /\ thStruct[r].owner # NoPThread => r = s

\* How a thread's next step, its call and its place in the operating system fit.
ThPhases ==
  \A t \in PThreads :
    /\ op[t] = "create" <=> pc[t] = "th_os_create"
    /\ op[t] \in {"join", "detach"} <=> pc[t] \in {"th_wait", "th_detach", "th_destroy"}
    /\ pc[t] = "th_wait" => op[t] = "join"
    /\ op[t] = "cancel" <=> pc[t] = "th_cancel"
    /\ pc[t] \in {"th_exit", "th_last", "exited"} => t # OsThread
    /\ pc[t] = "th_longjmp" => t = OsThread
    /\ pc[t] = "exited" <=> thOs[t] = "dying"
    /\ thOs[t] \in {"none", "started"} => pc[t] = "idle" /\ t # OsThread

\* The structure of a creation that the operating system has not answered yet is the
\* creator's, and two creators create two threads.
Creating(t) ==
  LET h == thArg[t]
  IN  /\ h.p \in 1..Len(thStruct) /\ h.of \in PThreads \ {OsThread} /\ thOs[h.of] = "none"
      /\ thStruct[h.p].owner = h.of /\ thStruct[h.p].x = h.x
      /\ thStruct[h.p].os = NoPThread /\ thStruct[h.p].state = 0
ThCreations ==
  /\ \A t \in PThreads : op[t] = "create" => Creating(t)
  /\ \A t, u \in PThreads :
       op[t] = "create" /\ op[u] = "create" /\ thArg[t].of = thArg[u].of => t = u

\* An owned structure is the implicit one of the thread that is no pthread, that of a
\* thread being created, or that of a thread the operating system has started.
Implicit(s) ==
  /\ thStruct[s].os = NoPThread /\ thStruct[s].owner = OsThread
  /\ thSelf[OsThread] = s /\ pc[OsThread] # "th_longjmp"
InCreation(s) ==
  /\ thStruct[s].os = NoPThread
  /\ \E t \in PThreads : op[t] = "create" /\ thArg[t].p = s
Started(s) ==
  LET r == thStruct[s]  u == thStruct[s].owner
  IN  /\ r.os = u /\ u \in PThreads \ {OsThread} /\ thOs[u] # "none"
      /\ thOs[u] = "dying" => ~r.detached
      /\ ~r.detached => Claimed(s)
      /\ thOs[u] = "started" <=> r.state = 0
      /\ r.state = 6 <=> pc[u] \in {"th_last", "exited"}
      /\ pc[u] \in {"th_exit", "th_last", "exited"} => r.exitStatus = thEnd[u]
Accounted(s) ==
  IF thStruct[s].owner = NoPThread THEN thStruct[s].os = NoPThread
  ELSE Implicit(s) \/ InCreation(s) \/ Started(s)
ThStructs == \A s \in 1..Len(thStruct) : Accounted(s)

\* A running thread's key value is the structure it owns.
ThSelves ==
  /\ \A t \in PThreads \ {OsThread} :
       Running(t) => thSelf[t] \in 1..Len(thStruct) /\ thStruct[thSelf[t]].owner = t
  /\ \/ thSelf[OsThread] = 0
     \/ pc[OsThread] = "th_longjmp"
     \/ /\ thSelf[OsThread] \in 1..Len(thStruct)
        /\ thStruct[thSelf[OsThread]].owner = OsThread

\* A handle that is joined, detached or cancelled by names the thread that owns the
\* structure; one call at a time takes it; a structure that a joiner waits to detach or
\* destroy is at its end.
LiveHandle(h) ==
  /\ h.p \in 1..Len(thStruct) /\ h.of \in PThreads \ {OsThread}
  /\ thStruct[h.p].x = h.x /\ thStruct[h.p].owner = h.of /\ thStruct[h.p].os = h.of
  /\ ~thStruct[h.p].detached
Claims(t) == op[t] \in {"join", "detach"}
ThClaims ==
  /\ \A h \in thHandles : LiveHandle(h)
  /\ \A t \in PThreads : Claims(t) => LiveHandle(thArg[t]) /\ \A h \in thHandles : h.p # thArg[t].p
  /\ \A t, u \in PThreads : Claims(t) /\ Claims(u) /\ thArg[t].p = thArg[u].p => t = u
  /\ \A t \in PThreads :
       op[t] = "cancel" => thArg[t] \in thHandles /\ thStruct[thArg[t].p].state # 0
  /\ \A t \in PThreads :
       pc[t] = "th_destroy" \/ (pc[t] = "th_detach" /\ op[t] = "join")
         => thStruct[thArg[t].p].state = 6

\* What joins returned.
ThStatuses ==
  \A t \in PThreads :
    thJoined[t] # "none" => pc[t] \in {"th_last", "exited"} /\ thJoined[t] = thEnd[t]

\* What cancellations asked for.
ThRequests ==
  \A t \in thAsked :
    /\ t # OsThread /\ thOs[t] \in {"running", "dying"}
    /\ Running(t) => t \in thCancelled /\ thStruct[thSelf[t]].state >= 3

\* The inductive invariant.
ThGood ==
  /\ ThTypeOK /\ ThPool /\ ThPhases /\ ThCreations /\ ThStructs /\ ThSelves /\ ThClaims
  /\ ThStatuses /\ ThRequests
ThreadInv == component = "thread" => ThGood

\* An element of a sequence over S is in S.
LEMMA ElementOf == ASSUME NEW S, NEW q \in Seq(S), NEW i \in 1..Len(q) PROVE q[i] \in S
  OBVIOUS

\* Replacing one element of a sequence changes that one only.
LEMMA Replace ==
  ASSUME NEW S, NEW q \in Seq(S), NEW i \in 1..Len(q), NEW v \in S
  PROVE  /\ [q EXCEPT ![i] = v] \in Seq(S)
         /\ Len([q EXCEPT ![i] = v]) = Len(q)
         /\ [q EXCEPT ![i] = v][i] = v
         /\ \A j \in 1..Len(q) : j # i => [q EXCEPT ![i] = v][j] = q[j]
  OBVIOUS

\* Appending keeps what was there.
LEMMA AppendOne ==
  ASSUME NEW S, NEW q \in Seq(S), NEW v \in S
  PROVE  /\ Append(q, v) \in Seq(S) /\ Len(Append(q, v)) = Len(q) + 1
         /\ Append(q, v)[Len(q) + 1] = v
         /\ \A j \in 1..Len(q) : Append(q, v)[j] = q[j]
  OBVIOUS

\* A queue without repetitions that s is appended to, when s was not in it.
LEMMA Push ==
  ASSUME NEW S, NEW q \in Seq(S), Distinct(q), NEW s \in S, ~Contains(q, s)
  PROVE  /\ Append(q, s) \in Seq(S) /\ Distinct(Append(q, s))
         /\ \A r : Contains(Append(q, s), r) <=> Contains(q, r) \/ r = s
<1> DEFINE n == Append(q, s)
<1>1. /\ n \in Seq(S) /\ Len(n) = Len(q) + 1 /\ n[Len(q) + 1] = s
      /\ \A j \in 1..Len(q) : n[j] = q[j]
      /\ Len(q) \in Nat
  BY AppendOne
<1> HIDE DEF n
<1>2. \A i \in 1..Len(q) : q[i] # s
  BY DEF Contains
<1>3. ASSUME NEW i \in 1..Len(n), NEW j \in 1..Len(n), n[i] = n[j] PROVE i = j
  <2>1. CASE i = Len(q) + 1 \/ j = Len(q) + 1
    BY <1>1, <1>2, <1>3, <2>1
  <2>2. CASE i \in 1..Len(q) /\ j \in 1..Len(q)
    BY <1>1, <1>3, <2>2 DEF Distinct
  <2> QED BY <1>1, <2>1, <2>2
<1>4. \A r : Contains(n, r) <=> Contains(q, r) \/ r = s
  <2> TAKE r
  <2>1. Contains(q, r) => Contains(n, r)
    BY <1>1 DEF Contains
  <2>2. Contains(n, s)
    BY <1>1 DEF Contains
  <2>3. ASSUME Contains(n, r), r # s PROVE Contains(q, r)
    <3>1. PICK i \in 1..Len(n) : n[i] = r
      BY <2>3 DEF Contains
    <3>2. i \in 1..Len(q)
      BY <1>1, <2>3, <3>1
    <3> QED BY <1>1, <3>1, <3>2 DEF Contains
  <2> QED BY <2>1, <2>2, <2>3
<1> QED BY <1>1, <1>3, <1>4 DEF n, Distinct

\* A queue without repetitions that its head is taken from.
LEMMA Pop ==
  ASSUME NEW S, NEW q \in Seq(S), Distinct(q), q # << >>
  PROVE  /\ Tail(q) \in Seq(S) /\ Distinct(Tail(q)) /\ Head(q) \in S /\ Contains(q, Head(q))
         /\ \A r : Contains(Tail(q), r) <=> Contains(q, r) /\ r # Head(q)
<1> DEFINE n == Tail(q)
<1>1. /\ n \in Seq(S) /\ Len(n) = Len(q) - 1 /\ Head(q) = q[1] /\ Head(q) \in S
      /\ Len(q) \in Nat /\ Len(q) >= 1
      /\ \A j \in 1..(Len(q) - 1) : n[j] = q[j + 1]
  OBVIOUS
<1> HIDE DEF n
<1>2. ASSUME NEW i \in 1..Len(n), NEW j \in 1..Len(n), n[i] = n[j] PROVE i = j
  <2>1. i + 1 \in 1..Len(q) /\ j + 1 \in 1..Len(q) /\ q[i + 1] = q[j + 1]
    BY <1>1, <1>2
  <2>2. i + 1 = j + 1
    BY <2>1 DEF Distinct
  <2> QED BY <1>1, <2>2
<1>3. \A r : Contains(n, r) <=> Contains(q, r) /\ r # q[1]
  <2> TAKE r
  <2>1. ASSUME Contains(n, r) PROVE Contains(q, r) /\ r # q[1]
    <3>1. PICK i \in 1..Len(n) : n[i] = r
      BY <2>1 DEF Contains
    <3>2. i + 1 \in 1..Len(q) /\ q[i + 1] = r /\ i + 1 # 1 /\ 1 \in 1..Len(q)
      BY <1>1, <3>1
    <3> QED BY <3>2 DEF Contains, Distinct
  <2>2. ASSUME Contains(q, r), r # q[1] PROVE Contains(n, r)
    <3>1. PICK i \in 1..Len(q) : q[i] = r
      BY <2>2 DEF Contains
    <3>2. i # 1
      BY <2>2, <3>1
    <3>3. i - 1 \in 1..Len(n) /\ n[i - 1] = r
      BY <1>1, <3>1, <3>2
    <3> QED BY <3>3 DEF Contains
  <2> QED BY <2>1, <2>2
<1>4. Contains(q, Head(q))
  BY <1>1 DEF Contains
<1> QED BY <1>1, <1>2, <1>3, <1>4 DEF n, Distinct

\* A structure that changes but keeps its owner leaves the pool as it was: the reuse
\* queue still holds exactly the structures nobody owns, each once.
LEMMA Update ==
  ASSUME ThTypeOK, ThPool, NEW s \in 1..Len(thStruct), NEW v \in Structs,
         v.owner = thStruct[s].owner, thStruct' = [thStruct EXCEPT ![s] = v], thReuse' = thReuse
  PROVE  /\ thStruct' \in Seq(Structs) /\ thReuse' \in Seq(1..Len(thStruct'))
         /\ Len(thStruct') = Len(thStruct) /\ thStruct'[s] = v
         /\ \A r \in 1..Len(thStruct) : r # s => thStruct'[r] = thStruct[r]
         /\ ThPool'
<1>1. /\ thStruct' \in Seq(Structs) /\ Len(thStruct') = Len(thStruct) /\ thStruct'[s] = v
      /\ \A r \in 1..Len(thStruct) : r # s => thStruct'[r] = thStruct[r]
  BY Replace DEF ThTypeOK
<1>2. \A r \in 1..Len(thStruct) : thStruct'[r].owner = thStruct[r].owner
  BY <1>1
<1>3. ThPool'
  BY <1>1, <1>2 DEF ThPool
<1> QED BY <1>1, <1>3 DEF ThTypeOK

\* pte_new gives a structure nobody owned to a thread that owned none.
LEMMA PoolNew ==
  ASSUME ThTypeOK, ThPool, NEW u \in PThreads, NEW d \in BOOLEAN, NEW s \in 1..MaxStructs,
         pte_new(s, u, d), \A r \in 1..Len(thStruct) : thStruct[r].owner # u
  PROVE  /\ thStruct' \in Seq(Structs) /\ thReuse' \in Seq(1..Len(thStruct'))
         /\ 1..Len(thStruct') = (1..Len(thStruct)) \cup {s}
         /\ \A r \in 1..Len(thStruct) : r # s => thStruct'[r] = thStruct[r]
         /\ s \in 1..Len(thStruct) => thStruct[s].owner = NoPThread
         /\ thStruct'[s].owner = u /\ thStruct'[s].detached = d
         /\ thStruct'[s].os = NoPThread /\ thStruct'[s].state = 0
         /\ thStruct'[s].x \in Nat
         /\ ThPool'
<1> DEFINE fresh == [Zeroed(0) EXCEPT !.owner = u, !.detached = d]
<1>1. /\ fresh \in Structs /\ fresh.owner = u /\ fresh.detached = d /\ fresh.os = NoPThread
      /\ fresh.state = 0 /\ fresh.x = 0
  BY DEF Zeroed, Structs, PThreadStateInitial
<1>2. CASE thReuse # << >>
  <2>1. /\ s = Head(thReuse) /\ thReuse' = Tail(thReuse)
        /\ thStruct' = [thStruct EXCEPT ![s] = [fresh EXCEPT !.x = thStruct[s].x]]
    BY <1>2 DEF pte_new, pte_threadReusePop
  <2>2. /\ s \in 1..Len(thStruct) /\ Contains(thReuse, s) /\ Distinct(thReuse')
        /\ thReuse' \in Seq(1..Len(thStruct))
        /\ \A r : Contains(thReuse', r) <=> Contains(thReuse, r) /\ r # s
    BY <1>2, <2>1, Pop DEF ThTypeOK, ThPool
  <2>3. thStruct[s] \in Structs
    BY <2>2, ElementOf DEF ThTypeOK
  <2>4. thStruct[s].x \in Nat
    BY <2>3 DEF Structs
  <2> DEFINE new == [fresh EXCEPT !.x = thStruct[s].x]
  <2>5. /\ new \in Structs /\ new.owner = u /\ new.detached = d /\ new.os = NoPThread
        /\ new.state = 0 /\ new.x \in Nat /\ thStruct' = [thStruct EXCEPT ![s] = new]
    BY <1>1, <2>1, <2>4 DEF Structs
  <2> HIDE DEF new, fresh
  <2>6. /\ thStruct' \in Seq(Structs) /\ Len(thStruct') = Len(thStruct)
        /\ thStruct'[s] = new
        /\ \A r \in 1..Len(thStruct) : r # s => thStruct'[r] = thStruct[r]
    BY <2>2, <2>5, Replace DEF ThTypeOK
  <2>7. ThPool'
    BY <2>2, <2>5, <2>6 DEF ThPool
  <2>8. thStruct[s].owner = NoPThread
    BY <2>2 DEF ThPool
  <2>9. 1..Len(thStruct') = (1..Len(thStruct)) \cup {s}
    BY <2>2, <2>6
  <2> QED BY <2>2, <2>5, <2>6, <2>7, <2>8, <2>9
<1>3. CASE thReuse = << >>
  <2>1. s = Len(thStruct) + 1 /\ thStruct' = Append(thStruct, fresh) /\ thReuse' = thReuse
    BY <1>3 DEF pte_new
  <2> HIDE DEF fresh
  <2>2. /\ thStruct' \in Seq(Structs) /\ Len(thStruct') = Len(thStruct) + 1
        /\ \A r \in 1..Len(thStruct) : thStruct'[r] = thStruct[r]
        /\ thStruct'[s] = fresh /\ Len(thStruct) \in Nat
    BY <1>1, <2>1, AppendOne DEF ThTypeOK
  <2>3. 1..Len(thStruct') = (1..Len(thStruct)) \cup {s} /\ s \notin 1..Len(thStruct)
    BY <2>1, <2>2
  <2>4. thReuse' \in Seq(1..Len(thStruct'))
    BY <1>3, <2>1
  <2>5. \A r : ~Contains(thReuse, r)
    BY <1>3 DEF Contains
  <2>6. ThPool'
    BY <1>1, <2>1, <2>2, <2>3, <2>5 DEF ThPool
  <2> QED BY <1>1, <2>2, <2>3, <2>4, <2>6
<1> QED BY <1>2, <1>3

\* pte_threadDestroy queues an owned structure, which nobody owns then.
LEMMA PoolDestroy ==
  ASSUME ThTypeOK, ThPool, NEW s \in 1..Len(thStruct), thStruct[s].owner # NoPThread,
         pte_threadDestroy(s)
  PROVE  /\ thStruct' \in Seq(Structs) /\ thReuse' \in Seq(1..Len(thStruct'))
         /\ Len(thStruct') = Len(thStruct)
         /\ \A r \in 1..Len(thStruct) : r # s => thStruct'[r] = thStruct[r]
         /\ thStruct'[s].owner = NoPThread /\ thStruct'[s].os = NoPThread
         /\ ThPool'
<1> DEFINE wiped == Zeroed(thStruct[s].x + 1)
<1>1. thStruct' = [thStruct EXCEPT ![s] = wiped] /\ thReuse' = Append(thReuse, s)
  BY DEF pte_threadDestroy, pte_threadReusePush
<1>2. thStruct[s] \in Structs
  BY ElementOf DEF ThTypeOK
<1>3. thStruct[s].x + 1 \in Nat
  BY <1>2 DEF Structs
<1>4. wiped \in Structs /\ wiped.owner = NoPThread /\ wiped.os = NoPThread
  BY <1>3 DEF Zeroed, Structs, PThreadStateInitial
<1> HIDE DEF wiped
<1>5. /\ thReuse' \in Seq(1..Len(thStruct)) /\ Distinct(thReuse')
      /\ \A r : Contains(thReuse', r) <=> Contains(thReuse, r) \/ r = s
  BY <1>1, Push DEF ThTypeOK, ThPool
<1>6. /\ thStruct' \in Seq(Structs) /\ Len(thStruct') = Len(thStruct)
      /\ \A r \in 1..Len(thStruct) : r # s => thStruct'[r] = thStruct[r]
      /\ thStruct'[s] = wiped
  BY <1>1, <1>4, Replace DEF ThTypeOK
<1>7. ASSUME NEW r \in 1..Len(thStruct) PROVE Contains(thReuse', r) <=> thStruct'[r].owner = NoPThread
  BY <1>4, <1>5, <1>6 DEF ThPool
<1>8. ASSUME NEW q \in 1..Len(thStruct), NEW r \in 1..Len(thStruct),
             thStruct'[q].owner = thStruct'[r].owner, thStruct'[q].owner # NoPThread
      PROVE  q = r
  <2>1. q # s /\ r # s
    BY <1>4, <1>6, <1>8
  <2> QED BY <1>6, <1>8, <2>1 DEF ThPool
<1>9. ThPool'
  BY <1>5, <1>6, <1>7, <1>8 DEF ThPool
<1> QED BY <1>4, <1>5, <1>6, <1>9

\* pthread_setcancelstate changes a field the invariant does not speak of.
LEMMA SetCancelStateKept ==
  ASSUME ThGood, NEW t \in PThreads, pthread_setcancelstate(t)
  PROVE  ThGood'
<1> USE DEF ThGood
<1> DEFINE s == thSelf[t]
           v == [thStruct[s] EXCEPT !.disabled = ~@]
<1>1. /\ s \in 1..Len(thStruct) /\ thStruct[s].owner = t /\ thStruct[s] \in Structs
      /\ thStruct' = [thStruct EXCEPT ![s] = v] /\ thReuse' = thReuse
      /\ op' = op /\ pc' = [pc EXCEPT ![t] = "idle"] /\ pc[t] = "idle" /\ pc' = pc
      /\ UNCHANGED <<thSelf, thOs, thCancelled, thHandles, thArg, thEnd, thJoined, thAsked>>
  <2>1. s \in 1..Len(thStruct) /\ thStruct[s].owner = t
    BY DEF pthread_setcancelstate, ThSelves
  <2>2. thStruct[s] \in Structs
    BY <2>1, ElementOf DEF ThTypeOK
  <2> QED BY <2>1, <2>2 DEF pthread_setcancelstate, Enter, thGhosts, ThTypeOK
<1>2. /\ v \in Structs /\ v.owner = thStruct[s].owner /\ v.x = thStruct[s].x
      /\ v.os = thStruct[s].os /\ v.state = thStruct[s].state
      /\ v.detached = thStruct[s].detached /\ v.exitStatus = thStruct[s].exitStatus
  BY <1>1 DEF Structs
<1> HIDE DEF v, s
<1>b. /\ thStruct' \in Seq(Structs) /\ thReuse' \in Seq(1..Len(thStruct'))
      /\ Len(thStruct') = Len(thStruct) /\ thStruct'[s] = v /\ ThPool'
      /\ \A r \in 1..Len(thStruct) : r # s => thStruct'[r] = thStruct[r]
  <2>1. /\ s \in 1..Len(thStruct) /\ v \in Structs /\ v.owner = thStruct[s].owner
        /\ thStruct' = [thStruct EXCEPT ![s] = v] /\ thReuse' = thReuse
    BY <1>1, <1>2
  <2> QED BY <2>1, Update
<1>3. /\ thStruct' \in Seq(Structs) /\ thReuse' \in Seq(1..Len(thStruct'))
      /\ Len(thStruct') = Len(thStruct) /\ ThPool'
      /\ \A r \in 1..Len(thStruct) :
           /\ thStruct'[r].owner = thStruct[r].owner /\ thStruct'[r].x = thStruct[r].x
           /\ thStruct'[r].os = thStruct[r].os /\ thStruct'[r].state = thStruct[r].state
           /\ thStruct'[r].detached = thStruct[r].detached
           /\ thStruct'[r].exitStatus = thStruct[r].exitStatus
  BY <1>2, <1>b
<1>4. ThTypeOK'
  BY <1>1, <1>3 DEF ThTypeOK
<1>5. ThPhases'
  BY <1>1, <1>3 DEF ThPhases
<1>6. ThCreations'
  BY <1>1, <1>3 DEF ThCreations, Creating
<1>7. ThStructs'
  <2> SUFFICES ASSUME NEW r \in 1..Len(thStruct) PROVE Accounted(r)'
    BY <1>3 DEF ThStructs
  <2>1. Accounted(r)
    BY DEF ThStructs
  <2>2. Implicit(r) => Implicit(r)'
    BY <1>1, <1>3 DEF Implicit
  <2>3. InCreation(r) => InCreation(r)'
    BY <1>1, <1>3 DEF InCreation
  <2>4. Claimed(r) => Claimed(r)'
    BY <1>1, <1>3 DEF Claimed
  <2>5. Started(r) => Started(r)'
    BY <1>1, <1>3, <2>4 DEF Started
  <2> QED BY <1>3, <2>1, <2>2, <2>3, <2>5 DEF Accounted
<1>8. ThSelves'
  BY <1>1, <1>3 DEF ThSelves, Running
<1>9. ThClaims'
  BY <1>1, <1>3 DEF ThClaims, Claims, LiveHandle
<1>10. ThStatuses' /\ ThRequests'
  BY <1>1, <1>3 DEF ThStatuses, ThRequests, Running, ThSelves
<1> QED BY <1>3, <1>4, <1>5, <1>6, <1>7, <1>8, <1>9, <1>10

\* pthread_exit stores the exit status that is the thread's end status from then on.
LEMMA ExitKept ==
  ASSUME ThGood, NEW t \in PThreads, pthread_exit(t)
  PROVE  ThGood'
<1> USE DEF ThGood
<1> DEFINE s == thSelf[t]
           v == [thStruct[s] EXCEPT !.exitStatus = t]
<1>1. /\ s \in 1..Len(thStruct)
      /\ thStruct[s] \in Structs
      /\ thStruct[s].owner = t
      /\ pc[t] = "idle" /\ thOs[t] = "running" /\ t # OsThread
      /\ pc' = [pc EXCEPT ![t] = "th_exit"] /\ op' = [op EXCEPT ![t] = "exit"]
      /\ thEnd' = [thEnd EXCEPT ![t] = t]
      /\ UNCHANGED <<thSelf, thOs, thCancelled, thHandles, thArg, thJoined, thAsked>>
      /\ thStruct' = [thStruct EXCEPT ![s] = v]
      /\ thReuse' = thReuse
  <2>1. s \in 1..Len(thStruct) /\ thStruct[s].owner = t
    BY DEF pthread_exit, ThSelves, ThPhases, Running
  <2>2. thStruct[s] \in Structs
    BY <2>1, ElementOf DEF ThTypeOK
  <2> QED BY <2>1, <2>2 DEF pthread_exit, EnterFree, Running, thGhosts, ThTypeOK
<1>2. /\ v \in Structs
      /\ v.owner = thStruct[s].owner
      /\ v.x = thStruct[s].x
      /\ v.os = thStruct[s].os
      /\ v.state = thStruct[s].state
      /\ v.detached = thStruct[s].detached
      /\ v.exitStatus = t
  BY <1>1 DEF Structs
<1> HIDE DEF v, s
<1>3. /\ thStruct' \in Seq(Structs) /\ thReuse' \in Seq(1..Len(thStruct'))
      /\ Len(thStruct') = Len(thStruct) /\ thStruct'[s] = v /\ ThPool'
      /\ \A r \in 1..Len(thStruct) : r # s => thStruct'[r] = thStruct[r]
  <2>1. /\ s \in 1..Len(thStruct) /\ v \in Structs /\ v.owner = thStruct[s].owner
        /\ thStruct' = [thStruct EXCEPT ![s] = v] /\ thReuse' = thReuse
    BY <1>1, <1>2
  <2> QED BY <2>1, Update
<1>4. /\ \A r \in 1..Len(thStruct) :
           /\ thStruct'[r].owner = thStruct[r].owner
           /\ thStruct'[r].x = thStruct[r].x
           /\ thStruct'[r].os = thStruct[r].os
           /\ thStruct'[r].state = thStruct[r].state
           /\ thStruct'[r].detached = thStruct[r].detached
           /\ r # s => thStruct'[r].exitStatus = thStruct[r].exitStatus
      /\ thStruct'[s].exitStatus = t
      /\ Len(thStruct') = Len(thStruct)
  BY <1>2, <1>3
<1>5. ThTypeOK'
  BY <1>1, <1>3 DEF ThTypeOK, ThSteps, ThOps, Ends
<1>6. ThPhases'
  BY <1>1, <1>4 DEF ThPhases, ThTypeOK
<1>7. ThCreations'
  BY <1>1, <1>4 DEF ThCreations, Creating, ThPhases, ThTypeOK
<1>8. ThStructs'
  <2> SUFFICES ASSUME NEW r \in 1..Len(thStruct) PROVE Accounted(r)'
    BY <1>1, <1>4 DEF ThStructs
  <2>1. Accounted(r)
    BY DEF ThStructs
  <2>2. Implicit(r) => Implicit(r)'
    BY <1>1, <1>4 DEF Implicit, ThPhases, ThTypeOK
  <2>3. InCreation(r) => InCreation(r)'
    BY <1>1, <1>4 DEF InCreation, ThPhases, ThTypeOK
  <2>4. Claimed(r) => Claimed(r)'
    BY <1>1, <1>4 DEF Claimed, ThPhases, ThTypeOK
  <2>5. Started(r) => Started(r)'
    BY <1>1, <1>4, <2>4 DEF Started, ThPhases, ThPool, ThTypeOK
  <2> QED BY <1>1, <1>4, <2>1, <2>2, <2>3, <2>5 DEF Accounted
<1>9. ThSelves'
  BY <1>1, <1>4 DEF ThSelves, Running, ThPhases, ThTypeOK
<1>10. ThClaims'
  BY <1>1, <1>4, SMTT(30) DEF ThClaims, Claims, LiveHandle, ThPhases, ThTypeOK
<1>11. ThStatuses'
  BY <1>1, <1>4 DEF ThStatuses, ThPhases, ThTypeOK
<1>12. ThRequests'
  BY <1>1, <1>4 DEF ThRequests, Running, ThSelves, ThPhases, ThTypeOK
<1> QED BY <1>3, <1>5, <1>6, <1>7, <1>8, <1>9, <1>10, <1>11, <1>12

\* A cancellation that is acted upon is an exit with the status PTHREAD_CANCELED.
LEMMA TestCancelKept ==
  ASSUME ThGood, NEW t \in PThreads, pthread_testcancel(t)
  PROVE  ThGood'
<1> USE DEF ThGood
<1> DEFINE s == thSelf[t]
           v == [thStruct[s] EXCEPT !.state = PThreadStateCanceling, !.disabled = TRUE,
                  !.exitStatus = "CANCELED"]
<1>1. /\ s \in 1..Len(thStruct)
      /\ thStruct[s] \in Structs
      /\ thStruct[s].owner = t
      /\ pc[t] = "idle" /\ thOs[t] = "running" /\ t # OsThread
      /\ thStruct[s].state = 3
      /\ pc' = [pc EXCEPT ![t] = "th_exit"] /\ op' = [op EXCEPT ![t] = "exit"]
      /\ thEnd' = [thEnd EXCEPT ![t] = "CANCELED"]
      /\ UNCHANGED <<thSelf, thOs, thCancelled, thHandles, thArg, thJoined, thAsked>>
      /\ thStruct' = [thStruct EXCEPT ![s] = v]
      /\ thReuse' = thReuse
  <2>1. s \in 1..Len(thStruct) /\ thStruct[s].owner = t
    BY DEF pthread_testcancel, ThSelves, ThPhases, Running
  <2>2. thStruct[s] \in Structs
    BY <2>1, ElementOf DEF ThTypeOK
  <2> QED BY <2>1, <2>2 DEF pthread_testcancel, EnterFree, Running, PThreadStateCancelPending,
             thGhosts, ThTypeOK
<1>2. /\ v \in Structs
      /\ v.owner = thStruct[s].owner
      /\ v.x = thStruct[s].x
      /\ v.os = thStruct[s].os
      /\ v.detached = thStruct[s].detached
      /\ v.exitStatus = "CANCELED"
      /\ v.state = 4
  BY <1>1 DEF Structs, PThreadStateCanceling
<1> HIDE DEF v, s
<1>3. /\ thStruct' \in Seq(Structs) /\ thReuse' \in Seq(1..Len(thStruct'))
      /\ Len(thStruct') = Len(thStruct) /\ thStruct'[s] = v /\ ThPool'
      /\ \A r \in 1..Len(thStruct) : r # s => thStruct'[r] = thStruct[r]
  <2>1. /\ s \in 1..Len(thStruct) /\ v \in Structs /\ v.owner = thStruct[s].owner
        /\ thStruct' = [thStruct EXCEPT ![s] = v] /\ thReuse' = thReuse
    BY <1>1, <1>2
  <2> QED BY <2>1, Update
<1>4. /\ \A r \in 1..Len(thStruct) :
           /\ thStruct'[r].owner = thStruct[r].owner
           /\ thStruct'[r].x = thStruct[r].x
           /\ thStruct'[r].os = thStruct[r].os
           /\ thStruct'[r].detached = thStruct[r].detached
           /\ r # s => thStruct'[r].exitStatus = thStruct[r].exitStatus
           /\ r # s => thStruct'[r].state = thStruct[r].state
      /\ thStruct'[s].exitStatus = "CANCELED"
      /\ thStruct'[s].state = 4
      /\ Len(thStruct') = Len(thStruct)
  BY <1>2, <1>3
<1>5. ThTypeOK'
  BY <1>1, <1>3 DEF ThTypeOK, ThSteps, ThOps, Ends
<1>6. ThPhases'
  BY <1>1, <1>4 DEF ThPhases, ThTypeOK
<1>7. ThCreations'
  BY <1>1, <1>4 DEF ThCreations, Creating, ThPhases, ThTypeOK
<1>8. ThStructs'
  <2> SUFFICES ASSUME NEW r \in 1..Len(thStruct) PROVE Accounted(r)'
    BY <1>1, <1>4 DEF ThStructs
  <2>1. Accounted(r)
    BY DEF ThStructs
  <2>2. Implicit(r) => Implicit(r)'
    BY <1>1, <1>4 DEF Implicit, ThPhases, ThTypeOK
  <2>3. InCreation(r) => InCreation(r)'
    BY <1>1, <1>4 DEF InCreation, ThPhases, ThTypeOK
  <2>4. Claimed(r) => Claimed(r)'
    BY <1>1, <1>4 DEF Claimed, ThPhases, ThTypeOK
  <2>5. Started(r) => Started(r)'
    BY <1>1, <1>4, <2>4 DEF Started, ThPhases, ThPool, ThTypeOK
  <2> QED BY <1>1, <1>4, <2>1, <2>2, <2>3, <2>5 DEF Accounted
<1>9. ThSelves'
  BY <1>1, <1>4 DEF ThSelves, Running, ThPhases, ThTypeOK
<1>10. ThClaims'
  <2>1. \A h \in thHandles' : LiveHandle(h)'
    BY <1>1, <1>4 DEF ThClaims, Claims, LiveHandle, ThPhases, ThTypeOK
  <2>2. \A u \in PThreads : Claims(u)' =>
          LiveHandle(thArg[u])' /\ \A h \in thHandles' : h.p # thArg'[u].p
    BY <1>1, <1>4 DEF ThClaims, Claims, LiveHandle, ThPhases, ThTypeOK
  <2>3. \A u, w \in PThreads :
          Claims(u)' /\ Claims(w)' /\ thArg'[u].p = thArg'[w].p => u = w
    BY <1>1, <1>4 DEF ThClaims, Claims, LiveHandle, ThPhases, ThTypeOK
  <2>4. \A u \in PThreads :
          op'[u] = "cancel" => thArg'[u] \in thHandles' /\ thStruct'[thArg'[u].p].state # 0
    BY <1>1, <1>4 DEF ThClaims, Claims, LiveHandle, ThPhases, ThTypeOK
  <2>5. \A u \in PThreads :
          pc'[u] = "th_destroy" \/ (pc'[u] = "th_detach" /\ op'[u] = "join")
            => thStruct'[thArg'[u].p].state = 6
    BY <1>1, <1>4 DEF ThClaims, Claims, LiveHandle, ThPhases, ThTypeOK
  <2> QED BY <2>1, <2>2, <2>3, <2>4, <2>5 DEF ThClaims
<1>11. ThStatuses'
  BY <1>1, <1>4 DEF ThStatuses, ThPhases, ThTypeOK
<1>12. ThRequests'
  BY <1>1, <1>4 DEF ThRequests, Running, ThSelves, ThPhases, ThTypeOK
<1> QED BY <1>3, <1>5, <1>6, <1>7, <1>8, <1>9, <1>10, <1>11, <1>12

\* Only now may a joiner find the thread ended and take its status.
LEMMA SetLastKept ==
  ASSUME ThGood, NEW t \in PThreads, SetLast(t)
  PROVE  ThGood'
<1> USE DEF ThGood
<1> DEFINE s == thSelf[t]
           v == [thStruct[s] EXCEPT !.state = PThreadStateLast]
<1>1. /\ s \in 1..Len(thStruct)
      /\ thStruct[s] \in Structs
      /\ thStruct[s].owner = t
      /\ pc[t] = "th_exit" /\ thOs[t] = "running" /\ t # OsThread
      /\ pc' = [pc EXCEPT ![t] = "th_last"] /\ op' = op /\ thEnd' = thEnd
      /\ UNCHANGED <<thSelf, thOs, thCancelled, thHandles, thArg, thJoined, thAsked>>
      /\ thStruct' = [thStruct EXCEPT ![s] = v]
      /\ thReuse' = thReuse
  <2>1. thOs[t] = "running" /\ t # OsThread
    BY DEF SetLast, ThPhases, ThTypeOK
  <2>2. s \in 1..Len(thStruct) /\ thStruct[s].owner = t
    BY <2>1 DEF ThSelves, Running
  <2>3. thStruct[s] \in Structs
    BY <2>2, ElementOf DEF ThTypeOK
  <2> QED BY <2>1, <2>2, <2>3 DEF SetLast, Goto, thGhosts, ThTypeOK
<1>2. /\ v \in Structs
      /\ v.owner = thStruct[s].owner
      /\ v.x = thStruct[s].x
      /\ v.os = thStruct[s].os
      /\ v.detached = thStruct[s].detached
      /\ v.exitStatus = thStruct[s].exitStatus
      /\ v.state = 6
  BY <1>1 DEF Structs, PThreadStateLast
<1> HIDE DEF v, s
<1>3. /\ thStruct' \in Seq(Structs) /\ thReuse' \in Seq(1..Len(thStruct'))
      /\ Len(thStruct') = Len(thStruct) /\ thStruct'[s] = v /\ ThPool'
      /\ \A r \in 1..Len(thStruct) : r # s => thStruct'[r] = thStruct[r]
  <2>1. /\ s \in 1..Len(thStruct) /\ v \in Structs /\ v.owner = thStruct[s].owner
        /\ thStruct' = [thStruct EXCEPT ![s] = v] /\ thReuse' = thReuse
    BY <1>1, <1>2
  <2> QED BY <2>1, Update
<1>4. /\ \A r \in 1..Len(thStruct) :
           /\ thStruct'[r].owner = thStruct[r].owner
           /\ thStruct'[r].x = thStruct[r].x
           /\ thStruct'[r].os = thStruct[r].os
           /\ thStruct'[r].detached = thStruct[r].detached
           /\ thStruct'[r].exitStatus = thStruct[r].exitStatus
           /\ r # s => thStruct'[r].state = thStruct[r].state
      /\ thStruct'[s].state = 6
      /\ Len(thStruct') = Len(thStruct)
  BY <1>2, <1>3
<1>5. ThTypeOK'
  BY <1>1, <1>3 DEF ThTypeOK, ThSteps, ThOps, Ends
<1>6. ThPhases'
  BY <1>1, <1>4 DEF ThPhases, ThTypeOK
<1>7. ThCreations'
  BY <1>1, <1>4 DEF ThCreations, Creating, ThPhases, ThTypeOK
<1>8. ThStructs'
  <2> SUFFICES ASSUME NEW r \in 1..Len(thStruct) PROVE Accounted(r)'
    BY <1>1, <1>4 DEF ThStructs
  <2>1. Accounted(r)
    BY DEF ThStructs
  <2>2. Implicit(r) => Implicit(r)'
    BY <1>1, <1>4 DEF Implicit, ThPhases, ThTypeOK
  <2>3. InCreation(r) => InCreation(r)'
    BY <1>1, <1>4 DEF InCreation, ThPhases, ThTypeOK
  <2>4. Claimed(r) => Claimed(r)'
    BY <1>1, <1>4 DEF Claimed, ThPhases, ThTypeOK
  <2>5. Started(r) => Started(r)'
    BY <1>1, <1>4, <2>4 DEF Started, ThPhases, ThPool, ThTypeOK
  <2> QED BY <1>1, <1>4, <2>1, <2>2, <2>3, <2>5 DEF Accounted
<1>9. ThSelves'
  BY <1>1, <1>4 DEF ThSelves, Running, ThPhases, ThTypeOK
<1>10. ThClaims'
  BY <1>1, <1>4 DEF ThClaims, Claims, LiveHandle, ThPhases, ThTypeOK
<1>11. ThStatuses'
  BY <1>1, <1>4 DEF ThStatuses, ThPhases, ThTypeOK
<1>12. ThRequests'
  BY <1>1, <1>4 DEF ThRequests, Running, ThSelves, ThPhases, ThTypeOK
<1> QED BY <1>3, <1>5, <1>6, <1>7, <1>8, <1>9, <1>10, <1>11, <1>12

\* The joiner's target has ended, and the status in its structure is the one it ended
\* with: the structure is still that of the thread the handle names.
LEMMA WaitForEndKept ==
  ASSUME ThGood, NEW t \in PThreads, pte_osThreadWaitForEnd(t)
  PROVE  ThGood'
<1> USE DEF ThGood
<1>1. /\ pc[t] = "th_wait" /\ op[t] = "join"
      /\ pc' = [pc EXCEPT ![t] = "th_detach"] /\ op' = op
      /\ LiveHandle(thArg[t]) /\ thStruct[thArg[t].p].state = 6
      /\ pc[thArg[t].of] \in {"th_last", "exited"}
      /\ thJoined' = [thJoined EXCEPT ![thArg[t].of] = thEnd[thArg[t].of]]
      /\ UNCHANGED <<thSelf, thOs, thCancelled, thHandles, thArg, thEnd, thAsked>>
      /\ thStruct' = thStruct /\ thReuse' = thReuse
  <2> DEFINE h == thArg[t]
  <2>1. pc[t] = "th_wait" /\ op[t] = "join"
    BY DEF pte_osThreadWaitForEnd, ThPhases
  <2>2. LiveHandle(h)
    BY <2>1 DEF ThClaims, Claims
  <2>3. Started(h.p)
    BY <2>2, ZenonT(90) DEF LiveHandle, ThStructs, Accounted, Implicit, InCreation, ThCreations, Creating,
       ThTypeOK, PThreadsAssumption
  <2>4. thStruct[h.p].state = 6
    BY <2>2, <2>3 DEF pte_osThreadWaitForEnd, Ended, PThreadStateLast, LiveHandle, Started,
       ThPhases, PThreadsAssumption
  <2>5. pc[h.of] \in {"th_last", "exited"} /\ thStruct[h.p].exitStatus = thEnd[h.of]
    BY <2>2, <2>3, <2>4 DEF LiveHandle, Started
  <2> QED BY <2>1, <2>2, <2>4, <2>5 DEF pte_osThreadWaitForEnd, Goto, thGhosts, thPool, ThTypeOK
<1>3. ThPool'
  BY <1>1 DEF ThPool
<1>5. ThTypeOK'
  BY <1>1 DEF ThTypeOK, ThSteps, ThOps, Ends, LiveHandle
<1>6. ThPhases'
  BY <1>1 DEF ThPhases, ThTypeOK
<1>7. ThCreations'
  BY <1>1 DEF ThCreations, Creating
<1>8. ThStructs'
  <2> SUFFICES ASSUME NEW r \in 1..Len(thStruct) PROVE Accounted(r)'
    BY <1>1 DEF ThStructs
  <2>1. Accounted(r)
    BY DEF ThStructs
  <2>2. Implicit(r) => Implicit(r)'
    BY <1>1 DEF Implicit, ThPhases
  <2>3. InCreation(r) => InCreation(r)'
    BY <1>1 DEF InCreation
  <2>4. Claimed(r) => Claimed(r)'
    BY <1>1 DEF Claimed
  <2>5. Started(r) => Started(r)'
    BY <1>1, <2>4 DEF Started, ThPhases
  <2> QED BY <1>1, <2>1, <2>2, <2>3, <2>5 DEF Accounted
<1>9. ThSelves'
  BY <1>1 DEF ThSelves, Running, ThPhases, ThTypeOK
<1>10. ThClaims'
  BY <1>1 DEF ThClaims, Claims, LiveHandle, ThPhases, ThTypeOK
<1>11. ThStatuses'
  BY <1>1 DEF ThStatuses, ThPhases, ThTypeOK, LiveHandle
<1>12. ThRequests'
  BY <1>1 DEF ThRequests, Running, ThSelves, ThPhases, ThTypeOK
<1> QED BY <1>3, <1>5, <1>6, <1>7, <1>8, <1>9, <1>10, <1>11, <1>12

\* A cancelled joiner gives the handle back, and with it the claim on the structure.
LEMMA WaitInterruptedKept ==
  ASSUME ThGood, NEW t \in PThreads, WaitInterrupted(t)
  PROVE  ThGood'
<1> USE DEF ThGood
<1>1. /\ op[t] = "join" /\ pc[t] = "th_wait"
      /\ pc' = [pc EXCEPT ![t] = "idle"] /\ op' = [op EXCEPT ![t] = "none"]
      /\ thHandles' = thHandles \cup {thArg[t]} /\ thArg' = [thArg EXCEPT ![t] = NoHandle]
      /\ LiveHandle(thArg[t])
      /\ NoHandle \in Handles
      /\ UNCHANGED <<thSelf, thOs, thCancelled, thEnd, thJoined, thAsked>>
      /\ thStruct' = thStruct /\ thReuse' = thReuse
  <2>1. pc[t] = "th_wait" /\ op[t] = "join"
    BY DEF WaitInterrupted, ThPhases
  <2>2. LiveHandle(thArg[t])
    BY <2>1 DEF ThClaims, Claims
  <2> QED BY <2>1, <2>2 DEF WaitInterrupted, Return, Goto, thGhosts, thPool, ThTypeOK, NoHandle,
             Handles
<1>3. ThPool'
  BY <1>1 DEF ThPool
<1>5. ThTypeOK'
  BY <1>1 DEF ThTypeOK, ThSteps, ThOps, Ends
<1>6. ThPhases'
  BY <1>1 DEF ThPhases, ThTypeOK
<1>7. ThCreations'
  BY <1>1 DEF ThCreations, Creating, ThPhases, ThTypeOK
<1>8. ThStructs'
  <2> SUFFICES ASSUME NEW r \in 1..Len(thStruct) PROVE Accounted(r)'
    BY <1>1 DEF ThStructs
  <2>1. Accounted(r)
    BY DEF ThStructs
  <2>2. Implicit(r) => Implicit(r)'
    BY <1>1 DEF Implicit, ThPhases
  <2>3. InCreation(r) => InCreation(r)'
    BY <1>1 DEF InCreation
  <2>4. Claimed(r) => Claimed(r)'
    BY <1>1 DEF Claimed
  <2>5. Started(r) => Started(r)'
    BY <1>1, <2>4 DEF Started, ThPhases
  <2> QED BY <1>1, <2>1, <2>2, <2>3, <2>5 DEF Accounted
<1>9. ThSelves'
  BY <1>1 DEF ThSelves, Running, ThPhases, ThTypeOK
<1>10. ThClaims'
  BY <1>1, SMTT(30) DEF ThClaims, Claims, LiveHandle, ThPhases, ThTypeOK
<1>11. ThStatuses'
  BY <1>1 DEF ThStatuses, ThPhases, ThTypeOK
<1>12. ThRequests'
  BY <1>1 DEF ThRequests, Running, ThSelves, ThPhases, ThTypeOK
<1> QED BY <1>3, <1>5, <1>6, <1>7, <1>8, <1>9, <1>10, <1>11, <1>12

\* pthread_detach takes the handle: from then on it alone has the claim.
LEMMA DetachKept ==
  ASSUME ThGood, NEW t \in PThreads, NEW h \in thHandles, pthread_detach(t, h)
  PROVE  ThGood'
<1> USE DEF ThGood
<1>1. /\ pc[t] = "idle" /\ thOs[t] = "running" /\ ~Cancelling(h)
      /\ pc' = [pc EXCEPT ![t] = "th_detach"] /\ op' = [op EXCEPT ![t] = "detach"]
      /\ thHandles' = thHandles \ {h} /\ thArg' = [thArg EXCEPT ![t] = h]
      /\ LiveHandle(h) /\ h \in Handles
      /\ \A g \in thHandles : g # h => g.p # h.p
      /\ UNCHANGED <<thSelf, thOs, thCancelled, thEnd, thJoined, thAsked>>
      /\ thStruct' = thStruct /\ thReuse' = thReuse
  <2>1. LiveHandle(h) /\ h \in Handles
    BY DEF ThClaims, ThTypeOK
  <2>2. ASSUME NEW g \in thHandles, g.p = h.p PROVE g = h
    <3>1. LiveHandle(g) /\ g \in Handles
      BY DEF ThClaims, ThTypeOK
    <3>2. g.x = h.x /\ g.of = h.of
      BY <2>1, <2>2, <3>1 DEF LiveHandle
    <3> QED BY <2>1, <2>2, <3>1, <3>2 DEF Handles
  <2> QED BY <2>1, <2>2 DEF pthread_detach, Enter, thGhosts, thPool, ThTypeOK, Running
<1>3. ThPool'
  BY <1>1 DEF ThPool
<1>5. ThTypeOK'
  BY <1>1 DEF ThTypeOK, ThSteps, ThOps, Ends
<1>6. ThPhases'
  BY <1>1 DEF ThPhases, ThTypeOK
<1>7. ThCreations'
  BY <1>1 DEF ThCreations, Creating, ThPhases, ThTypeOK
<1>8. ThStructs'
  <2> SUFFICES ASSUME NEW r \in 1..Len(thStruct) PROVE Accounted(r)'
    BY <1>1 DEF ThStructs
  <2>1. Accounted(r)
    BY DEF ThStructs
  <2>2. Implicit(r) => Implicit(r)'
    BY <1>1 DEF Implicit, ThPhases
  <2>3. InCreation(r) => InCreation(r)'
    BY <1>1 DEF InCreation, ThPhases, ThTypeOK
  <2>4. Claimed(r) => Claimed(r)'
    BY <1>1 DEF Claimed, ThPhases, ThTypeOK
  <2>5. Started(r) => Started(r)'
    BY <1>1, <2>4 DEF Started, ThPhases
  <2> QED BY <1>1, <2>1, <2>2, <2>3, <2>5 DEF Accounted
<1>9. ThSelves'
  BY <1>1 DEF ThSelves, Running, ThPhases, ThTypeOK
<1>10. ThClaims'
  BY <1>1 DEF ThClaims, Claims, LiveHandle, ThPhases, ThTypeOK, Cancelling
<1>11. ThStatuses'
  BY <1>1 DEF ThStatuses, ThPhases, ThTypeOK
<1>12. ThRequests'
  BY <1>1 DEF ThRequests, Running, ThSelves, ThPhases, ThTypeOK
<1> QED BY <1>3, <1>5, <1>6, <1>7, <1>8, <1>9, <1>10, <1>11, <1>12

\* Once the operating system has the thread, the claim passes from the creator to the
\* handle, or to the thread itself when it was created detached.
LEMMA OsThreadCreateKept ==
  ASSUME ThGood, NEW t \in PThreads, pte_osThreadCreate(t)
  PROVE  ThGood'
<1> USE DEF ThGood
<1> DEFINE s == thArg[t].p
           v == [thStruct[s] EXCEPT !.os = thArg[t].of]
<1>1. /\ s \in 1..Len(thStruct)
      /\ thStruct[s] \in Structs
      /\ op[t] = "create" /\ pc[t] = "th_os_create" /\ t # thArg[t].of
      /\ thArg[t].of \in PThreads \ {OsThread} /\ thOs[thArg[t].of] = "none" /\ thArg[t] \in Handles
      /\ thStruct[s].owner = thArg[t].of /\ thStruct[s].x = thArg[t].x
      /\ thStruct[s].os = NoPThread /\ thStruct[s].state = 0 /\ s = thArg[t].p
      /\ pc' = [pc EXCEPT ![t] = "idle"] /\ op' = [op EXCEPT ![t] = "none"]
      /\ thOs' = [thOs EXCEPT ![thArg[t].of] = "started"]
      /\ thHandles' = IF thStruct[s].detached THEN thHandles ELSE thHandles \cup {thArg[t]}
      /\ thArg' = [thArg EXCEPT ![t] = NoHandle] /\ NoHandle \in Handles
      /\ \A u \in PThreads : u # t /\ op[u] = "create" => thArg[u].p # s /\ thArg[u].of # thArg[t].of
      /\ UNCHANGED <<thSelf, thCancelled, thEnd, thJoined, thAsked>>
      /\ thStruct' = [thStruct EXCEPT ![s] = v]
      /\ thReuse' = thReuse
  <2>1. pc[t] = "th_os_create" /\ op[t] = "create"
    BY DEF pte_osThreadCreate, ThPhases
  <2>2. Creating(t)
    BY <2>1 DEF ThCreations
  <2>3. thStruct[s] \in Structs
    BY <2>2, ElementOf DEF ThTypeOK, Creating
  <2>4. thArg[t].of # t
    BY <2>1, <2>2 DEF Creating, ThPhases
  <2>5. \A u \in PThreads : u # t /\ op[u] = "create" => thArg[u].p # s /\ thArg[u].of # thArg[t].of
    BY <2>1, <2>2 DEF Creating, ThCreations
  <2>6. /\ pc' = [pc EXCEPT ![t] = "idle"] /\ op' = [op EXCEPT ![t] = "none"]
        /\ NoHandle \in Handles /\ thArg[t] \in Handles
    BY DEF pte_osThreadCreate, Return, Goto, NoHandle, Handles, ThTypeOK
  <2> QED BY <2>1, <2>2, <2>3, <2>4, <2>5, <2>6 DEF pte_osThreadCreate, Creating, thGhosts
<1>2. /\ v \in Structs
      /\ v.owner = thStruct[s].owner
      /\ v.x = thStruct[s].x
      /\ v.state = thStruct[s].state
      /\ v.detached = thStruct[s].detached
      /\ v.exitStatus = thStruct[s].exitStatus
      /\ v.os = thArg[t].of
  BY <1>1 DEF Structs
<1> HIDE DEF v, s
<1>3. /\ thStruct' \in Seq(Structs) /\ thReuse' \in Seq(1..Len(thStruct'))
      /\ Len(thStruct') = Len(thStruct) /\ thStruct'[s] = v /\ ThPool'
      /\ \A r \in 1..Len(thStruct) : r # s => thStruct'[r] = thStruct[r]
  <2>1. /\ s \in 1..Len(thStruct) /\ v \in Structs /\ v.owner = thStruct[s].owner
        /\ thStruct' = [thStruct EXCEPT ![s] = v] /\ thReuse' = thReuse
    BY <1>1, <1>2
  <2> QED BY <2>1, Update
<1>4. /\ \A r \in 1..Len(thStruct) :
           /\ thStruct'[r].owner = thStruct[r].owner
           /\ thStruct'[r].x = thStruct[r].x
           /\ thStruct'[r].state = thStruct[r].state
           /\ thStruct'[r].detached = thStruct[r].detached
           /\ thStruct'[r].exitStatus = thStruct[r].exitStatus
           /\ r # s => thStruct'[r].os = thStruct[r].os
      /\ thStruct'[s].os = thArg[t].of
      /\ Len(thStruct') = Len(thStruct)
  BY <1>2, <1>3
<1>5. ThTypeOK'
  BY <1>1, <1>3 DEF ThTypeOK, ThSteps, ThOps, Ends
<1>6. ThPhases'
  BY <1>1, <1>4 DEF ThPhases, ThTypeOK
<1>7. ThCreations'
  BY <1>1, <1>4 DEF ThCreations, Creating, ThPhases, ThTypeOK
<1>8. ThStructs'
  <2> SUFFICES ASSUME NEW r \in 1..Len(thStruct) PROVE Accounted(r)'
    BY <1>1, <1>4 DEF ThStructs
  <2>1. Accounted(r)
    BY DEF ThStructs
  <2>2. Implicit(r) => Implicit(r)'
    BY <1>1, <1>4 DEF Implicit, ThTypeOK
  <2>3. InCreation(r) /\ r # s => InCreation(r)'
    BY <1>1, <1>4 DEF InCreation, ThTypeOK
  <2>4. Claimed(r) /\ r # s => Claimed(r)'
    BY <1>1, <1>4 DEF Claimed, ThTypeOK
  <2>5. ASSUME Started(r), r # s PROVE Started(r)'
    <3> DEFINE u == thStruct[r].owner
    <3>1. /\ u # thArg[t].of /\ u \in PThreads /\ thOs'[u] = thOs[u]
          /\ u = t => pc[u] = "th_os_create" /\ pc'[u] = "idle"
          /\ u # t => pc'[u] = pc[u]
      BY <1>1, <2>5 DEF Started, ThTypeOK
    <3> QED BY <1>1, <1>4, <2>4, <2>5, <3>1 DEF Started
  <2>6. r = s /\ ~thStruct[r].detached => Claimed(r)'
    BY <1>1 DEF Claimed
  <2>7. r = s => Started(r)'
    BY <1>1, <1>4, <2>6, PThreadsAssumption DEF Started, ThPhases, ThTypeOK
  <2> QED BY <1>1, <1>4, <2>1, <2>2, <2>3, <2>5, <2>7, PThreadsAssumption DEF Accounted
<1>9. ThSelves'
  BY <1>1, <1>4 DEF ThSelves, Running, ThPhases, ThTypeOK
<1>10. ThClaims'
  <2>1. \A h \in thHandles' : LiveHandle(h)'
    BY <1>1, <1>4, PThreadsAssumption DEF ThClaims, Claims, LiveHandle, ThPhases, ThTypeOK
  <2>2. \A u \in PThreads : Claims(u)' =>
          LiveHandle(thArg[u])' /\ \A h \in thHandles' : h.p # thArg'[u].p
    BY <1>1, <1>4, PThreadsAssumption DEF ThClaims, Claims, LiveHandle, ThPhases, ThTypeOK
  <2>3. \A u, w \in PThreads :
          Claims(u)' /\ Claims(w)' /\ thArg'[u].p = thArg'[w].p => u = w
    BY <1>1, <1>4, PThreadsAssumption DEF ThClaims, Claims, LiveHandle, ThPhases, ThTypeOK
  <2>4. \A u \in PThreads :
          op'[u] = "cancel" => thArg'[u] \in thHandles' /\ thStruct'[thArg'[u].p].state # 0
    BY <1>1, <1>4, PThreadsAssumption DEF ThClaims, Claims, LiveHandle, ThPhases, ThTypeOK
  <2>5. \A u \in PThreads :
          pc'[u] = "th_destroy" \/ (pc'[u] = "th_detach" /\ op'[u] = "join")
            => thStruct'[thArg'[u].p].state = 6
    BY <1>1, <1>4, PThreadsAssumption DEF ThClaims, Claims, LiveHandle, ThPhases, ThTypeOK
  <2> QED BY <2>1, <2>2, <2>3, <2>4, <2>5 DEF ThClaims
<1>11. ThStatuses'
  BY <1>1, <1>4 DEF ThStatuses, ThPhases, ThTypeOK
<1>12. ThRequests'
  BY <1>1, <1>4 DEF ThRequests, Running, ThSelves, ThPhases, ThTypeOK
<1> QED BY <1>3, <1>5, <1>6, <1>7, <1>8, <1>9, <1>10, <1>11, <1>12

\* A thread found at its end is left to the joiner or detacher.
LEMMA DetachWaitsKept ==
  ASSUME ThGood, NEW t \in PThreads, Detach(t), thStruct[thArg[t].p].state = 6
  PROVE  ThGood'
<1> USE DEF ThGood
<1>1. /\ pc[t] = "th_detach"
      /\ pc' = [pc EXCEPT ![t] = "th_destroy"] /\ op' = op
      /\ op[t] \in {"join", "detach"}
      /\ thStruct[thArg[t].p].state = 6
      /\ UNCHANGED <<thOs, thArg, thHandles, thSelf, thCancelled, thEnd, thJoined, thAsked>>
      /\ thStruct' = thStruct /\ thReuse' = thReuse
  <2>1. Claims(t) /\ pc[t] = "th_detach" /\ op[t] \in {"join", "detach"}
    BY DEF Detach, ThPhases, Claims
  <2>2. LiveHandle(thArg[t])
    BY <2>1 DEF ThClaims
  <2>3. thStruct[thArg[t].p] \in Structs
    BY <2>2, ElementOf DEF ThTypeOK, LiveHandle
  <2> QED BY <2>1, <2>2, <2>3 DEF Detach, Joinable, Valid, LiveHandle, PThreadStateLast, Goto,
             thGhosts
<1>3. ThPool'
  BY <1>1 DEF ThPool
<1>5. ThTypeOK'
  BY <1>1 DEF ThTypeOK, ThSteps, ThOps, Ends
<1>6. ThPhases'
  BY <1>1 DEF ThPhases, ThTypeOK
<1>7. ThCreations'
  BY <1>1 DEF ThCreations, Creating, ThPhases, ThTypeOK
<1>8. ThStructs'
  <2> SUFFICES ASSUME NEW r \in 1..Len(thStruct) PROVE Accounted(r)'
    BY <1>1 DEF ThStructs
  <2>1. Accounted(r)
    BY DEF ThStructs
  <2>2. Implicit(r) => Implicit(r)'
    BY <1>1 DEF Implicit, ThPhases
  <2>3. InCreation(r) => InCreation(r)'
    BY <1>1 DEF InCreation
  <2>4. Claimed(r) => Claimed(r)'
    BY <1>1 DEF Claimed
  <2>5. Started(r) => Started(r)'
    BY <1>1, <2>4 DEF Started, ThPhases
  <2> QED BY <1>1, <2>1, <2>2, <2>3, <2>5 DEF Accounted
<1>9. ThSelves'
  BY <1>1 DEF ThSelves, Running, ThPhases, ThTypeOK
<1>10. ThClaims'
  BY <1>1 DEF ThClaims, Claims, LiveHandle, ThPhases, ThTypeOK
<1>11. ThStatuses'
  BY <1>1 DEF ThStatuses, ThPhases, ThTypeOK
<1>12. ThRequests'
  BY <1>1 DEF ThRequests, Running, ThSelves, ThPhases, ThTypeOK
<1> QED BY <1>3, <1>5, <1>6, <1>7, <1>8, <1>9, <1>10, <1>11, <1>12

\* A thread not at its end is marked, and will destroy its structure itself.
LEMMA DetachMarksKept ==
  ASSUME ThGood, NEW t \in PThreads, Detach(t), thStruct[thArg[t].p].state # 6
  PROVE  ThGood'
<1> USE DEF ThGood
<1> DEFINE s == thArg[t].p
           v == [thStruct[s] EXCEPT !.detached = Joinable(thArg[t]) \/ @]
<1>1. /\ s \in 1..Len(thStruct)
      /\ thStruct[s] \in Structs
      /\ pc[t] = "th_detach" /\ op[t] \in {"join", "detach"}
      /\ LiveHandle(thArg[t]) /\ s = thArg[t].p /\ thStruct[s].state # 6
      /\ pc' = [pc EXCEPT ![t] = "idle"] /\ op' = [op EXCEPT ![t] = "none"]
      /\ thArg' = [thArg EXCEPT ![t] = NoHandle] /\ NoHandle \in Handles
      /\ UNCHANGED <<thOs, thHandles, thSelf, thCancelled, thEnd, thJoined, thAsked>>
      /\ thStruct' = [thStruct EXCEPT ![s] = v]
      /\ thReuse' = thReuse
  <2>1. Claims(t) /\ pc[t] = "th_detach" /\ op[t] \in {"join", "detach"}
    BY DEF Detach, ThPhases, Claims
  <2>2. LiveHandle(thArg[t])
    BY <2>1 DEF ThClaims
  <2>3. thStruct[thArg[t].p] \in Structs
    BY <2>2, ElementOf DEF ThTypeOK, LiveHandle
  <2>4. Joinable(thArg[t])
    BY <2>2 DEF Joinable, Valid, LiveHandle
  <2>5. NoHandle \in Handles
    BY DEF NoHandle, Handles
  <2> QED BY <2>1, <2>2, <2>3, <2>4, <2>5 DEF Detach, LiveHandle, PThreadStateLast, Return, Goto,
             thGhosts, ThTypeOK
<1>2. /\ v \in Structs
      /\ v.owner = thStruct[s].owner
      /\ v.x = thStruct[s].x
      /\ v.os = thStruct[s].os
      /\ v.state = thStruct[s].state
      /\ v.exitStatus = thStruct[s].exitStatus
      /\ v.detached = TRUE
  BY <1>1 DEF Structs, Joinable, Valid, LiveHandle
<1> HIDE DEF v, s
<1>3. /\ thStruct' \in Seq(Structs) /\ thReuse' \in Seq(1..Len(thStruct'))
      /\ Len(thStruct') = Len(thStruct) /\ thStruct'[s] = v /\ ThPool'
      /\ \A r \in 1..Len(thStruct) : r # s => thStruct'[r] = thStruct[r]
  <2>1. /\ s \in 1..Len(thStruct) /\ v \in Structs /\ v.owner = thStruct[s].owner
        /\ thStruct' = [thStruct EXCEPT ![s] = v] /\ thReuse' = thReuse
    BY <1>1, <1>2
  <2> QED BY <2>1, Update
<1>4. /\ \A r \in 1..Len(thStruct) :
           /\ thStruct'[r].owner = thStruct[r].owner
           /\ thStruct'[r].x = thStruct[r].x
           /\ thStruct'[r].os = thStruct[r].os
           /\ thStruct'[r].state = thStruct[r].state
           /\ thStruct'[r].exitStatus = thStruct[r].exitStatus
           /\ r # s => thStruct'[r].detached = thStruct[r].detached
      /\ thStruct'[s].detached = TRUE
      /\ Len(thStruct') = Len(thStruct)
  BY <1>2, <1>3
<1>5. ThTypeOK'
  BY <1>1, <1>3 DEF ThTypeOK, ThSteps, ThOps, Ends
<1>6. ThPhases'
  BY <1>1, <1>4 DEF ThPhases, ThTypeOK
<1>7. ThCreations'
  BY <1>1, <1>4 DEF ThCreations, Creating, ThPhases, ThTypeOK
<1>8. ThStructs'
  <2> SUFFICES ASSUME NEW r \in 1..Len(thStruct) PROVE Accounted(r)'
    BY <1>1, <1>4 DEF ThStructs
  <2>1. Accounted(r)
    BY DEF ThStructs
  <2>2. Implicit(r) => Implicit(r)'
    BY <1>1, <1>4 DEF Implicit, ThTypeOK
  <2>3. InCreation(r) => InCreation(r)'
    BY <1>1, <1>4 DEF InCreation, ThTypeOK
  <2>4. Claimed(r) /\ r # s => Claimed(r)'
    BY <1>1, <1>4 DEF Claimed, ThTypeOK
  <2>5. Started(r) => Started(r)'
    BY <1>1, <1>4, <2>4 DEF Started, ThPhases, ThTypeOK
  <2> QED BY <1>1, <1>4, <2>1, <2>2, <2>3, <2>5 DEF Accounted
<1>9. ThSelves'
  BY <1>1, <1>4 DEF ThSelves, Running, ThPhases, ThTypeOK
<1>10. ThClaims'
  <2>1. \A h \in thHandles' : LiveHandle(h)'
    BY <1>1, <1>4 DEF ThClaims, Claims, LiveHandle, ThPhases, ThTypeOK
  <2>2. \A u \in PThreads : Claims(u)' =>
          LiveHandle(thArg[u])' /\ \A h \in thHandles' : h.p # thArg'[u].p
    BY <1>1, <1>4 DEF ThClaims, Claims, LiveHandle, ThPhases, ThTypeOK
  <2>3. \A u, w \in PThreads :
          Claims(u)' /\ Claims(w)' /\ thArg'[u].p = thArg'[w].p => u = w
    BY <1>1, <1>4 DEF ThClaims, Claims, LiveHandle, ThPhases, ThTypeOK
  <2>4. \A u \in PThreads :
          op'[u] = "cancel" => thArg'[u] \in thHandles' /\ thStruct'[thArg'[u].p].state # 0
    BY <1>1, <1>4 DEF ThClaims, Claims, LiveHandle, ThPhases, ThTypeOK
  <2>5. \A u \in PThreads :
          pc'[u] = "th_destroy" \/ (pc'[u] = "th_detach" /\ op'[u] = "join")
            => thStruct'[thArg'[u].p].state = 6
    BY <1>1, <1>4 DEF ThClaims, Claims, LiveHandle, ThPhases, ThTypeOK
  <2> QED BY <2>1, <2>2, <2>3, <2>4, <2>5 DEF ThClaims
<1>11. ThStatuses'
  BY <1>1, <1>4 DEF ThStatuses, ThPhases, ThTypeOK
<1>12. ThRequests'
  BY <1>1, <1>4 DEF ThRequests, Running, ThSelves, ThPhases, ThTypeOK
<1> QED BY <1>3, <1>5, <1>6, <1>7, <1>8, <1>9, <1>10, <1>11, <1>12

\* A thread that is being cancelled or at its end is not asked again.
LEMMA CancelRefusedKept ==
  ASSUME ThGood, NEW t \in PThreads, RequestCancel(t), ~(thStruct[thArg[t].p].state < 3)
  PROVE  ThGood'
<1> USE DEF ThGood
<1>1. /\ pc[t] = "th_cancel" /\ op[t] = "cancel"
      /\ pc' = [pc EXCEPT ![t] = "idle"] /\ op' = [op EXCEPT ![t] = "none"]
      /\ thArg' = [thArg EXCEPT ![t] = NoHandle] /\ NoHandle \in Handles
      /\ UNCHANGED <<thOs, thHandles, thSelf, thCancelled, thEnd, thJoined, thAsked>>
      /\ thStruct' = thStruct /\ thReuse' = thReuse
  <2>1. pc[t] = "th_cancel" /\ op[t] = "cancel"
    BY DEF RequestCancel, ThPhases
  <2>2. /\ LiveHandle(thArg[t]) /\ thArg[t] \in thHandles
        /\ thStruct[thArg[t].p].state # 0
    BY <2>1 DEF ThClaims
  <2>3. thStruct[thArg[t].p] \in Structs
    BY <2>2, ElementOf DEF ThTypeOK, LiveHandle
  <2>4. NoHandle \in Handles
    BY DEF NoHandle, Handles
  <2> QED BY <2>1, <2>4 DEF RequestCancel, PThreadStateCancelPending, Return, Goto, thGhosts,
             ThTypeOK
<1>3. ThPool'
  BY <1>1 DEF ThPool
<1>5. ThTypeOK'
  BY <1>1 DEF ThTypeOK, ThSteps, ThOps, Ends
<1>6. ThPhases'
  BY <1>1 DEF ThPhases, ThTypeOK
<1>7. ThCreations'
  BY <1>1 DEF ThCreations, Creating, ThPhases, ThTypeOK
<1>8. ThStructs'
  <2> SUFFICES ASSUME NEW r \in 1..Len(thStruct) PROVE Accounted(r)'
    BY <1>1 DEF ThStructs
  <2>1. Accounted(r)
    BY DEF ThStructs
  <2>2. Implicit(r) => Implicit(r)'
    BY <1>1 DEF Implicit, ThPhases, ThTypeOK
  <2>3. InCreation(r) => InCreation(r)'
    BY <1>1 DEF InCreation, ThPhases, ThTypeOK
  <2>4. Claimed(r) => Claimed(r)'
    BY <1>1 DEF Claimed, ThPhases, ThTypeOK
  <2>5. Started(r) => Started(r)'
    BY <1>1, <2>4 DEF Started, ThPhases
  <2> QED BY <1>1, <2>1, <2>2, <2>3, <2>5 DEF Accounted
<1>9. ThSelves'
  BY <1>1 DEF ThSelves, Running, ThPhases, ThTypeOK
<1>10. ThClaims'
  BY <1>1 DEF ThClaims, Claims, LiveHandle, ThPhases, ThTypeOK
<1>11. ThStatuses'
  BY <1>1 DEF ThStatuses, ThPhases, ThTypeOK
<1>12. ThRequests'
  BY <1>1 DEF ThRequests, Running, ThSelves, ThPhases, ThTypeOK
<1> QED BY <1>3, <1>5, <1>6, <1>7, <1>8, <1>9, <1>10, <1>11, <1>12

\* The request: the state becomes CancelPending and the flag is set, of the thread that
\* still has the structure.
LEMMA CancelRequestedKept ==
  ASSUME ThGood, NEW t \in PThreads, RequestCancel(t), thStruct[thArg[t].p].state < 3
  PROVE  ThGood'
<1> USE DEF ThGood
<1> DEFINE s == thArg[t].p
           v == [thStruct[s] EXCEPT !.state = PThreadStateCancelPending]
<1>1. /\ s \in 1..Len(thStruct)
      /\ thStruct[s] \in Structs
      /\ pc[t] = "th_cancel" /\ op[t] = "cancel"
      /\ LiveHandle(thArg[t]) /\ s = thArg[t].p /\ thStruct[s].state \in {1}
      /\ thOs[thArg[t].of] \in {"running", "dying"}
      /\ thOs[thArg[t].of] = "running" => thSelf[thArg[t].of] = s
      /\ pc' = [pc EXCEPT ![t] = "idle"] /\ op' = [op EXCEPT ![t] = "none"]
      /\ thArg' = [thArg EXCEPT ![t] = NoHandle] /\ NoHandle \in Handles
      /\ thCancelled' = thCancelled \cup {thArg[t].of} /\ thAsked' = thAsked \cup {thArg[t].of}
      /\ UNCHANGED <<thOs, thHandles, thSelf, thEnd, thJoined>>
      /\ thStruct' = [thStruct EXCEPT ![s] = v]
      /\ thReuse' = thReuse
  <2>1. pc[t] = "th_cancel" /\ op[t] = "cancel"
    BY DEF RequestCancel, ThPhases
  <2>2. /\ LiveHandle(thArg[t]) /\ thArg[t] \in thHandles
        /\ thStruct[thArg[t].p].state # 0
    BY <2>1 DEF ThClaims
  <2>3. thStruct[thArg[t].p] \in Structs
    BY <2>2, ElementOf DEF ThTypeOK, LiveHandle
  <2>4. NoHandle \in Handles
    BY DEF NoHandle, Handles
  <2>5. thStruct[s].state = 1
    BY <2>2, <2>3 DEF Structs
  <2>6. Started(s)
    BY <2>2, ZenonT(90) DEF LiveHandle, ThStructs, Accounted, Implicit, InCreation, ThCreations, Creating,
       ThTypeOK, PThreadsAssumption
  <2>7. thOs[thArg[t].of] \in {"running", "dying"}
    BY <2>2, <2>5, <2>6 DEF LiveHandle, Started, ThTypeOK
  <2>9. thOs[thArg[t].of] = "running" => thSelf[thArg[t].of] = s
    BY <2>2, PThreadsAssumption DEF LiveHandle, ThSelves, Running, ThPool
  <2>8. {thStruct[s].os} \ {NoPThread} = {thArg[t].of}
    BY <2>2, PThreadsAssumption DEF LiveHandle
  <2> QED BY <2>1, <2>2, <2>3, <2>4, <2>5, <2>7, <2>8, <2>9 DEF RequestCancel, LiveHandle,
             PThreadStateCancelPending, Return, Goto, ThTypeOK
<1>2. /\ v \in Structs
      /\ v.owner = thStruct[s].owner
      /\ v.x = thStruct[s].x
      /\ v.os = thStruct[s].os
      /\ v.detached = thStruct[s].detached
      /\ v.exitStatus = thStruct[s].exitStatus
      /\ v.state = 3
  BY <1>1 DEF Structs, PThreadStateCancelPending
<1> HIDE DEF v, s
<1>3. /\ thStruct' \in Seq(Structs) /\ thReuse' \in Seq(1..Len(thStruct'))
      /\ Len(thStruct') = Len(thStruct) /\ thStruct'[s] = v /\ ThPool'
      /\ \A r \in 1..Len(thStruct) : r # s => thStruct'[r] = thStruct[r]
  <2>1. /\ s \in 1..Len(thStruct) /\ v \in Structs /\ v.owner = thStruct[s].owner
        /\ thStruct' = [thStruct EXCEPT ![s] = v] /\ thReuse' = thReuse
    BY <1>1, <1>2
  <2> QED BY <2>1, Update
<1>4. /\ \A r \in 1..Len(thStruct) :
           /\ thStruct'[r].owner = thStruct[r].owner
           /\ thStruct'[r].x = thStruct[r].x
           /\ thStruct'[r].os = thStruct[r].os
           /\ thStruct'[r].detached = thStruct[r].detached
           /\ thStruct'[r].exitStatus = thStruct[r].exitStatus
           /\ r # s => thStruct'[r].state = thStruct[r].state
      /\ thStruct'[s].state = 3
      /\ Len(thStruct') = Len(thStruct)
  BY <1>2, <1>3
<1>5. ThTypeOK'
  BY <1>1, <1>3 DEF ThTypeOK, ThSteps, ThOps, Ends, LiveHandle
<1>6. ThPhases'
  BY <1>1, <1>4 DEF ThPhases, ThTypeOK
<1>7. ThCreations'
  BY <1>1, <1>4 DEF ThCreations, Creating, ThPhases, ThTypeOK
<1>8. ThStructs'
  <2> SUFFICES ASSUME NEW r \in 1..Len(thStruct) PROVE Accounted(r)'
    BY <1>1, <1>4 DEF ThStructs
  <2>1. Accounted(r)
    BY DEF ThStructs
  <2>2. Implicit(r) => Implicit(r)'
    BY <1>1, <1>4 DEF Implicit, ThPhases, ThTypeOK
  <2>3. InCreation(r) => InCreation(r)'
    BY <1>1, <1>4 DEF InCreation, ThPhases, ThTypeOK
  <2>4. Claimed(r) => Claimed(r)'
    BY <1>1, <1>4 DEF Claimed, ThPhases, ThTypeOK
  <2>5. Started(r) => Started(r)'
    BY <1>1, <1>4, <2>4 DEF Started, ThPhases, ThTypeOK
  <2> QED BY <1>1, <1>4, <2>1, <2>2, <2>3, <2>5 DEF Accounted
<1>9. ThSelves'
  BY <1>1, <1>4 DEF ThSelves, Running, ThPhases, ThTypeOK
<1>10. ThClaims'
  <2>1. \A h \in thHandles' : LiveHandle(h)'
    BY <1>1, <1>4 DEF ThClaims, Claims, LiveHandle, ThPhases, ThTypeOK
  <2>2. \A u \in PThreads : Claims(u)' =>
          LiveHandle(thArg[u])' /\ \A h \in thHandles' : h.p # thArg'[u].p
    BY <1>1, <1>4 DEF ThClaims, Claims, LiveHandle, ThPhases, ThTypeOK
  <2>3. \A u, w \in PThreads :
          Claims(u)' /\ Claims(w)' /\ thArg'[u].p = thArg'[w].p => u = w
    BY <1>1, <1>4 DEF ThClaims, Claims, LiveHandle, ThPhases, ThTypeOK
  <2>4. \A u \in PThreads :
          op'[u] = "cancel" => thArg'[u] \in thHandles' /\ thStruct'[thArg'[u].p].state # 0
    BY <1>1, <1>4 DEF ThClaims, Claims, LiveHandle, ThPhases, ThTypeOK
  <2>5. \A u \in PThreads :
          pc'[u] = "th_destroy" \/ (pc'[u] = "th_detach" /\ op'[u] = "join")
            => thStruct'[thArg'[u].p].state = 6
    BY <1>1, <1>4 DEF ThClaims, Claims, LiveHandle, ThPhases, ThTypeOK
  <2> QED BY <2>1, <2>2, <2>3, <2>4, <2>5 DEF ThClaims
<1>11. ThStatuses'
  BY <1>1, <1>4 DEF ThStatuses, ThPhases, ThTypeOK
<1>12. ThRequests'
  BY <1>1, <1>4 DEF ThRequests, Running, ThSelves, ThPhases, ThTypeOK, LiveHandle
<1> QED BY <1>3, <1>5, <1>6, <1>7, <1>8, <1>9, <1>10, <1>11, <1>12

\* A failed creation returns the structure, which nobody else has seen.
LEMMA CreateFailsKept ==
  ASSUME ThGood, NEW t \in PThreads, CreateFails(t)
  PROVE  ThGood'
<1> USE DEF ThGood
<1> DEFINE s == thArg[t].p
<1>1. /\ s \in 1..Len(thStruct)
      /\ thStruct[s].owner # NoPThread
      /\ pte_threadDestroy(s)
      /\ op[t] = "create" /\ pc[t] = "th_os_create"
      /\ s = thArg[t].p /\ thArg[t].of \in PThreads \ {OsThread} /\ thStruct[s].owner = thArg[t].of
      /\ thOs[thArg[t].of] = "none" /\ thStruct[s].os = NoPThread
      /\ pc' = [pc EXCEPT ![t] = "idle"] /\ op' = [op EXCEPT ![t] = "none"]
      /\ thArg' = [thArg EXCEPT ![t] = NoHandle] /\ NoHandle \in Handles
      /\ \A u \in PThreads : u # t /\ op[u] = "create" => thArg[u].p # s
      /\ UNCHANGED <<thOs, thHandles, thSelf, thCancelled, thEnd, thJoined, thAsked>>
  <2>1. pc[t] = "th_os_create" /\ op[t] = "create"
    BY DEF CreateFails, ThPhases
  <2>2. Creating(t) /\ thStruct[s].owner # NoPThread
    BY <2>1, PThreadsAssumption DEF ThCreations, Creating
  <2>5. \A u \in PThreads : u # t /\ op[u] = "create" => thArg[u].p # s
    BY <2>1, <2>2 DEF Creating, ThCreations
  <2>6. NoHandle \in Handles
    BY DEF NoHandle, Handles
  <2> QED BY <2>1, <2>2, <2>5, <2>6 DEF CreateFails, Creating, Return, Goto, thGhosts, ThTypeOK
<1> HIDE DEF s
<1>3. /\ thStruct' \in Seq(Structs) /\ thReuse' \in Seq(1..Len(thStruct'))
      /\ Len(thStruct') = Len(thStruct)
      /\ \A r \in 1..Len(thStruct) : r # s => thStruct'[r] = thStruct[r]
      /\ thStruct'[s].owner = NoPThread /\ thStruct'[s].os = NoPThread
      /\ ThPool'
  BY <1>1, PoolDestroy
<1>5. ThTypeOK'
  BY <1>1, <1>3 DEF ThTypeOK, ThSteps, ThOps, Ends
<1>6. ThPhases'
  BY <1>1, <1>3 DEF ThPhases, ThTypeOK
<1>7. ThCreations'
  <2>1. ASSUME NEW u \in PThreads, op'[u] = "create" PROVE Creating(u)'
    <3>1. op[u] = "create" /\ u # t /\ thArg'[u] = thArg[u]
      BY <1>1, <2>1 DEF ThPhases, ThTypeOK
    <3>2. Creating(u)
      BY <3>1 DEF ThCreations
    <3>3. thArg[u].p # s /\ thOs'[thArg[u].of] = "none"
      BY <1>1, <3>1, <3>2, PThreadsAssumption DEF Creating, LiveHandle, ThTypeOK
    <3> QED BY <1>3, <3>1, <3>2, <3>3 DEF Creating
  <2>2. \A u, w \in PThreads :
          op'[u] = "create" /\ op'[w] = "create" /\ thArg'[u].of = thArg'[w].of => u = w
    BY <1>1 DEF ThCreations, ThPhases, ThTypeOK
  <2> QED BY <2>1, <2>2 DEF ThCreations
<1>8. ThStructs'
  <2> SUFFICES ASSUME NEW r \in 1..Len(thStruct) PROVE Accounted(r)'
    BY <1>1, <1>3 DEF ThStructs
  <2>1. Accounted(r)
    BY DEF ThStructs
  <2>2. Implicit(r) /\ r # s => Implicit(r)'
    BY <1>1, <1>3 DEF Implicit, ThPhases, ThTypeOK
  <2>3. InCreation(r) /\ r # s => InCreation(r)'
    BY <1>1, <1>3 DEF InCreation, ThPhases, ThTypeOK
  <2>4. Claimed(r) /\ r # s => Claimed(r)'
    BY <1>1, <1>3 DEF Claimed, ThPhases, ThTypeOK
  <2>5. ASSUME Started(r), r # s PROVE Started(r)'
    <3>1. thStruct[r].owner \in PThreads /\ thStruct[r].owner # NoPThread /\ thStruct'[r] = thStruct[r]
      BY <1>3, <2>5, PThreadsAssumption DEF Started
    <3>2. thStruct[r].owner # thStruct[s].owner
      BY <1>1, <2>5, <3>1 DEF ThPool
    <3> QED BY <1>1, <2>4, <2>5, <3>1, <3>2 DEF Started, ThPhases, ThTypeOK
  <2> QED BY <1>1, <1>3, <2>1, <2>2, <2>3, <2>5 DEF Accounted
<1>9. ThSelves'
  <2>1. ASSUME NEW u \in PThreads \ {OsThread}, Running(u)'
        PROVE  thSelf'[u] \in 1..Len(thStruct) /\ thStruct'[thSelf'[u]].owner = u
    <3>1. /\ thSelf[u] \in 1..Len(thStruct) /\ thStruct[thSelf[u]].owner = u
          /\ thSelf[u] # s /\ thSelf'[u] = thSelf[u]
      BY <1>1, <2>1 DEF ThSelves, Running, ThPhases, ThTypeOK
    <3> QED BY <1>3, <3>1
  <2>2. \/ thSelf[OsThread] = 0 \/ pc'[OsThread] = "th_longjmp"
        \/ /\ thSelf[OsThread] \in 1..Len(thStruct)
           /\ thStruct'[thSelf[OsThread]].owner = OsThread
    <3>1. CASE thSelf[OsThread] \in 1..Len(thStruct) /\ thStruct[thSelf[OsThread]].owner = OsThread
      <4>1. thSelf[OsThread] # s \/ pc'[OsThread] = "th_longjmp"
        BY <1>1, <3>1, PThreadsAssumption DEF ThTypeOK
      <4> QED BY <1>3, <3>1, <4>1
    <3>2. CASE pc[OsThread] = "th_longjmp"
      BY <1>1, <3>2, PThreadsAssumption DEF ThTypeOK, ThPhases
    <3> QED BY <3>1, <3>2 DEF ThSelves
  <2> QED BY <1>1, <1>3, <2>1, <2>2 DEF ThSelves
<1>10. ThClaims'
  <2>1. ASSUME NEW h, LiveHandle(h), h.p # s PROVE LiveHandle(h)'
    BY <1>3, <2>1 DEF LiveHandle
  <2>2. \A h \in thHandles : LiveHandle(h) /\ h.p # s
    BY <1>1 DEF ThClaims, LiveHandle, Claims
  <2>3. ASSUME NEW u \in PThreads, Claims(u)'
        PROVE  /\ Claims(u) /\ u # t /\ thArg'[u] = thArg[u] /\ LiveHandle(thArg[u])
               /\ thArg[u].p # s /\ \A h \in thHandles : h.p # thArg[u].p
    <3>1. Claims(u) /\ u # t /\ thArg'[u] = thArg[u]
      BY <1>1, <2>3 DEF Claims, ThTypeOK, ThPhases
    <3>2. LiveHandle(thArg[u]) /\ \A h \in thHandles : h.p # thArg[u].p
      BY <3>1 DEF ThClaims
    <3> QED BY <1>1, <3>1, <3>2 DEF LiveHandle, ThClaims, Claims
  <2>4. ASSUME NEW u \in PThreads, op'[u] = "cancel"
        PROVE  /\ op[u] = "cancel" /\ u # t /\ thArg'[u] = thArg[u] /\ thArg[u] \in thHandles
               /\ thStruct[thArg[u].p].state # 0
    BY <1>1, <2>4 DEF ThTypeOK, ThPhases, ThClaims
  <2>5. ASSUME NEW u \in PThreads, pc'[u] = "th_destroy" \/ (pc'[u] = "th_detach" /\ op'[u] = "join")
        PROVE  Claims(u)' /\ thStruct[thArg[u].p].state = 6
    BY <1>1, <2>5 DEF ThTypeOK, ThPhases, ThClaims, Claims
  <2>6. \A h \in thHandles' : LiveHandle(h)'
    BY <1>1, <2>1, <2>2
  <2>7. \A u \in PThreads :
          Claims(u)' => LiveHandle(thArg[u])' /\ \A h \in thHandles' : h.p # thArg'[u].p
    BY <1>1, <2>1, <2>3
  <2>8. \A u, w \in PThreads : Claims(u)' /\ Claims(w)' /\ thArg'[u].p = thArg'[w].p => u = w
    BY <2>3 DEF ThClaims
  <2>9. \A u \in PThreads : op'[u] = "cancel" => thArg'[u] \in thHandles' /\ thStruct'[thArg'[u].p].state # 0
    BY <1>1, <1>3, <2>2, <2>4 DEF LiveHandle
  <2>10. \A u \in PThreads : pc'[u] = "th_destroy" \/ (pc'[u] = "th_detach" /\ op'[u] = "join")
           => thStruct'[thArg'[u].p].state = 6
    BY <1>3, <2>3, <2>5 DEF LiveHandle
  <2> QED BY <2>6, <2>7, <2>8, <2>9, <2>10 DEF ThClaims
<1>11. ThStatuses'
  BY <1>1, <1>3 DEF ThStatuses, ThPhases, ThTypeOK
<1>12. ThRequests'
  <2> SUFFICES ASSUME NEW u \in thAsked
               PROVE  /\ u # OsThread /\ thOs'[u] \in {"running", "dying"}
                      /\ Running(u)' => u \in thCancelled /\ thStruct'[thSelf'[u]].state >= 3
    BY <1>1 DEF ThRequests
  <2>1. /\ u \in PThreads \ {OsThread} /\ thOs[u] \in {"running", "dying"}
        /\ Running(u) => u \in thCancelled /\ thStruct[thSelf[u]].state >= 3
    BY DEF ThRequests, ThTypeOK
  <2>2. /\ thOs'[u] \in {"running", "dying"}
        /\ Running(u)' => Running(u)
        /\ Running(u)' => thSelf[u] \in 1..Len(thStruct) /\ thSelf[u] # s /\ thSelf'[u] = thSelf[u]
    BY <1>1, <2>1 DEF ThSelves, Running, ThPhases, ThTypeOK
  <2>3. Running(u)' => thStruct'[thSelf'[u]] = thStruct[thSelf[u]]
    BY <1>3, <2>2
  <2> QED BY <2>1, <2>2, <2>3
<1> QED BY <1>3, <1>5, <1>6, <1>7, <1>8, <1>9, <1>10, <1>11, <1>12

\* pte_throw destroys the implicit structure of a thread that is no pthread.
LEMMA ThrowKept ==
  ASSUME ThGood, NEW t \in PThreads, pte_throw(t)
  PROVE  ThGood'
<1> USE DEF ThGood
<1> DEFINE s == thSelf[t]
<1>1. /\ s \in 1..Len(thStruct)
      /\ thStruct[s].owner # NoPThread
      /\ pte_threadDestroy(s)
      /\ t = OsThread /\ s = thSelf[t] /\ pc[t] = "idle" /\ thOs[t] = "running"
      /\ thStruct[s].owner = OsThread
      /\ pc' = [pc EXCEPT ![t] = "th_longjmp"] /\ op' = [op EXCEPT ![t] = "exit"]
      /\ UNCHANGED <<thOs, thArg, thHandles, thSelf, thCancelled, thEnd, thJoined, thAsked>>
  <2>1. s \in 1..Len(thStruct) /\ thStruct[s].owner = OsThread
    BY DEF pte_throw, EnterFree, ThSelves
  <2> QED BY <2>1, PThreadsAssumption DEF pte_throw, EnterFree, Running, thGhosts, ThTypeOK
<1> HIDE DEF s
<1>3. /\ thStruct' \in Seq(Structs) /\ thReuse' \in Seq(1..Len(thStruct'))
      /\ Len(thStruct') = Len(thStruct)
      /\ \A r \in 1..Len(thStruct) : r # s => thStruct'[r] = thStruct[r]
      /\ thStruct'[s].owner = NoPThread /\ thStruct'[s].os = NoPThread
      /\ ThPool'
  BY <1>1, PoolDestroy
<1>5. ThTypeOK'
  BY <1>1, <1>3 DEF ThTypeOK, ThSteps, ThOps, Ends
<1>6. ThPhases'
  BY <1>1, <1>3 DEF ThPhases, ThTypeOK
<1>7. ThCreations'
  <2>1. ASSUME NEW u \in PThreads, op'[u] = "create" PROVE Creating(u)'
    <3>1. op[u] = "create" /\ u # t /\ thArg'[u] = thArg[u]
      BY <1>1, <2>1 DEF ThPhases, ThTypeOK
    <3>2. Creating(u)
      BY <3>1 DEF ThCreations
    <3>3. thArg[u].p # s /\ thOs'[thArg[u].of] = "none"
      BY <1>1, <3>1, <3>2, PThreadsAssumption DEF Creating, LiveHandle, ThTypeOK
    <3> QED BY <1>3, <3>1, <3>2, <3>3 DEF Creating
  <2>2. \A u, w \in PThreads :
          op'[u] = "create" /\ op'[w] = "create" /\ thArg'[u].of = thArg'[w].of => u = w
    BY <1>1 DEF ThCreations, ThPhases, ThTypeOK
  <2> QED BY <2>1, <2>2 DEF ThCreations
<1>8. ThStructs'
  <2> SUFFICES ASSUME NEW r \in 1..Len(thStruct) PROVE Accounted(r)'
    BY <1>1, <1>3 DEF ThStructs
  <2>1. Accounted(r)
    BY DEF ThStructs
  <2>2. Implicit(r) /\ r # s => Implicit(r)'
    BY <1>1, <1>3 DEF Implicit, ThPhases, ThTypeOK
  <2>3. InCreation(r) /\ r # s => InCreation(r)'
    BY <1>1, <1>3 DEF InCreation, ThPhases, ThTypeOK
  <2>4. Claimed(r) /\ r # s => Claimed(r)'
    BY <1>1, <1>3 DEF Claimed, ThPhases, ThTypeOK
  <2>5. ASSUME Started(r), r # s PROVE Started(r)'
    <3>1. thStruct[r].owner \in PThreads /\ thStruct[r].owner # NoPThread /\ thStruct'[r] = thStruct[r]
      BY <1>3, <2>5, PThreadsAssumption DEF Started
    <3>2. thStruct[r].owner # thStruct[s].owner
      BY <1>1, <2>5, <3>1 DEF ThPool
    <3> QED BY <1>1, <2>4, <2>5, <3>1, <3>2 DEF Started, ThPhases, ThTypeOK
  <2> QED BY <1>1, <1>3, <2>1, <2>2, <2>3, <2>5 DEF Accounted
<1>9. ThSelves'
  <2>1. ASSUME NEW u \in PThreads \ {OsThread}, Running(u)'
        PROVE  thSelf'[u] \in 1..Len(thStruct) /\ thStruct'[thSelf'[u]].owner = u
    <3>1. /\ thSelf[u] \in 1..Len(thStruct) /\ thStruct[thSelf[u]].owner = u
          /\ thSelf[u] # s /\ thSelf'[u] = thSelf[u]
      BY <1>1, <2>1 DEF ThSelves, Running, ThPhases, ThTypeOK
    <3> QED BY <1>3, <3>1
  <2>2. \/ thSelf[OsThread] = 0 \/ pc'[OsThread] = "th_longjmp"
        \/ /\ thSelf[OsThread] \in 1..Len(thStruct)
           /\ thStruct'[thSelf[OsThread]].owner = OsThread
    <3>1. CASE thSelf[OsThread] \in 1..Len(thStruct) /\ thStruct[thSelf[OsThread]].owner = OsThread
      <4>1. thSelf[OsThread] # s \/ pc'[OsThread] = "th_longjmp"
        BY <1>1, <3>1, PThreadsAssumption DEF ThTypeOK
      <4> QED BY <1>3, <3>1, <4>1
    <3>2. CASE pc[OsThread] = "th_longjmp"
      BY <1>1, <3>2, PThreadsAssumption DEF ThTypeOK, ThPhases
    <3> QED BY <3>1, <3>2 DEF ThSelves
  <2> QED BY <1>1, <1>3, <2>1, <2>2 DEF ThSelves
<1>10. ThClaims'
  <2>1. ASSUME NEW h, LiveHandle(h), h.p # s PROVE LiveHandle(h)'
    BY <1>3, <2>1 DEF LiveHandle
  <2>2. \A h \in thHandles : LiveHandle(h) /\ h.p # s
    BY <1>1 DEF ThClaims, LiveHandle, Claims
  <2>3. ASSUME NEW u \in PThreads, Claims(u)'
        PROVE  /\ Claims(u) /\ u # t /\ thArg'[u] = thArg[u] /\ LiveHandle(thArg[u])
               /\ thArg[u].p # s /\ \A h \in thHandles : h.p # thArg[u].p
    <3>1. Claims(u) /\ u # t /\ thArg'[u] = thArg[u]
      BY <1>1, <2>3 DEF Claims, ThTypeOK, ThPhases
    <3>2. LiveHandle(thArg[u]) /\ \A h \in thHandles : h.p # thArg[u].p
      BY <3>1 DEF ThClaims
    <3> QED BY <1>1, <3>1, <3>2 DEF LiveHandle, ThClaims, Claims
  <2>4. ASSUME NEW u \in PThreads, op'[u] = "cancel"
        PROVE  /\ op[u] = "cancel" /\ u # t /\ thArg'[u] = thArg[u] /\ thArg[u] \in thHandles
               /\ thStruct[thArg[u].p].state # 0
    BY <1>1, <2>4 DEF ThTypeOK, ThPhases, ThClaims
  <2>5. ASSUME NEW u \in PThreads, pc'[u] = "th_destroy" \/ (pc'[u] = "th_detach" /\ op'[u] = "join")
        PROVE  Claims(u)' /\ thStruct[thArg[u].p].state = 6
    BY <1>1, <2>5 DEF ThTypeOK, ThPhases, ThClaims, Claims
  <2>6. \A h \in thHandles' : LiveHandle(h)'
    BY <1>1, <2>1, <2>2
  <2>7. \A u \in PThreads :
          Claims(u)' => LiveHandle(thArg[u])' /\ \A h \in thHandles' : h.p # thArg'[u].p
    BY <1>1, <2>1, <2>3
  <2>8. \A u, w \in PThreads : Claims(u)' /\ Claims(w)' /\ thArg'[u].p = thArg'[w].p => u = w
    BY <2>3 DEF ThClaims
  <2>9. \A u \in PThreads : op'[u] = "cancel" => thArg'[u] \in thHandles' /\ thStruct'[thArg'[u].p].state # 0
    BY <1>1, <1>3, <2>2, <2>4 DEF LiveHandle
  <2>10. \A u \in PThreads : pc'[u] = "th_destroy" \/ (pc'[u] = "th_detach" /\ op'[u] = "join")
           => thStruct'[thArg'[u].p].state = 6
    BY <1>3, <2>3, <2>5 DEF LiveHandle
  <2> QED BY <2>6, <2>7, <2>8, <2>9, <2>10 DEF ThClaims
<1>11. ThStatuses'
  BY <1>1, <1>3 DEF ThStatuses, ThPhases, ThTypeOK
<1>12. ThRequests'
  <2> SUFFICES ASSUME NEW u \in thAsked
               PROVE  /\ u # OsThread /\ thOs'[u] \in {"running", "dying"}
                      /\ Running(u)' => u \in thCancelled /\ thStruct'[thSelf'[u]].state >= 3
    BY <1>1 DEF ThRequests
  <2>1. /\ u \in PThreads \ {OsThread} /\ thOs[u] \in {"running", "dying"}
        /\ Running(u) => u \in thCancelled /\ thStruct[thSelf[u]].state >= 3
    BY DEF ThRequests, ThTypeOK
  <2>2. /\ thOs'[u] \in {"running", "dying"}
        /\ Running(u)' => Running(u)
        /\ Running(u)' => thSelf[u] \in 1..Len(thStruct) /\ thSelf[u] # s /\ thSelf'[u] = thSelf[u]
    BY <1>1, <2>1 DEF ThSelves, Running, ThPhases, ThTypeOK
  <2>3. Running(u)' => thStruct'[thSelf'[u]] = thStruct[thSelf[u]]
    BY <1>3, <2>2
  <2> QED BY <2>1, <2>2, <2>3
<1> QED BY <1>3, <1>5, <1>6, <1>7, <1>8, <1>9, <1>10, <1>11, <1>12

\* A detached thread destroys its structure, which no handle claims.
LEMMA ExitDetachedKept ==
  ASSUME ThGood, NEW t \in PThreads, DetachAndExit(t), thStruct[thSelf[t]].detached
  PROVE  ThGood'
<1> USE DEF ThGood
<1> DEFINE s == thSelf[t]
<1>1. /\ s \in 1..Len(thStruct)
      /\ thStruct[s].owner # NoPThread
      /\ pte_threadDestroy(s)
      /\ pc[t] = "th_last" /\ t # OsThread
      /\ s = thSelf[t] /\ thStruct[s].owner = t /\ thStruct[s].os = t /\ thStruct[s].detached
      /\ thOs[t] = "running" /\ thOs' = [thOs EXCEPT ![t] = "dying"]
      /\ pc' = [pc EXCEPT ![t] = "exited"] /\ op' = op
      /\ UNCHANGED <<thArg, thHandles, thSelf, thCancelled, thEnd, thJoined, thAsked>>
  <2>1. pc[t] = "th_last" /\ thOs[t] = "running" /\ t # OsThread
    BY DEF DetachAndExit, ThPhases, ThTypeOK
  <2>2. s \in 1..Len(thStruct) /\ thStruct[s].owner = t
    BY <2>1 DEF ThSelves, Running
  <2>3. Started(s)
    BY <2>1, <2>2, PThreadsAssumption DEF ThStructs, Accounted, Implicit, InCreation, ThCreations,
       Creating
  <2>4. thStruct[s].os = t
    BY <2>2, <2>3 DEF Started
  <2> QED BY <2>1, <2>2, <2>4, PThreadsAssumption DEF DetachAndExit, Goto, thGhosts
<1> HIDE DEF s
<1>3. /\ thStruct' \in Seq(Structs) /\ thReuse' \in Seq(1..Len(thStruct'))
      /\ Len(thStruct') = Len(thStruct)
      /\ \A r \in 1..Len(thStruct) : r # s => thStruct'[r] = thStruct[r]
      /\ thStruct'[s].owner = NoPThread /\ thStruct'[s].os = NoPThread
      /\ ThPool'
  BY <1>1, PoolDestroy
<1>5. ThTypeOK'
  BY <1>1, <1>3 DEF ThTypeOK, ThSteps, ThOps, Ends
<1>6. ThPhases'
  BY <1>1, <1>3 DEF ThPhases, ThTypeOK
<1>7. ThCreations'
  <2>1. ASSUME NEW u \in PThreads, op'[u] = "create" PROVE Creating(u)'
    <3>1. op[u] = "create" /\ u # t /\ thArg'[u] = thArg[u]
      BY <1>1, <2>1 DEF ThPhases, ThTypeOK
    <3>2. Creating(u)
      BY <3>1 DEF ThCreations
    <3>3. thArg[u].p # s /\ thOs'[thArg[u].of] = "none"
      BY <1>1, <3>1, <3>2, PThreadsAssumption DEF Creating, LiveHandle, ThTypeOK
    <3> QED BY <1>3, <3>1, <3>2, <3>3 DEF Creating
  <2>2. \A u, w \in PThreads :
          op'[u] = "create" /\ op'[w] = "create" /\ thArg'[u].of = thArg'[w].of => u = w
    BY <1>1 DEF ThCreations, ThPhases, ThTypeOK
  <2> QED BY <2>1, <2>2 DEF ThCreations
<1>8. ThStructs'
  <2> SUFFICES ASSUME NEW r \in 1..Len(thStruct) PROVE Accounted(r)'
    BY <1>1, <1>3 DEF ThStructs
  <2>1. Accounted(r)
    BY DEF ThStructs
  <2>2. Implicit(r) /\ r # s => Implicit(r)'
    BY <1>1, <1>3 DEF Implicit, ThPhases, ThTypeOK
  <2>3. InCreation(r) /\ r # s => InCreation(r)'
    BY <1>1, <1>3 DEF InCreation, ThPhases, ThTypeOK
  <2>4. Claimed(r) /\ r # s => Claimed(r)'
    BY <1>1, <1>3 DEF Claimed, ThPhases, ThTypeOK
  <2>5. ASSUME Started(r), r # s PROVE Started(r)'
    <3>1. thStruct[r].owner \in PThreads /\ thStruct[r].owner # NoPThread /\ thStruct'[r] = thStruct[r]
      BY <1>3, <2>5, PThreadsAssumption DEF Started
    <3>2. thStruct[r].owner # thStruct[s].owner
      BY <1>1, <2>5, <3>1 DEF ThPool
    <3> QED BY <1>1, <2>4, <2>5, <3>1, <3>2 DEF Started, ThPhases, ThTypeOK
  <2> QED BY <1>1, <1>3, <2>1, <2>2, <2>3, <2>5 DEF Accounted
<1>9. ThSelves'
  <2>1. ASSUME NEW u \in PThreads \ {OsThread}, Running(u)'
        PROVE  thSelf'[u] \in 1..Len(thStruct) /\ thStruct'[thSelf'[u]].owner = u
    <3>1. /\ thSelf[u] \in 1..Len(thStruct) /\ thStruct[thSelf[u]].owner = u
          /\ thSelf[u] # s /\ thSelf'[u] = thSelf[u]
      BY <1>1, <2>1 DEF ThSelves, Running, ThPhases, ThTypeOK
    <3> QED BY <1>3, <3>1
  <2>2. \/ thSelf[OsThread] = 0 \/ pc'[OsThread] = "th_longjmp"
        \/ /\ thSelf[OsThread] \in 1..Len(thStruct)
           /\ thStruct'[thSelf[OsThread]].owner = OsThread
    <3>1. CASE thSelf[OsThread] \in 1..Len(thStruct) /\ thStruct[thSelf[OsThread]].owner = OsThread
      <4>1. thSelf[OsThread] # s \/ pc'[OsThread] = "th_longjmp"
        BY <1>1, <3>1, PThreadsAssumption DEF ThTypeOK
      <4> QED BY <1>3, <3>1, <4>1
    <3>2. CASE pc[OsThread] = "th_longjmp"
      BY <1>1, <3>2, PThreadsAssumption DEF ThTypeOK, ThPhases
    <3> QED BY <3>1, <3>2 DEF ThSelves
  <2> QED BY <1>1, <1>3, <2>1, <2>2 DEF ThSelves
<1>10. ThClaims'
  <2>1. ASSUME NEW h, LiveHandle(h), h.p # s PROVE LiveHandle(h)'
    BY <1>3, <2>1 DEF LiveHandle
  <2>2. \A h \in thHandles : LiveHandle(h) /\ h.p # s
    BY <1>1 DEF ThClaims, LiveHandle, Claims
  <2>3. ASSUME NEW u \in PThreads, Claims(u)'
        PROVE  /\ Claims(u) /\ u # t /\ thArg'[u] = thArg[u] /\ LiveHandle(thArg[u])
               /\ thArg[u].p # s /\ \A h \in thHandles : h.p # thArg[u].p
    <3>1. Claims(u) /\ u # t /\ thArg'[u] = thArg[u]
      BY <1>1, <2>3 DEF Claims, ThTypeOK, ThPhases
    <3>2. LiveHandle(thArg[u]) /\ \A h \in thHandles : h.p # thArg[u].p
      BY <3>1 DEF ThClaims
    <3> QED BY <1>1, <3>1, <3>2 DEF LiveHandle, ThClaims, Claims
  <2>4. ASSUME NEW u \in PThreads, op'[u] = "cancel"
        PROVE  /\ op[u] = "cancel" /\ u # t /\ thArg'[u] = thArg[u] /\ thArg[u] \in thHandles
               /\ thStruct[thArg[u].p].state # 0
    BY <1>1, <2>4 DEF ThTypeOK, ThPhases, ThClaims
  <2>5. ASSUME NEW u \in PThreads, pc'[u] = "th_destroy" \/ (pc'[u] = "th_detach" /\ op'[u] = "join")
        PROVE  Claims(u)' /\ thStruct[thArg[u].p].state = 6
    BY <1>1, <2>5 DEF ThTypeOK, ThPhases, ThClaims, Claims
  <2>6. \A h \in thHandles' : LiveHandle(h)'
    BY <1>1, <2>1, <2>2
  <2>7. \A u \in PThreads :
          Claims(u)' => LiveHandle(thArg[u])' /\ \A h \in thHandles' : h.p # thArg'[u].p
    BY <1>1, <2>1, <2>3
  <2>8. \A u, w \in PThreads : Claims(u)' /\ Claims(w)' /\ thArg'[u].p = thArg'[w].p => u = w
    BY <2>3 DEF ThClaims
  <2>9. \A u \in PThreads : op'[u] = "cancel" => thArg'[u] \in thHandles' /\ thStruct'[thArg'[u].p].state # 0
    BY <1>1, <1>3, <2>2, <2>4 DEF LiveHandle
  <2>10. \A u \in PThreads : pc'[u] = "th_destroy" \/ (pc'[u] = "th_detach" /\ op'[u] = "join")
           => thStruct'[thArg'[u].p].state = 6
    BY <1>3, <2>3, <2>5 DEF LiveHandle
  <2> QED BY <2>6, <2>7, <2>8, <2>9, <2>10 DEF ThClaims
<1>11. ThStatuses'
  BY <1>1, <1>3 DEF ThStatuses, ThPhases, ThTypeOK
<1>12. ThRequests'
  <2> SUFFICES ASSUME NEW u \in thAsked
               PROVE  /\ u # OsThread /\ thOs'[u] \in {"running", "dying"}
                      /\ Running(u)' => u \in thCancelled /\ thStruct'[thSelf'[u]].state >= 3
    BY <1>1 DEF ThRequests
  <2>1. /\ u \in PThreads \ {OsThread} /\ thOs[u] \in {"running", "dying"}
        /\ Running(u) => u \in thCancelled /\ thStruct[thSelf[u]].state >= 3
    BY DEF ThRequests, ThTypeOK
  <2>2. /\ thOs'[u] \in {"running", "dying"}
        /\ Running(u)' => Running(u)
        /\ Running(u)' => thSelf[u] \in 1..Len(thStruct) /\ thSelf[u] # s /\ thSelf'[u] = thSelf[u]
    BY <1>1, <2>1 DEF ThSelves, Running, ThPhases, ThTypeOK
  <2>3. Running(u)' => thStruct'[thSelf'[u]] = thStruct[thSelf[u]]
    BY <1>3, <2>2
  <2> QED BY <2>1, <2>2, <2>3
<1> QED BY <1>3, <1>5, <1>6, <1>7, <1>8, <1>9, <1>10, <1>11, <1>12

\* A joinable thread leaves its structure, which a handle or a call claims.
LEMMA ExitJoinableKept ==
  ASSUME ThGood, NEW t \in PThreads, DetachAndExit(t), ~thStruct[thSelf[t]].detached
  PROVE  ThGood'
<1> USE DEF ThGood
<1>1. /\ pc[t] = "th_last" /\ t # OsThread
      /\ thOs[t] = "running" /\ thOs' = [thOs EXCEPT ![t] = "dying"]
      /\ thSelf[t] \in 1..Len(thStruct) /\ thStruct[thSelf[t]].owner = t /\ ~thStruct[thSelf[t]].detached
      /\ pc' = [pc EXCEPT ![t] = "exited"] /\ op' = op
      /\ UNCHANGED <<thArg, thHandles, thSelf, thCancelled, thEnd, thJoined, thAsked>>
      /\ thStruct' = thStruct /\ thReuse' = thReuse
  <2>1. pc[t] = "th_last" /\ thOs[t] = "running" /\ t # OsThread
    BY DEF DetachAndExit, ThPhases, ThTypeOK
  <2>2. thSelf[t] \in 1..Len(thStruct) /\ thStruct[thSelf[t]].owner = t
    BY <2>1 DEF ThSelves, Running
  <2>3. Started(thSelf[t])
    BY <2>1, <2>2, PThreadsAssumption DEF ThStructs, Accounted, Implicit, InCreation, ThCreations,
       Creating
  <2>4. thStruct[thSelf[t]].os = t
    BY <2>2, <2>3 DEF Started
  <2> QED BY <2>1, <2>2, <2>4 DEF DetachAndExit, Goto, thPool, thGhosts
<1>3. ThPool'
  BY <1>1 DEF ThPool
<1>5. ThTypeOK'
  BY <1>1 DEF ThTypeOK, ThSteps, ThOps, Ends
<1>6. ThPhases'
  BY <1>1 DEF ThPhases, ThTypeOK
<1>7. ThCreations'
  BY <1>1 DEF ThCreations, Creating, ThPhases, ThTypeOK
<1>8. ThStructs'
  <2> SUFFICES ASSUME NEW r \in 1..Len(thStruct) PROVE Accounted(r)'
    BY <1>1 DEF ThStructs
  <2>1. Accounted(r)
    BY DEF ThStructs
  <2>2. Implicit(r) => Implicit(r)'
    BY <1>1 DEF Implicit, ThPhases, ThTypeOK
  <2>3. InCreation(r) => InCreation(r)'
    BY <1>1 DEF InCreation, ThTypeOK, ThPhases
  <2>4. Claimed(r) => Claimed(r)'
    BY <1>1 DEF Claimed, ThPhases, ThTypeOK
  <2>5. Started(r) => Started(r)'
    BY <1>1, <2>4 DEF Started, ThPhases, ThPool, ThTypeOK
  <2> QED BY <1>1, <2>1, <2>2, <2>3, <2>5 DEF Accounted
<1>9. ThSelves'
  BY <1>1 DEF ThSelves, Running, ThPhases, ThTypeOK
<1>10. ThClaims'
  BY <1>1 DEF ThClaims, Claims, LiveHandle, ThPhases, ThTypeOK
<1>11. ThStatuses'
  BY <1>1 DEF ThStatuses, ThPhases, ThTypeOK
<1>12. ThRequests'
  BY <1>1 DEF ThRequests, Running, ThSelves, ThPhases, ThTypeOK
<1> QED BY <1>3, <1>5, <1>6, <1>7, <1>8, <1>9, <1>10, <1>11, <1>12

\* The one that claims the structure of an ended thread destroys it.  Here the thread
\* must be off its structure: ThreadRaces must not have reuse_while_exiting.
LEMMA DetachDestroysKept ==
  ASSUME ThGood, NEW t \in PThreads, ThreadRaces = {}, DetachDestroys(t)
  PROVE  ThGood'
<1> USE DEF ThGood
<1> DEFINE s == thArg[t].p
<1>1. /\ s \in 1..Len(thStruct)
      /\ thStruct[s].owner # NoPThread
      /\ pte_threadDestroy(s)
      /\ pc[t] = "th_destroy" /\ op[t] \in {"join", "detach"}
      /\ LiveHandle(thArg[t]) /\ s = thArg[t].p
      /\ thOs[thArg[t].of] = "dying"
      /\ pc' = [pc EXCEPT ![t] = "idle"] /\ op' = [op EXCEPT ![t] = "none"]
      /\ thArg' = [thArg EXCEPT ![t] = NoHandle] /\ NoHandle \in Handles
      /\ UNCHANGED <<thOs, thHandles, thSelf, thCancelled, thEnd, thJoined, thAsked>>
  <2>1. pc[t] = "th_destroy" /\ op[t] \in {"join", "detach"}
    BY DEF DetachDestroys, ThPhases
  <2>2. LiveHandle(thArg[t])
    BY <2>1 DEF ThClaims, Claims
  <2>3. NoHandle \in Handles
    BY DEF NoHandle, Handles
  <2> QED BY <2>1, <2>2, <2>3, PThreadsAssumption DEF DetachDestroys, LiveHandle, Return, Goto,
             thGhosts, ThTypeOK
<1> HIDE DEF s
<1>3. /\ thStruct' \in Seq(Structs) /\ thReuse' \in Seq(1..Len(thStruct'))
      /\ Len(thStruct') = Len(thStruct)
      /\ \A r \in 1..Len(thStruct) : r # s => thStruct'[r] = thStruct[r]
      /\ thStruct'[s].owner = NoPThread /\ thStruct'[s].os = NoPThread
      /\ ThPool'
  BY <1>1, PoolDestroy
<1>5. ThTypeOK'
  BY <1>1, <1>3 DEF ThTypeOK, ThSteps, ThOps, Ends
<1>6. ThPhases'
  BY <1>1, <1>3 DEF ThPhases, ThTypeOK
<1>7. ThCreations'
  <2>1. ASSUME NEW u \in PThreads, op'[u] = "create" PROVE Creating(u)'
    <3>1. op[u] = "create" /\ u # t /\ thArg'[u] = thArg[u]
      BY <1>1, <2>1 DEF ThPhases, ThTypeOK
    <3>2. Creating(u)
      BY <3>1 DEF ThCreations
    <3>3. thArg[u].p # s /\ thOs'[thArg[u].of] = "none"
      BY <1>1, <3>1, <3>2, PThreadsAssumption DEF Creating, LiveHandle, ThTypeOK
    <3> QED BY <1>3, <3>1, <3>2, <3>3 DEF Creating
  <2>2. \A u, w \in PThreads :
          op'[u] = "create" /\ op'[w] = "create" /\ thArg'[u].of = thArg'[w].of => u = w
    BY <1>1 DEF ThCreations, ThPhases, ThTypeOK
  <2> QED BY <2>1, <2>2 DEF ThCreations
<1>8. ThStructs'
  <2> SUFFICES ASSUME NEW r \in 1..Len(thStruct) PROVE Accounted(r)'
    BY <1>1, <1>3 DEF ThStructs
  <2>1. Accounted(r)
    BY DEF ThStructs
  <2>2. Implicit(r) /\ r # s => Implicit(r)'
    BY <1>1, <1>3 DEF Implicit, ThPhases, ThTypeOK
  <2>3. InCreation(r) /\ r # s => InCreation(r)'
    BY <1>1, <1>3 DEF InCreation, ThPhases, ThTypeOK
  <2>4. Claimed(r) /\ r # s => Claimed(r)'
    BY <1>1, <1>3 DEF Claimed, ThPhases, ThTypeOK
  <2>5. ASSUME Started(r), r # s PROVE Started(r)'
    <3>1. thStruct[r].owner \in PThreads /\ thStruct[r].owner # NoPThread /\ thStruct'[r] = thStruct[r]
      BY <1>3, <2>5, PThreadsAssumption DEF Started
    <3>2. thStruct[r].owner # thStruct[s].owner
      BY <1>1, <2>5, <3>1 DEF ThPool
    <3> QED BY <1>1, <2>4, <2>5, <3>1, <3>2 DEF Started, ThPhases, ThTypeOK
  <2> QED BY <1>1, <1>3, <2>1, <2>2, <2>3, <2>5 DEF Accounted
<1>9. ThSelves'
  <2>1. ASSUME NEW u \in PThreads \ {OsThread}, Running(u)'
        PROVE  thSelf'[u] \in 1..Len(thStruct) /\ thStruct'[thSelf'[u]].owner = u
    <3>1. /\ thSelf[u] \in 1..Len(thStruct) /\ thStruct[thSelf[u]].owner = u
          /\ thSelf[u] # s /\ thSelf'[u] = thSelf[u]
      BY <1>1, <2>1 DEF ThSelves, Running, ThPhases, ThTypeOK, LiveHandle
    <3> QED BY <1>3, <3>1
  <2>2. \/ thSelf[OsThread] = 0 \/ pc'[OsThread] = "th_longjmp"
        \/ /\ thSelf[OsThread] \in 1..Len(thStruct)
           /\ thStruct'[thSelf[OsThread]].owner = OsThread
    <3>1. CASE thSelf[OsThread] \in 1..Len(thStruct) /\ thStruct[thSelf[OsThread]].owner = OsThread
      <4>1. thSelf[OsThread] # s \/ pc'[OsThread] = "th_longjmp"
        BY <1>1, <3>1, PThreadsAssumption DEF ThTypeOK, LiveHandle
      <4> QED BY <1>3, <3>1, <4>1
    <3>2. CASE pc[OsThread] = "th_longjmp"
      BY <1>1, <3>2, PThreadsAssumption DEF ThTypeOK, ThPhases
    <3> QED BY <3>1, <3>2 DEF ThSelves
  <2> QED BY <1>1, <1>3, <2>1, <2>2 DEF ThSelves
<1>10. ThClaims'
  <2>1. ASSUME NEW h, LiveHandle(h), h.p # s PROVE LiveHandle(h)'
    BY <1>3, <2>1 DEF LiveHandle
  <2>2. \A h \in thHandles : LiveHandle(h) /\ h.p # s
    BY <1>1 DEF ThClaims, LiveHandle, Claims
  <2>3. ASSUME NEW u \in PThreads, Claims(u)'
        PROVE  /\ Claims(u) /\ u # t /\ thArg'[u] = thArg[u] /\ LiveHandle(thArg[u])
               /\ thArg[u].p # s /\ \A h \in thHandles : h.p # thArg[u].p
    <3>1. Claims(u) /\ u # t /\ thArg'[u] = thArg[u]
      BY <1>1, <2>3 DEF Claims, ThTypeOK, ThPhases
    <3>2. LiveHandle(thArg[u]) /\ \A h \in thHandles : h.p # thArg[u].p
      BY <3>1 DEF ThClaims
    <3> QED BY <1>1, <3>1, <3>2 DEF LiveHandle, ThClaims, Claims
  <2>4. ASSUME NEW u \in PThreads, op'[u] = "cancel"
        PROVE  /\ op[u] = "cancel" /\ u # t /\ thArg'[u] = thArg[u] /\ thArg[u] \in thHandles
               /\ thStruct[thArg[u].p].state # 0
    BY <1>1, <2>4 DEF ThTypeOK, ThPhases, ThClaims
  <2>5. ASSUME NEW u \in PThreads, pc'[u] = "th_destroy" \/ (pc'[u] = "th_detach" /\ op'[u] = "join")
        PROVE  Claims(u)' /\ thStruct[thArg[u].p].state = 6
    BY <1>1, <2>5 DEF ThTypeOK, ThPhases, ThClaims, Claims
  <2>6. \A h \in thHandles' : LiveHandle(h)'
    BY <1>1, <2>1, <2>2
  <2>7. \A u \in PThreads :
          Claims(u)' => LiveHandle(thArg[u])' /\ \A h \in thHandles' : h.p # thArg'[u].p
    BY <1>1, <2>1, <2>3
  <2>8. \A u, w \in PThreads : Claims(u)' /\ Claims(w)' /\ thArg'[u].p = thArg'[w].p => u = w
    BY <2>3 DEF ThClaims
  <2>9. \A u \in PThreads : op'[u] = "cancel" => thArg'[u] \in thHandles' /\ thStruct'[thArg'[u].p].state # 0
    BY <1>1, <1>3, <2>2, <2>4 DEF LiveHandle
  <2>10. \A u \in PThreads : pc'[u] = "th_destroy" \/ (pc'[u] = "th_detach" /\ op'[u] = "join")
           => thStruct'[thArg'[u].p].state = 6
    BY <1>3, <2>3, <2>5 DEF LiveHandle
  <2> QED BY <2>6, <2>7, <2>8, <2>9, <2>10 DEF ThClaims
<1>11. ThStatuses'
  BY <1>1, <1>3 DEF ThStatuses, ThPhases, ThTypeOK
<1>12. ThRequests'
  <2> SUFFICES ASSUME NEW u \in thAsked
               PROVE  /\ u # OsThread /\ thOs'[u] \in {"running", "dying"}
                      /\ Running(u)' => u \in thCancelled /\ thStruct'[thSelf'[u]].state >= 3
    BY <1>1 DEF ThRequests
  <2>1. /\ u \in PThreads \ {OsThread} /\ thOs[u] \in {"running", "dying"}
        /\ Running(u) => u \in thCancelled /\ thStruct[thSelf[u]].state >= 3
    BY DEF ThRequests, ThTypeOK
  <2>2. /\ thOs'[u] \in {"running", "dying"}
        /\ Running(u)' => Running(u)
        /\ Running(u)' => thSelf[u] \in 1..Len(thStruct) /\ thSelf[u] # s /\ thSelf'[u] = thSelf[u]
    BY <1>1, <2>1 DEF ThSelves, Running, ThPhases, ThTypeOK, LiveHandle
  <2>3. Running(u)' => thStruct'[thSelf'[u]] = thStruct[thSelf[u]]
    BY <1>3, <2>2
  <2> QED BY <2>1, <2>2, <2>3
<1> QED BY <1>3, <1>5, <1>6, <1>7, <1>8, <1>9, <1>10, <1>11, <1>12

\* pthread_self only takes a structure for the thread that is no pthread, and when
\* that thread has none.
LEMMA SelfOf ==
  ASSUME ThGood, NEW t \in PThreads, pc[t] = "idle", Running(t), pthread_self(t)
  PROVE  \/ UNCHANGED <<thStruct, thReuse, thSelf>>
         \/ /\ t = OsThread /\ thSelf[t] = 0
            /\ \A r \in 1..Len(thStruct) : thStruct[r].owner # OsThread
            /\ \E s \in 1..MaxStructs :
                 pte_new(s, OsThread, TRUE) /\ thSelf' = [thSelf EXCEPT ![OsThread] = s]
<1> USE DEF ThGood
<1>1. CASE thSelf[t] # 0
  BY <1>1 DEF pthread_self, thPool
<1>2. CASE thSelf[t] = 0
  <2>1. t = OsThread
    BY <1>2 DEF ThSelves, ThTypeOK
  <2>2. ASSUME NEW r \in 1..Len(thStruct), thStruct[r].owner = OsThread PROVE FALSE
    <3>1. Implicit(r) \/ InCreation(r) \/ Started(r)
      BY <2>2, PThreadsAssumption DEF ThStructs, Accounted
    <3>2. ~Implicit(r)
      BY <1>2, <2>1 DEF Implicit
    <3>3. ~InCreation(r)
      BY <2>2 DEF InCreation, ThCreations, Creating
    <3>4. ~Started(r)
      BY <2>2 DEF Started
    <3> QED BY <3>1, <3>2, <3>3, <3>4
  <2> QED BY <1>2, <2>1, <2>2 DEF pthread_self
<1> QED BY <1>1, <1>2

\* pthread_create takes a structure for a thread that has none.
LEMMA CreateKept ==
  ASSUME ThGood, NEW t \in PThreads, NEW u \in PThreads, NEW d \in BOOLEAN,
         NEW s \in 1..MaxStructs, pthread_create(t, u, d), pte_new(s, u, d),
         thArg' = [thArg EXCEPT ![t] = [p |-> s, x |-> thStruct'[s].x, of |-> u]]
  PROVE  ThGood'
<1> USE DEF ThGood
<1>1. /\ pte_new(s, u, d)
      /\ \A r \in 1..Len(thStruct) : thStruct[r].owner # u
      /\ pc[t] = "idle" /\ thOs[t] = "running" /\ thOs[u] = "none" /\ u # OsThread /\ s \in Nat
      /\ pc' = [pc EXCEPT ![t] = "th_os_create"] /\ op' = [op EXCEPT ![t] = "create"]
      /\ thArg' = [thArg EXCEPT ![t] = [p |-> s, x |-> thStruct'[s].x, of |-> u]]
      /\ thArg'[t].p = s /\ thArg'[t].x = thStruct'[s].x /\ thArg'[t].of = u
      /\ \A v \in PThreads : op[v] = "create" => thArg[v].of # u
      /\ UNCHANGED <<thSelf, thOs, thCancelled, thHandles, thEnd, thJoined, thAsked>>
  <2>1. thOs[u] = "none" /\ \A v \in PThreads : op[v] = "create" => thArg[v].of # u
    BY DEF pthread_create
  <2>2. u # OsThread
    BY <2>1 DEF ThPhases
  <2>3. ASSUME NEW r \in 1..Len(thStruct), thStruct[r].owner = u PROVE FALSE
    <3>1. Implicit(r) \/ InCreation(r) \/ Started(r)
      BY <2>3, PThreadsAssumption DEF ThStructs, Accounted
    <3>2. ~InCreation(r)
      BY <2>1, <2>3 DEF InCreation, ThCreations, Creating
    <3> QED BY <2>1, <2>2, <2>3, <3>1, <3>2 DEF Implicit, Started
  <2>4. /\ pc[t] = "idle" /\ thOs[t] = "running"
        /\ pc' = [pc EXCEPT ![t] = "th_os_create"] /\ op' = [op EXCEPT ![t] = "create"]
    BY DEF pthread_create, Enter, Running
  <2>5. thArg'[t] = [p |-> s, x |-> thStruct'[s].x, of |-> u] /\ s \in Nat
    BY ThreadAssumption DEF ThTypeOK
  <2>6. UNCHANGED <<thSelf, thOs, thCancelled, thHandles, thEnd, thJoined, thAsked>>
    BY DEF pthread_create, thGhosts
  <2> QED BY <2>1, <2>2, <2>3, <2>4, <2>5, <2>6
<1>3. /\ thStruct' \in Seq(Structs) /\ thReuse' \in Seq(1..Len(thStruct'))
      /\ 1..Len(thStruct') = (1..Len(thStruct)) \cup {s}
      /\ \A r \in 1..Len(thStruct) : r # s => thStruct'[r] = thStruct[r]
      /\ s \in 1..Len(thStruct) => thStruct[s].owner = NoPThread
      /\ thStruct'[s].owner = u /\ thStruct'[s].os = NoPThread /\ thStruct'[s].state = 0
      /\ thStruct'[s].x \in Nat /\ ThPool'
  BY <1>1, PoolNew
<1>4. \A r \in 1..Len(thStruct) : thStruct[r].owner # NoPThread
        => r # s /\ r \in 1..Len(thStruct') /\ thStruct'[r] = thStruct[r]
  BY <1>3
<1>5. ThTypeOK'
  BY <1>1, <1>3, PThreadsAssumption, SMTT(30) DEF ThTypeOK, ThSteps, ThOps, Ends, Handles
<1>6. ThPhases'
  BY <1>1 DEF ThPhases, ThTypeOK
<1>7. ThCreations'
  <2>1. ASSUME NEW w \in PThreads, op'[w] = "create", w # t PROVE Creating(w)'
    <3>1. op[w] = "create" /\ thArg'[w] = thArg[w]
      BY <1>1, <2>1 DEF ThPhases, ThTypeOK
    <3>2. Creating(w) /\ thStruct[thArg[w].p].owner # NoPThread
      BY <3>1, PThreadsAssumption DEF ThCreations, Creating
    <3> QED BY <1>1, <1>4, <3>1, <3>2 DEF Creating
  <2>2. Creating(t)'
    BY <1>1, <1>3 DEF Creating
  <2>3. \A v, w \in PThreads :
          op'[v] = "create" /\ op'[w] = "create" /\ thArg'[v].of = thArg'[w].of => v = w
    BY <1>1 DEF ThCreations, ThPhases, ThTypeOK
  <2> QED BY <2>1, <2>2, <2>3 DEF ThCreations
<1>8. ThStructs'
  <2> SUFFICES ASSUME NEW r \in 1..Len(thStruct') PROVE Accounted(r)'
    BY DEF ThStructs
  <2>1. CASE r = s
    <3>1. InCreation(r)'
      BY <1>1, <1>3, <2>1 DEF InCreation, ThTypeOK
    <3> QED BY <3>1 DEF Accounted, InCreation
  <2>2. CASE r # s
    <3>1. r \in 1..Len(thStruct) /\ thStruct'[r] = thStruct[r] /\ Accounted(r)
      BY <1>3, <2>2 DEF ThStructs
    <3>2. Implicit(r) => Implicit(r)'
      BY <1>1, <3>1, PThreadsAssumption DEF Implicit, ThPhases, ThTypeOK
    <3>3. InCreation(r) => InCreation(r)'
      BY <1>1, <3>1 DEF InCreation, ThPhases, ThTypeOK
    <3>4. Claimed(r) => Claimed(r)'
      BY <1>1 DEF Claimed, ThPhases, ThTypeOK
    <3>5. Started(r) => Started(r)'
      BY <1>1, <3>1, <3>4 DEF Started, ThPhases, ThTypeOK
    <3> QED BY <3>1, <3>2, <3>3, <3>5 DEF Accounted
  <2> QED BY <2>1, <2>2
<1>9. ThSelves'
  <2>1. ASSUME NEW w \in PThreads \ {OsThread}, Running(w)'
        PROVE  thSelf'[w] \in 1..Len(thStruct') /\ thStruct'[thSelf'[w]].owner = w
    <3>1. /\ thSelf[w] \in 1..Len(thStruct) /\ thStruct[thSelf[w]].owner = w
          /\ thSelf'[w] = thSelf[w] /\ w # NoPThread
      BY <1>1, <2>1, PThreadsAssumption DEF ThSelves, Running, ThTypeOK
    <3> QED BY <1>4, <3>1
  <2>2. \/ thSelf'[OsThread] = 0 \/ pc'[OsThread] = "th_longjmp"
        \/ /\ thSelf'[OsThread] \in 1..Len(thStruct')
           /\ thStruct'[thSelf'[OsThread]].owner = OsThread
    <3>1. thSelf' = thSelf /\ OsThread # NoPThread
      BY <1>1, PThreadsAssumption
    <3>2. pc[OsThread] = "th_longjmp" => pc'[OsThread] = "th_longjmp"
      BY <1>1 DEF ThTypeOK
    <3> QED BY <1>4, <3>1, <3>2 DEF ThSelves
  <2> QED BY <2>1, <2>2 DEF ThSelves
<1>10. ThClaims'
  <2>1. ASSUME NEW h, LiveHandle(h)
        PROVE  LiveHandle(h)' /\ thStruct'[h.p].state = thStruct[h.p].state
    <3>1. h.p \in 1..Len(thStruct) /\ thStruct[h.p].owner # NoPThread
      BY <2>1, PThreadsAssumption DEF LiveHandle
    <3>2. h.p \in 1..Len(thStruct') /\ thStruct'[h.p] = thStruct[h.p]
      BY <1>4, <3>1
    <3> QED BY <2>1, <3>2 DEF LiveHandle
  <2>2. \A g \in thHandles : LiveHandle(g)
    BY DEF ThClaims
  <2>3. ASSUME NEW w \in PThreads, Claims(w)'
        PROVE  /\ thArg'[w] = thArg[w] /\ Claims(w) /\ LiveHandle(thArg[w])
               /\ \A g \in thHandles : g.p # thArg[w].p
    BY <1>1, <2>3 DEF Claims, ThTypeOK, ThPhases, ThClaims
  <2>4. \A w \in PThreads : op'[w] = "cancel" =>
          thArg'[w] \in thHandles /\ thStruct[thArg'[w].p].state # 0
    BY <1>1 DEF ThTypeOK, ThPhases, ThClaims
  <2>5. \A w \in PThreads : pc'[w] = "th_destroy" \/ (pc'[w] = "th_detach" /\ op'[w] = "join") =>
          Claims(w)' /\ thStruct[thArg[w].p].state = 6
    BY <1>1 DEF ThTypeOK, ThPhases, ThClaims, Claims
  <2>6. \A g \in thHandles' : LiveHandle(g)'
    BY <1>1, <2>1, <2>2
  <2>7. \A w \in PThreads :
          Claims(w)' => LiveHandle(thArg[w])' /\ \A g \in thHandles' : g.p # thArg'[w].p
    BY <1>1, <2>1, <2>2, <2>3
  <2>8. \A v, w \in PThreads : Claims(v)' /\ Claims(w)' /\ thArg'[v].p = thArg'[w].p => v = w
    BY <1>1, <2>3 DEF ThClaims
  <2>9. \A w \in PThreads :
          op'[w] = "cancel" => thArg'[w] \in thHandles' /\ thStruct'[thArg'[w].p].state # 0
    BY <1>1, <2>1, <2>2, <2>4
  <2>10. \A w \in PThreads : pc'[w] = "th_destroy" \/ (pc'[w] = "th_detach" /\ op'[w] = "join")
           => thStruct'[thArg'[w].p].state = 6
    BY <2>1, <2>3, <2>5
  <2> QED BY <2>6, <2>7, <2>8, <2>9, <2>10 DEF ThClaims
<1>11. ThStatuses'
  BY <1>1 DEF ThStatuses, ThPhases, ThTypeOK
<1>12. ThRequests'
  <2> SUFFICES ASSUME NEW w \in thAsked
               PROVE  /\ w # OsThread /\ thOs'[w] \in {"running", "dying"}
                      /\ Running(w)' => w \in thCancelled /\ thStruct'[thSelf'[w]].state >= 3
    BY <1>1 DEF ThRequests
  <2>1. /\ w \in PThreads \ {OsThread} /\ thOs[w] \in {"running", "dying"}
        /\ Running(w) => w \in thCancelled /\ thStruct[thSelf[w]].state >= 3
    BY DEF ThRequests, ThTypeOK
  <2>2. Running(w)' => Running(w)
    BY <1>1 DEF Running
  <2>3. Running(w) => thSelf[w] \in 1..Len(thStruct) /\ thStruct[thSelf[w]].owner # NoPThread
    BY <2>1, PThreadsAssumption DEF ThSelves
  <2>4. thSelf'[w] = thSelf[w] /\ thOs' = thOs
    BY <1>1, <2>1 DEF ThTypeOK
  <2> QED BY <1>4, <2>1, <2>2, <2>3, <2>4
<1> QED BY <1>3, <1>5, <1>6, <1>7, <1>8, <1>9, <1>10, <1>11, <1>12

\* pthread_join by a thread that gets its implicit structure in it.
LEMMA JoinNewKept ==
  ASSUME ThGood, NEW t \in PThreads, NEW h \in thHandles, pthread_join(t, h),
         NEW s \in 1..MaxStructs, pte_new(s, OsThread, TRUE),
         thSelf' = [thSelf EXCEPT ![OsThread] = s], thSelf[t] = 0, t = OsThread,
         \A r \in 1..Len(thStruct) : thStruct[r].owner # OsThread
  PROVE  ThGood'
<1> USE DEF ThGood
<1>1. /\ pte_new(s, OsThread, TRUE)
      /\ \A r \in 1..Len(thStruct) : thStruct[r].owner # OsThread
      /\ pc[t] = "idle" /\ thOs[t] = "running" /\ ~Cancelling(h) /\ LiveHandle(h) /\ h \in Handles
      /\ pc' = [pc EXCEPT ![t] = "th_wait"] /\ op' = [op EXCEPT ![t] = "join"]
      /\ thHandles' = thHandles \ {h} /\ thArg' = [thArg EXCEPT ![t] = h]
      /\ \A g \in thHandles : g # h => g.p # h.p
      /\ thSelf[t] = 0 /\ t = OsThread /\ s # 0 /\ s \in Nat /\ thSelf' = [thSelf EXCEPT ![OsThread] = s]
      /\ UNCHANGED <<thOs, thCancelled, thEnd, thJoined, thAsked>>
  <2>1. LiveHandle(h) /\ h \in Handles
    BY DEF ThClaims, ThTypeOK
  <2>2. ASSUME NEW g \in thHandles, g.p = h.p PROVE g = h
    <3>1. LiveHandle(g) /\ g \in Handles
      BY DEF ThClaims, ThTypeOK
    <3>2. g.x = h.x /\ g.of = h.of
      BY <2>1, <2>2, <3>1 DEF LiveHandle
    <3> QED BY <2>1, <2>2, <3>1, <3>2 DEF Handles
  <2>3. h.of # t
    BY <2>1 DEF LiveHandle
  <2>4. s # 0 /\ s \in Nat
    BY ThreadAssumption
  <2>5. /\ pc[t] = "idle" /\ thOs[t] = "running" /\ ~Cancelling(h)
        /\ pc' = [pc EXCEPT ![t] = "th_wait"] /\ op' = [op EXCEPT ![t] = "join"]
    BY <2>3 DEF pthread_join, Enter, Running
  <2>6. /\ thHandles' = thHandles \ {h} /\ thArg' = [thArg EXCEPT ![t] = h]
        /\ UNCHANGED <<thOs, thCancelled, thEnd, thJoined, thAsked>>
    BY <2>3 DEF pthread_join, thGhosts
  <2> QED BY <2>1, <2>2, <2>4, <2>5, <2>6
<1>3. /\ thStruct' \in Seq(Structs) /\ thReuse' \in Seq(1..Len(thStruct'))
      /\ 1..Len(thStruct') = (1..Len(thStruct)) \cup {s}
      /\ \A r \in 1..Len(thStruct) : r # s => thStruct'[r] = thStruct[r]
      /\ s \in 1..Len(thStruct) => thStruct[s].owner = NoPThread
      /\ thStruct'[s].owner = OsThread /\ thStruct'[s].os = NoPThread /\ thStruct'[s].state = 0
      /\ thStruct'[s].x \in Nat /\ ThPool'
  <2>1. OsThread \in PThreads /\ TRUE \in BOOLEAN
    BY PThreadsAssumption
  <2>2. PICK d \in BOOLEAN : pte_new(s, OsThread, d)
    BY <1>1, <2>1, Zenon
  <2> QED BY <1>1, <2>1, <2>2, PoolNew
<1>4. \A r \in 1..Len(thStruct) : thStruct[r].owner # NoPThread
        => r # s /\ r \in 1..Len(thStruct') /\ thStruct'[r] = thStruct[r]
  BY <1>3
<1>5. ThTypeOK'
  BY <1>1, <1>3, PThreadsAssumption, SMTT(30) DEF ThTypeOK, ThSteps, ThOps, Ends, Handles
<1>6. ThPhases'
  BY <1>1 DEF ThPhases, ThTypeOK
<1>7. ThCreations'
  <2>1. ASSUME NEW w \in PThreads, op'[w] = "create" PROVE Creating(w)'
    <3>1. op[w] = "create" /\ thArg'[w] = thArg[w]
      BY <1>1, <2>1 DEF ThPhases, ThTypeOK
    <3>2. Creating(w) /\ thStruct[thArg[w].p].owner # NoPThread
      BY <3>1, PThreadsAssumption DEF ThCreations, Creating
    <3> QED BY <1>1, <1>4, <3>1, <3>2 DEF Creating
  <2>3. \A v, w \in PThreads :
          op'[v] = "create" /\ op'[w] = "create" /\ thArg'[v].of = thArg'[w].of => v = w
    BY <1>1 DEF ThCreations, ThPhases, ThTypeOK
  <2> QED BY <2>1, <2>3 DEF ThCreations
<1>8. ThStructs'
  <2> SUFFICES ASSUME NEW r \in 1..Len(thStruct') PROVE Accounted(r)'
    BY DEF ThStructs
  <2>1. CASE r = s
    <3>1. Implicit(r)'
      BY <1>1, <1>3, <2>1, PThreadsAssumption DEF Implicit, ThTypeOK
    <3> QED BY <3>1 DEF Accounted, Implicit
  <2>2. CASE r # s
    <3>1. r \in 1..Len(thStruct) /\ thStruct'[r] = thStruct[r] /\ Accounted(r)
      BY <1>3, <2>2 DEF ThStructs
    <3>2. Implicit(r) => Implicit(r)'
      BY <1>1, <3>1, PThreadsAssumption DEF Implicit, ThPhases, ThTypeOK
    <3>3. InCreation(r) => InCreation(r)'
      BY <1>1, <3>1 DEF InCreation, ThPhases, ThTypeOK
    <3>4. Claimed(r) => Claimed(r)'
      BY <1>1 DEF Claimed, ThPhases, ThTypeOK
    <3>5. Started(r) => Started(r)'
      BY <1>1, <3>1, <3>4 DEF Started, ThPhases, ThTypeOK
    <3> QED BY <3>1, <3>2, <3>3, <3>5 DEF Accounted
  <2> QED BY <2>1, <2>2
<1>9. ThSelves'
  <2>1. ASSUME NEW w \in PThreads \ {OsThread}, Running(w)'
        PROVE  thSelf'[w] \in 1..Len(thStruct') /\ thStruct'[thSelf'[w]].owner = w
    <3>1. /\ thSelf[w] \in 1..Len(thStruct) /\ thStruct[thSelf[w]].owner = w
          /\ thSelf'[w] = thSelf[w] /\ w # NoPThread
      BY <1>1, <2>1, PThreadsAssumption DEF ThSelves, Running, ThTypeOK
    <3> QED BY <1>4, <3>1
  <2>2. \/ thSelf'[OsThread] = 0 \/ pc'[OsThread] = "th_longjmp"
        \/ /\ thSelf'[OsThread] \in 1..Len(thStruct')
           /\ thStruct'[thSelf'[OsThread]].owner = OsThread
    BY <1>1, <1>3, PThreadsAssumption DEF ThTypeOK
  <2> QED BY <2>1, <2>2 DEF ThSelves
<1>10. ThClaims'
  <2>1. ASSUME NEW g, LiveHandle(g)
        PROVE  LiveHandle(g)' /\ thStruct'[g.p].state = thStruct[g.p].state
    <3>1. g.p \in 1..Len(thStruct) /\ thStruct[g.p].owner # NoPThread
      BY <2>1, PThreadsAssumption DEF LiveHandle
    <3>2. g.p \in 1..Len(thStruct') /\ thStruct'[g.p] = thStruct[g.p]
      BY <1>4, <3>1
    <3> QED BY <2>1, <3>2 DEF LiveHandle
  <2>2. \A g \in thHandles : LiveHandle(g)
    BY DEF ThClaims
  <2>3. ASSUME NEW w \in PThreads, Claims(w)'
        PROVE  /\ thArg'[w] = IF w = t THEN h ELSE thArg[w]
               /\ w # t => Claims(w) /\ LiveHandle(thArg[w])
                          /\ \A g \in thHandles : g.p # thArg[w].p
    BY <1>1, <2>3 DEF Claims, ThTypeOK, ThPhases, ThClaims
  <2>4. \A w \in PThreads : op'[w] = "cancel" =>
          /\ op[w] = "cancel" /\ w # t /\ thArg'[w] = thArg[w] /\ thArg[w] \in thHandles
          /\ thArg[w] # h /\ thStruct[thArg[w].p].state # 0
    BY <1>1 DEF ThTypeOK, ThPhases, ThClaims, Cancelling
  <2>5. \A w \in PThreads : pc'[w] = "th_destroy" \/ (pc'[w] = "th_detach" /\ op'[w] = "join") =>
          w # t /\ Claims(w)' /\ thStruct[thArg[w].p].state = 6
    BY <1>1 DEF ThTypeOK, ThPhases, ThClaims, Claims
  <2>6. \A g \in thHandles' : LiveHandle(g)'
    BY <1>1, <2>1, <2>2
  <2>7. \A w \in PThreads :
          Claims(w)' => LiveHandle(thArg[w])' /\ \A g \in thHandles' : g.p # thArg'[w].p
    BY <1>1, <2>1, <2>2, <2>3
  <2>8. \A v, w \in PThreads : Claims(v)' /\ Claims(w)' /\ thArg'[v].p = thArg'[w].p => v = w
    BY <1>1, <2>3 DEF ThClaims
  <2>9. \A w \in PThreads :
          op'[w] = "cancel" => thArg'[w] \in thHandles' /\ thStruct'[thArg'[w].p].state # 0
    BY <1>1, <2>1, <2>2, <2>4
  <2>10. \A w \in PThreads : pc'[w] = "th_destroy" \/ (pc'[w] = "th_detach" /\ op'[w] = "join")
           => thStruct'[thArg'[w].p].state = 6
    BY <2>1, <2>3, <2>5
  <2> QED BY <2>6, <2>7, <2>8, <2>9, <2>10 DEF ThClaims
<1>11. ThStatuses'
  BY <1>1 DEF ThStatuses, ThPhases, ThTypeOK
<1>12. ThRequests'
  <2> SUFFICES ASSUME NEW w \in thAsked
               PROVE  /\ w # OsThread /\ thOs'[w] \in {"running", "dying"}
                      /\ Running(w)' => w \in thCancelled /\ thStruct'[thSelf'[w]].state >= 3
    BY <1>1 DEF ThRequests
  <2>1. /\ w \in PThreads \ {OsThread} /\ thOs[w] \in {"running", "dying"}
        /\ Running(w) => w \in thCancelled /\ thStruct[thSelf[w]].state >= 3
    BY DEF ThRequests, ThTypeOK
  <2>2. Running(w)' => Running(w)
    BY <1>1 DEF Running
  <2>3. Running(w) => thSelf[w] \in 1..Len(thStruct) /\ thStruct[thSelf[w]].owner # NoPThread
    BY <2>1, PThreadsAssumption DEF ThSelves
  <2>4. thSelf'[w] = thSelf[w] /\ thOs' = thOs
    BY <1>1, <2>1 DEF ThTypeOK
  <2> QED BY <1>4, <2>1, <2>2, <2>3, <2>4
<1> QED BY <1>3, <1>5, <1>6, <1>7, <1>8, <1>9, <1>10, <1>11, <1>12

\* pthread_cancel by a thread that gets its implicit structure in it.
LEMMA CancelNewKept ==
  ASSUME ThGood, NEW t \in PThreads, NEW h \in thHandles, ThreadRaces = {}, pthread_cancel(t, h),
         NEW s \in 1..MaxStructs, pte_new(s, OsThread, TRUE),
         thSelf' = [thSelf EXCEPT ![OsThread] = s], thSelf[t] = 0, t = OsThread,
         \A r \in 1..Len(thStruct) : thStruct[r].owner # OsThread
  PROVE  ThGood'
<1> USE DEF ThGood
<1>1. /\ pte_new(s, OsThread, TRUE)
      /\ \A r \in 1..Len(thStruct) : thStruct[r].owner # OsThread
      /\ pc[t] = "idle" /\ thOs[t] = "running" /\ LiveHandle(h) /\ h \in thHandles /\ h \in Handles
      /\ thStruct[h.p].state # 0
      /\ pc' = [pc EXCEPT ![t] = "th_cancel"] /\ op' = [op EXCEPT ![t] = "cancel"]
      /\ thArg' = [thArg EXCEPT ![t] = h]
      /\ thSelf[t] = 0 /\ t = OsThread /\ s # 0 /\ s \in Nat /\ thSelf' = [thSelf EXCEPT ![OsThread] = s]
      /\ UNCHANGED <<thOs, thCancelled, thHandles, thEnd, thJoined, thAsked>>
  <2>1. LiveHandle(h) /\ h \in Handles
    BY DEF ThClaims, ThTypeOK
  <2>2. s # 0 /\ s \in Nat
    BY ThreadAssumption
  <2>3. /\ pc[t] = "idle" /\ thOs[t] = "running" /\ thStruct[h.p].state # 0
        /\ pc' = [pc EXCEPT ![t] = "th_cancel"] /\ op' = [op EXCEPT ![t] = "cancel"]
    BY DEF pthread_cancel, PThreadStateInitial, Enter, Running
  <2>4. /\ thArg' = [thArg EXCEPT ![t] = h]
        /\ UNCHANGED <<thOs, thCancelled, thHandles, thEnd, thJoined, thAsked>>
    BY DEF pthread_cancel, thGhosts
  <2> QED BY <2>1, <2>2, <2>3, <2>4
<1>3. /\ thStruct' \in Seq(Structs) /\ thReuse' \in Seq(1..Len(thStruct'))
      /\ 1..Len(thStruct') = (1..Len(thStruct)) \cup {s}
      /\ \A r \in 1..Len(thStruct) : r # s => thStruct'[r] = thStruct[r]
      /\ s \in 1..Len(thStruct) => thStruct[s].owner = NoPThread
      /\ thStruct'[s].owner = OsThread /\ thStruct'[s].os = NoPThread /\ thStruct'[s].state = 0
      /\ thStruct'[s].x \in Nat /\ ThPool'
  <2>1. OsThread \in PThreads /\ TRUE \in BOOLEAN
    BY PThreadsAssumption
  <2>2. PICK d \in BOOLEAN : pte_new(s, OsThread, d)
    BY <1>1, <2>1, Zenon
  <2> QED BY <1>1, <2>1, <2>2, PoolNew
<1>4. \A r \in 1..Len(thStruct) : thStruct[r].owner # NoPThread
        => r # s /\ r \in 1..Len(thStruct') /\ thStruct'[r] = thStruct[r]
  BY <1>3
<1>5. ThTypeOK'
  BY <1>1, <1>3, PThreadsAssumption, SMTT(30) DEF ThTypeOK, ThSteps, ThOps, Ends, Handles
<1>6. ThPhases'
  BY <1>1 DEF ThPhases, ThTypeOK
<1>7. ThCreations'
  <2>1. ASSUME NEW w \in PThreads, op'[w] = "create" PROVE Creating(w)'
    <3>1. op[w] = "create" /\ thArg'[w] = thArg[w]
      BY <1>1, <2>1 DEF ThPhases, ThTypeOK
    <3>2. Creating(w) /\ thStruct[thArg[w].p].owner # NoPThread
      BY <3>1, PThreadsAssumption DEF ThCreations, Creating
    <3> QED BY <1>1, <1>4, <3>1, <3>2 DEF Creating
  <2>3. \A v, w \in PThreads :
          op'[v] = "create" /\ op'[w] = "create" /\ thArg'[v].of = thArg'[w].of => v = w
    BY <1>1 DEF ThCreations, ThPhases, ThTypeOK
  <2> QED BY <2>1, <2>3 DEF ThCreations
<1>8. ThStructs'
  <2> SUFFICES ASSUME NEW r \in 1..Len(thStruct') PROVE Accounted(r)'
    BY DEF ThStructs
  <2>1. CASE r = s
    <3>1. Implicit(r)'
      BY <1>1, <1>3, <2>1, PThreadsAssumption DEF Implicit, ThTypeOK
    <3> QED BY <3>1 DEF Accounted, Implicit
  <2>2. CASE r # s
    <3>1. r \in 1..Len(thStruct) /\ thStruct'[r] = thStruct[r] /\ Accounted(r)
      BY <1>3, <2>2 DEF ThStructs
    <3>2. Implicit(r) => Implicit(r)'
      BY <1>1, <3>1, PThreadsAssumption DEF Implicit, ThPhases, ThTypeOK
    <3>3. InCreation(r) => InCreation(r)'
      BY <1>1, <3>1 DEF InCreation, ThPhases, ThTypeOK
    <3>4. Claimed(r) => Claimed(r)'
      BY <1>1 DEF Claimed, ThPhases, ThTypeOK
    <3>5. Started(r) => Started(r)'
      BY <1>1, <3>1, <3>4 DEF Started, ThPhases, ThTypeOK
    <3> QED BY <3>1, <3>2, <3>3, <3>5 DEF Accounted
  <2> QED BY <2>1, <2>2
<1>9. ThSelves'
  <2>1. ASSUME NEW w \in PThreads \ {OsThread}, Running(w)'
        PROVE  thSelf'[w] \in 1..Len(thStruct') /\ thStruct'[thSelf'[w]].owner = w
    <3>1. /\ thSelf[w] \in 1..Len(thStruct) /\ thStruct[thSelf[w]].owner = w
          /\ thSelf'[w] = thSelf[w] /\ w # NoPThread
      BY <1>1, <2>1, PThreadsAssumption DEF ThSelves, Running, ThTypeOK
    <3> QED BY <1>4, <3>1
  <2>2. \/ thSelf'[OsThread] = 0 \/ pc'[OsThread] = "th_longjmp"
        \/ /\ thSelf'[OsThread] \in 1..Len(thStruct')
           /\ thStruct'[thSelf'[OsThread]].owner = OsThread
    BY <1>1, <1>3, PThreadsAssumption DEF ThTypeOK
  <2> QED BY <2>1, <2>2 DEF ThSelves
<1>10. ThClaims'
  <2>1. ASSUME NEW g, LiveHandle(g)
        PROVE  LiveHandle(g)' /\ thStruct'[g.p].state = thStruct[g.p].state
    <3>1. g.p \in 1..Len(thStruct) /\ thStruct[g.p].owner # NoPThread
      BY <2>1, PThreadsAssumption DEF LiveHandle
    <3>2. g.p \in 1..Len(thStruct') /\ thStruct'[g.p] = thStruct[g.p]
      BY <1>4, <3>1
    <3> QED BY <2>1, <3>2 DEF LiveHandle
  <2>2. \A g \in thHandles : LiveHandle(g)
    BY DEF ThClaims
  <2>3. ASSUME NEW w \in PThreads, Claims(w)'
        PROVE  /\ thArg'[w] = thArg[w] /\ Claims(w) /\ LiveHandle(thArg[w])
               /\ \A g \in thHandles : g.p # thArg[w].p
    BY <1>1, <2>3 DEF Claims, ThTypeOK, ThPhases, ThClaims
  <2>4. \A w \in PThreads : op'[w] = "cancel" =>
          thArg'[w] \in thHandles /\ thStruct[thArg'[w].p].state # 0
    BY <1>1 DEF ThTypeOK, ThPhases, ThClaims
  <2>5. \A w \in PThreads : pc'[w] = "th_destroy" \/ (pc'[w] = "th_detach" /\ op'[w] = "join") =>
          Claims(w)' /\ thStruct[thArg[w].p].state = 6
    BY <1>1 DEF ThTypeOK, ThPhases, ThClaims, Claims
  <2>6. \A g \in thHandles' : LiveHandle(g)'
    BY <1>1, <2>1, <2>2
  <2>7. \A w \in PThreads :
          Claims(w)' => LiveHandle(thArg[w])' /\ \A g \in thHandles' : g.p # thArg'[w].p
    BY <1>1, <2>1, <2>2, <2>3
  <2>8. \A v, w \in PThreads : Claims(v)' /\ Claims(w)' /\ thArg'[v].p = thArg'[w].p => v = w
    BY <1>1, <2>3 DEF ThClaims
  <2>9. \A w \in PThreads :
          op'[w] = "cancel" => thArg'[w] \in thHandles' /\ thStruct'[thArg'[w].p].state # 0
    BY <1>1, <2>1, <2>2, <2>4
  <2>10. \A w \in PThreads : pc'[w] = "th_destroy" \/ (pc'[w] = "th_detach" /\ op'[w] = "join")
           => thStruct'[thArg'[w].p].state = 6
    BY <2>1, <2>3, <2>5
  <2> QED BY <2>6, <2>7, <2>8, <2>9, <2>10 DEF ThClaims
<1>11. ThStatuses'
  BY <1>1 DEF ThStatuses, ThPhases, ThTypeOK
<1>12. ThRequests'
  <2> SUFFICES ASSUME NEW w \in thAsked
               PROVE  /\ w # OsThread /\ thOs'[w] \in {"running", "dying"}
                      /\ Running(w)' => w \in thCancelled /\ thStruct'[thSelf'[w]].state >= 3
    BY <1>1 DEF ThRequests
  <2>1. /\ w \in PThreads \ {OsThread} /\ thOs[w] \in {"running", "dying"}
        /\ Running(w) => w \in thCancelled /\ thStruct[thSelf[w]].state >= 3
    BY DEF ThRequests, ThTypeOK
  <2>2. Running(w)' => Running(w)
    BY <1>1 DEF Running
  <2>3. Running(w) => thSelf[w] \in 1..Len(thStruct) /\ thStruct[thSelf[w]].owner # NoPThread
    BY <2>1, PThreadsAssumption DEF ThSelves
  <2>4. thSelf'[w] = thSelf[w] /\ thOs' = thOs
    BY <1>1, <2>1 DEF ThTypeOK
  <2> QED BY <1>4, <2>1, <2>2, <2>3, <2>4
<1> QED BY <1>3, <1>5, <1>6, <1>7, <1>8, <1>9, <1>10, <1>11, <1>12

\* Joining oneself is refused.
LEMMA JoinSelfKept ==
  ASSUME ThGood, NEW t \in PThreads, NEW h \in thHandles, pthread_join(t, h), UNCHANGED <<thStruct,
         thReuse, thSelf>>, h.of = t
  PROVE  ThGood'
<1> USE DEF ThGood
<1>1. /\ pc' = pc /\ op' = op
      /\ UNCHANGED <<thArg, thHandles, thOs, thSelf, thCancelled, thEnd, thJoined, thAsked>>
      /\ thStruct' = thStruct /\ thReuse' = thReuse
  BY DEF pthread_join, Enter, thGhosts, ThTypeOK, ThPhases
<1>3. ThPool'
  BY <1>1 DEF ThPool
<1>5. ThTypeOK'
  BY <1>1 DEF ThTypeOK, ThSteps, ThOps, Ends
<1>6. ThPhases'
  BY <1>1 DEF ThPhases, ThTypeOK
<1>7. ThCreations'
  BY <1>1 DEF ThCreations, Creating
<1>8. ThStructs'
  <2> SUFFICES ASSUME NEW r \in 1..Len(thStruct) PROVE Accounted(r)'
    BY <1>1 DEF ThStructs
  <2>1. Accounted(r)
    BY DEF ThStructs
  <2>2. Implicit(r) => Implicit(r)'
    BY <1>1 DEF Implicit, ThPhases
  <2>3. InCreation(r) => InCreation(r)'
    BY <1>1 DEF InCreation
  <2>4. Claimed(r) => Claimed(r)'
    BY <1>1 DEF Claimed
  <2>5. Started(r) => Started(r)'
    BY <1>1, <2>4 DEF Started, ThPhases
  <2> QED BY <1>1, <2>1, <2>2, <2>3, <2>5 DEF Accounted
<1>9. ThSelves'
  BY <1>1 DEF ThSelves, Running
<1>10. ThClaims'
  BY <1>1 DEF ThClaims, Claims, LiveHandle
<1>11. ThStatuses'
  BY <1>1 DEF ThStatuses
<1>12. ThRequests'
  BY <1>1 DEF ThRequests, Running, ThSelves
<1> QED BY <1>3, <1>5, <1>6, <1>7, <1>8, <1>9, <1>10, <1>11, <1>12

\* pthread_join takes the handle, and nobody is cancelling by it.
LEMMA JoinKept ==
  ASSUME ThGood, NEW t \in PThreads, NEW h \in thHandles, pthread_join(t, h), UNCHANGED <<thStruct,
         thReuse, thSelf>>, h.of # t
  PROVE  ThGood'
<1> USE DEF ThGood
<1>1. /\ pc[t] = "idle" /\ thOs[t] = "running" /\ ~Cancelling(h) /\ LiveHandle(h) /\ h \in Handles
      /\ pc' = [pc EXCEPT ![t] = "th_wait"] /\ op' = [op EXCEPT ![t] = "join"]
      /\ thHandles' = thHandles \ {h} /\ thArg' = [thArg EXCEPT ![t] = h]
      /\ \A g \in thHandles : g # h => g.p # h.p
      /\ UNCHANGED <<thOs, thSelf, thCancelled, thEnd, thJoined, thAsked>>
      /\ thStruct' = thStruct /\ thReuse' = thReuse
  <2>1. LiveHandle(h) /\ h \in Handles
    BY DEF ThClaims, ThTypeOK
  <2>2. ASSUME NEW g \in thHandles, g.p = h.p PROVE g = h
    <3>1. LiveHandle(g) /\ g \in Handles
      BY DEF ThClaims, ThTypeOK
    <3>2. g.x = h.x /\ g.of = h.of
      BY <2>1, <2>2, <3>1 DEF LiveHandle
    <3> QED BY <2>1, <2>2, <3>1, <3>2 DEF Handles
  <2> QED BY <2>1, <2>2 DEF pthread_join, Enter, thGhosts, Running, ThTypeOK
<1>3. ThPool'
  BY <1>1 DEF ThPool
<1>5. ThTypeOK'
  BY <1>1 DEF ThTypeOK, ThSteps, ThOps, Ends
<1>6. ThPhases'
  BY <1>1 DEF ThPhases, ThTypeOK
<1>7. ThCreations'
  BY <1>1 DEF ThCreations, Creating, ThPhases, ThTypeOK
<1>8. ThStructs'
  <2> SUFFICES ASSUME NEW r \in 1..Len(thStruct) PROVE Accounted(r)'
    BY <1>1 DEF ThStructs
  <2>1. Accounted(r)
    BY DEF ThStructs
  <2>2. Implicit(r) => Implicit(r)'
    BY <1>1 DEF Implicit, ThPhases, ThTypeOK
  <2>3. InCreation(r) => InCreation(r)'
    BY <1>1 DEF InCreation, ThPhases, ThTypeOK
  <2>4. Claimed(r) => Claimed(r)'
    BY <1>1 DEF Claimed, ThPhases, ThTypeOK
  <2>5. Started(r) => Started(r)'
    BY <1>1, <2>4 DEF Started, ThPhases
  <2> QED BY <1>1, <2>1, <2>2, <2>3, <2>5 DEF Accounted
<1>9. ThSelves'
  BY <1>1 DEF ThSelves, Running, ThPhases, ThTypeOK
<1>10. ThClaims'
  BY <1>1, SMTT(30) DEF ThClaims, Claims, LiveHandle, ThPhases, ThTypeOK, Cancelling
<1>11. ThStatuses'
  BY <1>1 DEF ThStatuses, ThPhases, ThTypeOK
<1>12. ThRequests'
  BY <1>1 DEF ThRequests, Running, ThSelves, ThPhases, ThTypeOK
<1> QED BY <1>3, <1>5, <1>6, <1>7, <1>8, <1>9, <1>10, <1>11, <1>12

\* pthread_cancel of a thread that has started: ThreadRaces must not have early_cancel.
LEMMA CancelKept ==
  ASSUME ThGood, NEW t \in PThreads, NEW h \in thHandles, ThreadRaces = {}, pthread_cancel(t, h),
         UNCHANGED <<thStruct, thReuse, thSelf>>
  PROVE  ThGood'
<1> USE DEF ThGood
<1>1. /\ pc[t] = "idle" /\ thOs[t] = "running" /\ LiveHandle(h) /\ h \in thHandles /\ h \in Handles
      /\ thStruct[h.p].state # 0
      /\ pc' = [pc EXCEPT ![t] = "th_cancel"] /\ op' = [op EXCEPT ![t] = "cancel"]
      /\ thArg' = [thArg EXCEPT ![t] = h]
      /\ UNCHANGED <<thOs, thHandles, thSelf, thCancelled, thEnd, thJoined, thAsked>>
      /\ thStruct' = thStruct /\ thReuse' = thReuse
  <2>1. LiveHandle(h) /\ h \in Handles
    BY DEF ThClaims, ThTypeOK
  <2> QED BY <2>1 DEF pthread_cancel, PThreadStateInitial, Enter, thGhosts, Running, ThTypeOK
<1>3. ThPool'
  BY <1>1 DEF ThPool
<1>5. ThTypeOK'
  BY <1>1 DEF ThTypeOK, ThSteps, ThOps, Ends
<1>6. ThPhases'
  BY <1>1 DEF ThPhases, ThTypeOK
<1>7. ThCreations'
  BY <1>1 DEF ThCreations, Creating, ThPhases, ThTypeOK
<1>8. ThStructs'
  <2> SUFFICES ASSUME NEW r \in 1..Len(thStruct) PROVE Accounted(r)'
    BY <1>1 DEF ThStructs
  <2>1. Accounted(r)
    BY DEF ThStructs
  <2>2. Implicit(r) => Implicit(r)'
    BY <1>1 DEF Implicit, ThPhases, ThTypeOK
  <2>3. InCreation(r) => InCreation(r)'
    BY <1>1 DEF InCreation, ThPhases, ThTypeOK
  <2>4. Claimed(r) => Claimed(r)'
    BY <1>1 DEF Claimed, ThPhases, ThTypeOK
  <2>5. Started(r) => Started(r)'
    BY <1>1, <2>4 DEF Started, ThPhases
  <2> QED BY <1>1, <2>1, <2>2, <2>3, <2>5 DEF Accounted
<1>9. ThSelves'
  BY <1>1 DEF ThSelves, Running, ThPhases, ThTypeOK
<1>10. ThClaims'
  BY <1>1, SMTT(30) DEF ThClaims, Claims, LiveHandle, ThPhases, ThTypeOK
<1>11. ThStatuses'
  BY <1>1 DEF ThStatuses, ThPhases, ThTypeOK
<1>12. ThRequests'
  BY <1>1 DEF ThRequests, Running, ThSelves, ThPhases, ThTypeOK
<1> QED BY <1>3, <1>5, <1>6, <1>7, <1>8, <1>9, <1>10, <1>11, <1>12

\* pte_threadStart stores Running over Initial, which no cancellation has changed.
LEMMA StartKept ==
  ASSUME ThGood, NEW t \in PThreads, pte_threadStart(t)
  PROVE  ThGood'
<1> USE DEF ThGood
<1>a. PICK s \in DOMAIN thStruct :
        /\ thStruct[s].os = t /\ thSelf' = [thSelf EXCEPT ![t] = s]
        /\ thStruct' = [thStruct EXCEPT ![s].state = PThreadStateRunning]
  BY Zenon DEF pte_threadStart
<1>b. s \in 1..Len(thStruct)
  BY DEF ThTypeOK
<1> DEFINE v == [thStruct[s] EXCEPT !.state = PThreadStateRunning]
<1>1. /\ s \in 1..Len(thStruct)
      /\ thStruct[s] \in Structs
      /\ thStruct[s].owner = t /\ thStruct[s].state = 0 /\ thStruct[s].os = t
      /\ pc[t] = "idle" /\ thOs[t] = "started" /\ t # OsThread
      /\ pc' = pc /\ op' = op
      /\ thSelf' = [thSelf EXCEPT ![t] = s] /\ s \in Nat
      /\ thOs' = [thOs EXCEPT ![t] = "running"]
      /\ UNCHANGED <<thCancelled, thHandles, thArg, thEnd, thJoined, thAsked>>
      /\ thStruct' = [thStruct EXCEPT ![s] = v]
      /\ thReuse' = thReuse
  <2>1. pc[t] = "idle" /\ thOs[t] = "started" /\ t # OsThread
    BY DEF pte_threadStart, ThPhases
  <2>2. s \in 1..Len(thStruct) /\ thStruct[s] \in Structs
    BY <1>b, ElementOf DEF ThTypeOK
  <2>3. Started(s)
    BY <2>1, <2>2, <1>a, PThreadsAssumption DEF ThStructs, Accounted, Implicit, InCreation
  <2>4. thStruct[s].owner = t /\ thStruct[s].state = 0
    BY <1>a, <2>1, <2>3 DEF Started
  <2> QED BY <1>a, <2>1, <2>2, <2>4 DEF pte_threadStart, commonVars, thGhosts, ThTypeOK
<1>2. /\ v \in Structs
      /\ v.owner = thStruct[s].owner
      /\ v.x = thStruct[s].x
      /\ v.os = thStruct[s].os
      /\ v.detached = thStruct[s].detached
      /\ v.exitStatus = thStruct[s].exitStatus
      /\ v.state = 1
  BY <1>1 DEF Structs, PThreadStateRunning
<1> HIDE DEF v
<1>3. /\ thStruct' \in Seq(Structs) /\ thReuse' \in Seq(1..Len(thStruct'))
      /\ Len(thStruct') = Len(thStruct) /\ thStruct'[s] = v /\ ThPool'
      /\ \A r \in 1..Len(thStruct) : r # s => thStruct'[r] = thStruct[r]
  <2>1. /\ s \in 1..Len(thStruct) /\ v \in Structs /\ v.owner = thStruct[s].owner
        /\ thStruct' = [thStruct EXCEPT ![s] = v] /\ thReuse' = thReuse
    BY <1>1, <1>2
  <2> QED BY <2>1, Update
<1>4. /\ \A r \in 1..Len(thStruct) :
           /\ thStruct'[r].owner = thStruct[r].owner
           /\ thStruct'[r].x = thStruct[r].x
           /\ thStruct'[r].os = thStruct[r].os
           /\ thStruct'[r].detached = thStruct[r].detached
           /\ thStruct'[r].exitStatus = thStruct[r].exitStatus
           /\ r # s => thStruct'[r].state = thStruct[r].state
      /\ thStruct'[s].state = 1
      /\ Len(thStruct') = Len(thStruct)
  BY <1>2, <1>3
<1>5. ThTypeOK'
  BY <1>1, <1>3 DEF ThTypeOK, ThSteps, ThOps, Ends
<1>6. ThPhases'
  BY <1>1, <1>4 DEF ThPhases, ThTypeOK
<1>7. ThCreations'
  BY <1>1, <1>4 DEF ThCreations, Creating, ThPhases, ThTypeOK
<1>8. ThStructs'
  <2> SUFFICES ASSUME NEW r \in 1..Len(thStruct) PROVE Accounted(r)'
    BY <1>1, <1>4 DEF ThStructs
  <2>1. Accounted(r)
    BY DEF ThStructs
  <2>2. Implicit(r) => Implicit(r)'
    BY <1>1, <1>4, PThreadsAssumption DEF Implicit, ThPhases, ThTypeOK
  <2>3. InCreation(r) => InCreation(r)'
    BY <1>1, <1>4 DEF InCreation
  <2>4. Claimed(r) => Claimed(r)'
    BY <1>1, <1>4 DEF Claimed
  <2>6. r # s => thStruct[r].owner # t
    BY <1>1 DEF ThPool
  <2>5. Started(r) => Started(r)'
    BY <1>1, <1>4, <2>4, <2>6 DEF Started, ThPhases, ThTypeOK
  <2> QED BY <1>1, <1>4, <2>1, <2>2, <2>3, <2>5 DEF Accounted
<1>9. ThSelves'
  BY <1>1, <1>4 DEF ThSelves, Running, ThPhases, ThTypeOK
<1>10. ThClaims'
  BY <1>1, <1>4 DEF ThClaims, Claims, LiveHandle, ThPhases, ThTypeOK
<1>11. ThStatuses'
  BY <1>1, <1>4 DEF ThStatuses, ThPhases, ThTypeOK
<1>12. ThRequests'
  BY <1>1, <1>4 DEF ThRequests, Running, ThSelves, ThPhases, ThTypeOK
<1> QED BY <1>3, <1>5, <1>6, <1>7, <1>8, <1>9, <1>10, <1>11, <1>12

\* Every step of the library's threads keeps the invariant.
LEMMA ThreadStepKept ==
  ASSUME ThreadRaces = {}, ThGood, ThreadNext
  PROVE  ThGood'
<1>1. PICK t \in PThreads :
        \/ \E u \in PThreads, detached \in BOOLEAN : pthread_create(t, u, detached)
        \/ pte_osThreadCreate(t) \/ CreateFails(t) \/ pte_threadStart(t)
        \/ pthread_exit(t) \/ pthread_testcancel(t) \/ pte_throw(t)
        \/ SetLast(t) \/ DetachAndExit(t)
        \/ \E h \in thHandles : pthread_join(t, h) \/ pthread_detach(t, h) \/ pthread_cancel(t, h)
        \/ pte_osThreadWaitForEnd(t) \/ WaitInterrupted(t) \/ Detach(t) \/ DetachDestroys(t)
        \/ RequestCancel(t) \/ pthread_setcancelstate(t)
  BY Zenon DEF ThreadNext
<1>2. CASE \E u \in PThreads, detached \in BOOLEAN : pthread_create(t, u, detached)
  <2>1. PICK u \in PThreads, d \in BOOLEAN : pthread_create(t, u, d)
    BY <1>2
  <2>2. PICK s \in 1..MaxStructs :
          /\ pte_new(s, u, d)
          /\ thArg' = [thArg EXCEPT ![t] = [p |-> s, x |-> thStruct'[s].x, of |-> u]]
    BY <2>1, Zenon DEF pthread_create
  <2> QED BY <2>1, <2>2, CreateKept
<1>3. CASE \/ pte_osThreadCreate(t) \/ CreateFails(t) \/ pte_threadStart(t)
           \/ pthread_exit(t) \/ pthread_testcancel(t) \/ pte_throw(t) \/ SetLast(t)
  BY <1>3, OsThreadCreateKept, CreateFailsKept, StartKept, ExitKept, TestCancelKept, ThrowKept,
     SetLastKept
<1>4. CASE DetachAndExit(t)
  BY <1>4, ExitDetachedKept, ExitJoinableKept
<1>5. ASSUME NEW h \in thHandles, pthread_join(t, h) \/ pthread_cancel(t, h) PROVE ThGood'
  <2>1. pc[t] = "idle" /\ Running(t) /\ pthread_self(t)
    BY <1>5 DEF pthread_join, pthread_cancel, Enter
  <2>2. CASE UNCHANGED <<thStruct, thReuse, thSelf>>
    BY <1>5, <2>2, JoinKept, JoinSelfKept, CancelKept
  <2>3. CASE /\ t = OsThread /\ thSelf[t] = 0
             /\ \A r \in 1..Len(thStruct) : thStruct[r].owner # OsThread
             /\ \E s \in 1..MaxStructs :
                  pte_new(s, OsThread, TRUE) /\ thSelf' = [thSelf EXCEPT ![OsThread] = s]
    <3>1. PICK s \in 1..MaxStructs :
            pte_new(s, OsThread, TRUE) /\ thSelf' = [thSelf EXCEPT ![OsThread] = s]
      BY <2>3
    <3> QED BY <1>5, <2>3, <3>1, JoinNewKept, CancelNewKept
  <2> QED BY <2>1, <2>2, <2>3, SelfOf
<1>6. CASE \E h \in thHandles : pthread_join(t, h) \/ pthread_detach(t, h) \/ pthread_cancel(t, h)
  BY <1>5, <1>6, DetachKept
<1>7. CASE pte_osThreadWaitForEnd(t) \/ WaitInterrupted(t) \/ Detach(t) \/ DetachDestroys(t)
  BY <1>7, WaitForEndKept, WaitInterruptedKept, DetachWaitsKept, DetachMarksKept, DetachDestroysKept
<1>8. CASE RequestCancel(t) \/ pthread_setcancelstate(t)
  BY <1>8, CancelRefusedKept, CancelRequestedKept, SetCancelStateKept
<1> QED BY <1>1, <1>2, <1>3, <1>4, <1>6, <1>7, <1>8

\* A behaviour stays about the object it began with.
LEMMA KeepsComponent ==
  ASSUME [Next]_vars
  PROVE  component' = component
<1>1. CASE ThreadNext
  <2>1. PICK t \in PThreads :
          \/ \E u \in PThreads, detached \in BOOLEAN : pthread_create(t, u, detached)
          \/ pte_osThreadCreate(t) \/ CreateFails(t) \/ pte_threadStart(t)
          \/ pthread_exit(t) \/ pthread_testcancel(t) \/ pte_throw(t)
          \/ SetLast(t) \/ DetachAndExit(t)
          \/ \E h \in thHandles : pthread_join(t, h) \/ pthread_detach(t, h) \/ pthread_cancel(t, h)
          \/ pte_osThreadWaitForEnd(t) \/ WaitInterrupted(t) \/ Detach(t) \/ DetachDestroys(t)
          \/ RequestCancel(t) \/ pthread_setcancelstate(t)
    BY <1>1, Zenon DEF ThreadNext
  <2>2. ASSUME NEW u \in PThreads, NEW detached \in BOOLEAN, pthread_create(t, u, detached)
        PROVE  component' = component
    BY <2>2 DEF pthread_create, EnterFree, Enter, Goto, commonVars
  <2>3. CASE pte_osThreadCreate(t) \/ CreateFails(t) \/ pte_threadStart(t)
    BY <2>3 DEF pte_osThreadCreate, CreateFails, pte_threadStart, Return, Goto, commonVars
  <2>4. CASE pthread_exit(t) \/ pthread_testcancel(t) \/ pte_throw(t) \/ SetLast(t) \/ DetachAndExit(t)
    BY <2>4 DEF pthread_exit, pthread_testcancel, pte_throw, SetLast, DetachAndExit, EnterFree,
       Enter, Return, Goto, commonVars
  <2>5. ASSUME NEW h \in thHandles,
               pthread_join(t, h) \/ pthread_detach(t, h) \/ pthread_cancel(t, h)
        PROVE  component' = component
    BY <2>5 DEF pthread_join, pthread_detach, pthread_cancel, EnterFree, Enter, Goto, commonVars
  <2>6. CASE pte_osThreadWaitForEnd(t) \/ WaitInterrupted(t) \/ Detach(t) \/ DetachDestroys(t)
    BY <2>6 DEF pte_osThreadWaitForEnd, WaitInterrupted, Detach, DetachDestroys, Return, Goto,
       commonVars
  <2>7. CASE RequestCancel(t) \/ pthread_setcancelstate(t)
    BY <2>7 DEF RequestCancel, pthread_setcancelstate, EnterFree, Enter, Return, Goto, commonVars
  <2> QED BY <2>1, <2>2, <2>3, <2>4, <2>5, <2>6, <2>7
<1>2. ASSUME NEW t \in PThreads, KeysStep(t) PROVE component' = component
  BY <1>2 DEF KeysStep, Goto, Return, commonVars, LockKey, pte_tkAssocCreate, SetValue, LockDelete,
     DeleteAssoc, FreeKey, NextRound, EndOfChain, NextAssoc, Destructor
<1>3. CASE KeysNext
  BY <1>2, <1>3 DEF KeysNext, Enter, EnterFree, CallUserDestroyRoutines, pthread_key_create,
     pthread_setspecific, pthread_getspecific, pthread_key_delete
<1>4. CASE UNCHANGED vars
  BY <1>4 DEF vars, commonVars
<1> QED BY <1>1, <1>3, <1>4 DEF Next

\* The invariant is inductive.
LEMMA ThreadInvKept ==
  ASSUME ThreadRaces = {}, ThreadInv, [Next]_vars
  PROVE  ThreadInv'
<1> SUFFICES ASSUME component = "thread" PROVE ThGood'
  BY KeepsComponent DEF ThreadInv
<1>1. ThGood
  BY DEF ThreadInv
<1>2. CASE ThreadNext
  BY <1>1, <1>2, ThreadStepKept
<1>3. CASE UNCHANGED vars
  BY <1>1, <1>3 DEF vars, commonVars, thVars, thPool, thGhosts, ThGood, ThTypeOK, ThPool, ThPhases,
     ThCreations, Creating, ThStructs, Accounted, Implicit, InCreation, Started, Claimed, ThSelves,
     Running, ThClaims, Claims, LiveHandle, ThStatuses, ThRequests
<1> QED BY <1>2, <1>3 DEF Next

\* It holds initially.
LEMMA ThreadInvInit == Init => ThreadInv
<1> SUFFICES ASSUME Init PROVE ThGood
  BY DEF ThreadInv
<1>1. /\ pc = [t \in PThreads |-> "idle"] /\ op = [t \in PThreads |-> "none"]
      /\ thStruct = << >> /\ thReuse = << >> /\ thHandles = {} /\ thCancelled = {} /\ thAsked = {}
      /\ thSelf = [t \in PThreads |-> 0]
      /\ thOs = [t \in PThreads |-> IF t = OsThread THEN "running" ELSE "none"]
      /\ thArg = [t \in PThreads |-> NoHandle]
      /\ thEnd = [t \in PThreads |-> "none"] /\ thJoined = [t \in PThreads |-> "none"]
  BY DEF Init, CommonInit, ThVarsInit
<1>2. NoHandle \in Handles
  BY DEF NoHandle, Handles
<1>3. ThTypeOK
  BY <1>1, <1>2 DEF ThTypeOK, ThSteps, ThOps, Ends
<1>4. ThPool /\ ThStructs
  BY <1>1 DEF ThPool, ThStructs, Distinct
<1>5. ThPhases /\ ThCreations
  BY <1>1 DEF ThPhases, ThCreations
<1>6. ThSelves /\ ThClaims /\ ThStatuses /\ ThRequests
  BY <1>1 DEF ThSelves, Running, ThClaims, Claims, ThStatuses, ThRequests
<1> QED BY <1>3, <1>4, <1>5, <1>6 DEF ThGood

\* It always holds.
LEMMA ThreadInvAlways == ASSUME ThreadRaces = {} PROVE Spec => []ThreadInv
<1>1. ThreadInv /\ [Next]_vars => ThreadInv'
  BY ThreadInvKept
<1> QED BY <1>1, ThreadInvInit, PTL DEF Spec

\* StructHasOneThread (pte_new.c, pte_threadReuse.c, pte_threadDestroy.c): a structure
\* is its thread's alone, is queued once, and is never left to nobody, for any number of
\* threads and structures, when a thread is off its structure before another destroys it.
THEOREM StructAlwaysHasOneThread == ASSUME ThreadRaces = {} PROVE Spec => []StructHasOneThread
<1>1. ASSUME ThreadInv PROVE StructHasOneThread
  <2> SUFFICES ASSUME component = "thread"
               PROVE  /\ \A t \in PThreads : Running(t) /\ thSelf[t] # 0 /\ pc[t] # "th_longjmp"
                           => thStruct[thSelf[t]].owner = t
                      /\ IsInjective(thReuse)
                      /\ \A i \in DOMAIN thReuse : thStruct[thReuse[i]].owner = NoPThread
                      /\ \A s \in DOMAIN thStruct :
                           \/ Contains(thReuse, s) \/ Claimed(s)
                           \/ thOs[thStruct[s].owner] \in {"started", "running"}
    BY DEF StructHasOneThread
  <2>1. ThGood
    BY <1>1 DEF ThreadInv
  <2>2. \A t \in PThreads : Running(t) /\ thSelf[t] # 0 /\ pc[t] # "th_longjmp"
          => thStruct[thSelf[t]].owner = t
    BY <2>1 DEF ThGood, ThSelves
  <2>3. /\ thReuse \in Seq(1..Len(thStruct)) /\ DOMAIN thReuse = 1..Len(thReuse)
        /\ DOMAIN thStruct = 1..Len(thStruct)
    BY <2>1 DEF ThGood, ThTypeOK
  <2>4. IsInjective(thReuse)
    BY <2>1, <2>3 DEF ThGood, ThPool, Distinct, IsInjective
  <2>5. ASSUME NEW i \in DOMAIN thReuse PROVE thStruct[thReuse[i]].owner = NoPThread
    <3>1. thReuse[i] \in 1..Len(thStruct) /\ Contains(thReuse, thReuse[i])
      BY <2>3 DEF Contains
    <3> QED BY <2>1, <3>1 DEF ThGood, ThPool
  <2>6. ASSUME NEW s \in 1..Len(thStruct), ~Contains(thReuse, s), ~Claimed(s)
        PROVE  thOs[thStruct[s].owner] \in {"started", "running"}
    <3>1. Implicit(s) \/ InCreation(s) \/ Started(s)
      BY <2>1, <2>6 DEF ThGood, ThPool, ThStructs, Accounted
    <3>2. ~InCreation(s)
      BY <2>6 DEF InCreation, Claimed
    <3>3. CASE Implicit(s)
      BY <2>1, <3>3, PThreadsAssumption DEF Implicit, ThGood, ThPhases, ThTypeOK
    <3>4. CASE Started(s)
      BY <2>1, <2>6, <3>4 DEF Started, ThGood, ThTypeOK
    <3> QED BY <3>1, <3>2, <3>3, <3>4
  <2> QED BY <2>2, <2>3, <2>4, <2>5, <2>6
<1> QED BY <1>1, ThreadInvAlways, PTL

\* JoinGetsStatus (pthread_join.c, pte_threadReuse.c): every join returns the status of
\* the thread its handle named, however often structures are reused.
THEOREM JoinAlwaysGetsStatus == ASSUME ThreadRaces = {} PROVE Spec => []JoinGetsStatus
<1>1. ThreadInv => JoinGetsStatus
  BY DEF ThreadInv, ThGood, JoinGetsStatus, ThStatuses, ThClaims, LiveHandle, Valid
<1> QED BY <1>1, ThreadInvAlways, PTL

\* CancelIsKept (pthread_cancel.c): a request pthread_cancel reported as made stays with
\* the thread, when threads are cancelled only after they have started.
THEOREM CancelAlwaysKept == ASSUME ThreadRaces = {} PROVE Spec => []CancelIsKept
<1>1. ThreadInv => CancelIsKept
  BY DEF ThreadInv, ThGood, CancelIsKept, ThRequests, PThreadStateCancelPending
<1> QED BY <1>1, ThreadInvAlways, PTL

-----------------------------------------------------------------------------
(* Thread-specific data (PteKeys) *)

\* What a key's value may be.
KValues == {NULL} \cup (PThreads \X PKeys)

\* The next step of a call.
KySetting == {"ky_lock", "ky_assoc", "ky_set"}
KyDeleting == {"ky_lock_delete", "ky_assocs", "ky_free"}
KyExiting == {"ky_round", "ky_next", "ky_destructor", "exited"}

KyTypeOK ==
  /\ pc \in [PThreads -> {"idle"} \cup KySetting \cup KyDeleting \cup KyExiting]
  /\ op \in [PThreads -> {"none", "set", "delete", "exit"}]
  /\ kyNum \in [PKeys -> Nat] /\ kyDtor \subseteq PKeys /\ kyGone \subseteq PKeys
  /\ DOMAIN kyTree = PThreads /\ kyVal \in [PThreads -> [Numbers -> KValues]]
  /\ kyKeys \in [PThreads -> Seq(PKeys)] /\ kyNext \in [PThreads -> Seq(PKeys)]
  /\ kyRound \in [PThreads -> [iterations : Nat, remaining : Nat]]
  /\ kyArg \in [PThreads -> [key : PKeys \cup {NoPKey}, value : KValues]]
  /\ kyLast \in [PThreads -> [PKeys -> KValues]]

\* Which call a thread is in.
KyPhases ==
  \A t \in PThreads :
    /\ op[t] = "set" <=> pc[t] \in KySetting
    /\ op[t] = "delete" <=> pc[t] \in KyDeleting
    /\ op[t] = "exit" <=> pc[t] \in KyExiting
    /\ op[t] = "exit" => t # OsThread

\* The creator's tree holds the numbers of all keys so far; those of the other pthreads
\* hold no others, and no two keys have the same number.
Made == {k \in PKeys : Live(k)} \cup kyGone
Width(c) == Len(kyTree[c])
KyNumbers(c) ==
  /\ Width(c) <= Cardinality(Made) + 2
  /\ kyTree[c] \in Seq(1..Width(c)) /\ \A n \in 1..Width(c) : Contains(kyTree[c], n)
  /\ \A t \in PThreads \ {OsThread} : kyTree[t] \in Seq(1..Width(c))
  /\ \A k \in PKeys : Live(k) => kyNum[k] \in 1..Width(c)
  /\ \A j, k \in PKeys : Live(j) /\ Live(k) /\ kyNum[j] = kyNum[k] => j = k
  /\ \A k \in kyGone : ~Live(k)

\* What is stored is what was set last; a key that was not made has no value.
KyReads ==
  /\ \A t \in PThreads \ {OsThread} : ReadsOwn(t)
  /\ \A t \in PThreads, k \in PKeys \ Made : kyLast[t][k] = NULL

\* A key that is being set or deleted exists; the two exclude one another; the
\* association of a value that needs one is there before it is stored, and none is left
\* when a key is freed.
KyCalls ==
  /\ \A t \in PThreads : op[t] \in {"set", "delete"} => kyArg[t].key \in PKeys /\ Live(kyArg[t].key)
  /\ \A t, u \in PThreads :
       op[t] = "delete" /\ op[u] \in {"set", "delete"} /\ kyArg[t].key = kyArg[u].key => t = u
  /\ \A t \in PThreads : pc[t] \in {"ky_lock", "ky_assoc"} => kyArg[t].key \in kyDtor
  /\ \A t \in PThreads :
       pc[t] = "ky_set" /\ kyArg[t].value # NULL /\ kyArg[t].key \in kyDtor
         => Contains(kyKeys[t], kyArg[t].key)
  /\ \A t, u \in PThreads : pc[t] = "ky_free" => ~Contains(kyKeys[u], kyArg[t].key)

\* A chain holds each association once, of keys that exist; the cursor's rest is part of it.
KyChains ==
  \A t \in PThreads :
    /\ Distinct(kyKeys[t]) /\ Distinct(kyNext[t])
    /\ \A k \in PKeys : Contains(kyNext[t], k) => Contains(kyKeys[t], k)
    /\ \A k \in PKeys : Contains(kyKeys[t], k) => Live(k) /\ k \in kyDtor

\* A value that needs a destructor has its association; a round in which no destructor
\* has run has removed every association it has passed.
KyEnds ==
  /\ \A t \in PThreads, k \in kyDtor :
       Live(k) /\ ~Deleting(k) /\ kyLast[t][k] # NULL => Contains(kyKeys[t], k)
  /\ \A t \in PThreads, k \in PKeys :
       pc[t] = "ky_next" /\ kyRound[t].remaining = 0 /\ Contains(kyKeys[t], k) => Contains(kyNext[t], k)
  /\ \A t \in PThreads : pc[t] = "ky_destructor" => kyRound[t].remaining > 0
  /\ \A t \in PThreads : pc[t] = "exited" => kyKeys[t] = << >>

\* The inductive invariant, where c creates the keys.
KyGood(c) ==
  KyTypeOK /\ KyPhases /\ KyNumbers(c) /\ KyReads /\ KyCalls /\ KyChains /\ KyEnds
KeysInv(c) == component = "keys" => KyGood(c)

\* An association that is unlinked from a chain.
LEMMA Unlink ==
  ASSUME NEW S, NEW q \in Seq(S), Distinct(q), NEW e
  PROVE  /\ RemoveFirst(q, e) \in Seq(S) /\ Distinct(RemoveFirst(q, e))
         /\ \A r : Contains(RemoveFirst(q, e), r) <=> Contains(q, r) /\ r # e
<1>1. CASE ~\E i \in 1..Len(q) : q[i] = e
  BY <1>1 DEF RemoveFirst, Contains
<1>2. CASE \E i \in 1..Len(q) : q[i] = e
  <2>1. PICK i \in 1..Len(q) : q[i] = e
    BY <1>2
  <2>2. {j \in 1..Len(q) : q[j] = e} = {i}
    BY <2>1 DEF Distinct
  <2>3. SelectInSeq(q, LAMBDA v : v = e) = i
    <3>1. i \in {i} /\ \A x \in {i} : i <= x
      OBVIOUS
    <3>2. Min({i}) = i
      BY <3>1 DEF Min
    <3> QED BY <2>2, <3>2 DEF SelectInSeq
  <2> DEFINE n == SubSeq(q, 1, i - 1) \o SubSeq(q, i + 1, Len(q))
  <2>4. RemoveFirst(q, e) = n
    BY <1>2, <2>3 DEF RemoveFirst, RemoveAt
  <2>5. Len(q) \in Nat /\ i \in 1..Len(q)
    OBVIOUS
  <2>6. /\ n \in Seq(S) /\ Len(n) = Len(q) - 1
        /\ \A j \in 1..(i - 1) : n[j] = q[j]
        /\ \A j \in i..(Len(q) - 1) : n[j] = q[j + 1]
    <3>1. /\ SubSeq(q, 1, i - 1) \in Seq(S) /\ Len(SubSeq(q, 1, i - 1)) = i - 1
          /\ \A j \in 1..(i - 1) : SubSeq(q, 1, i - 1)[j] = q[j]
      BY <2>5
    <3>2. /\ SubSeq(q, i + 1, Len(q)) \in Seq(S) /\ Len(SubSeq(q, i + 1, Len(q))) = Len(q) - i
          /\ \A j \in 1..(Len(q) - i) : SubSeq(q, i + 1, Len(q))[j] = q[i + j]
      BY <2>5
    <3>3. PICK a, b : a = SubSeq(q, 1, i - 1) /\ b = SubSeq(q, i + 1, Len(q))
      OBVIOUS
    <3>4. /\ a \in Seq(S) /\ Len(a) = i - 1 /\ \A j \in 1..(i - 1) : a[j] = q[j]
          /\ b \in Seq(S) /\ Len(b) = Len(q) - i /\ \A j \in 1..(Len(q) - i) : b[j] = q[i + j]
      BY <3>1, <3>2, <3>3
    <3>5. a \o b \in Seq(S) /\ Len(a \o b) = Len(q) - 1
      <4>1. a \in Seq(S) /\ b \in Seq(S)
        BY <3>4
      <4>2. a \o b \in Seq(S) /\ Len(a \o b) = Len(a) + Len(b)
        BY <4>1
      <4> QED BY <2>5, <3>4, <4>2
    <3>6. ASSUME NEW j \in 1..(i - 1) PROVE (a \o b)[j] = q[j]
      <4>1. j \in 1..Len(a)
        BY <3>4
      <4>2. (a \o b)[j] = a[j]
        BY <3>4, <4>1
      <4> QED BY <3>4, <4>2
    <3>7. ASSUME NEW j \in i..(Len(q) - 1) PROVE (a \o b)[j] = q[j + 1]
      <4>1. j - Len(a) \in 1..Len(b) /\ j - Len(a) = j - i + 1 /\ j \in 1..(Len(a) + Len(b)) /\ j > Len(a)
        BY <2>5, <3>4
      <4>2. (a \o b)[j] = b[j - Len(a)]
        BY <3>4, <4>1
      <4> QED BY <2>5, <3>4, <4>1, <4>2
    <3> QED BY <3>3, <3>5, <3>6, <3>7
  <2> HIDE DEF n
  <2>7. Distinct(n)
    <3> SUFFICES ASSUME NEW j \in 1..Len(n), NEW k \in 1..Len(n), n[j] = n[k] PROVE j = k
      BY DEF Distinct
    <3> DEFINE At(x) == IF x < i THEN x ELSE x + 1
    <3>1. \A x \in 1..Len(n) : At(x) \in 1..Len(q) /\ n[x] = q[At(x)]
      BY <2>5, <2>6
    <3>2. At(j) = At(k)
      BY <3>1 DEF Distinct
    <3> QED BY <2>5, <2>6, <3>2
  <2>8. ASSUME NEW r PROVE Contains(n, r) <=> Contains(q, r) /\ r # e
    <3>1. ASSUME NEW j \in 1..Len(n), n[j] = r PROVE Contains(q, r) /\ r # e
      <4>1. PICK k \in 1..Len(q) : q[k] = r /\ k # i
        <5>1. CASE j < i
          <6>1. j \in 1..(i - 1) /\ j \in 1..Len(q) /\ j # i
            BY <2>5, <2>6, <5>1
          <6> QED BY <2>6, <3>1, <6>1
        <5>2. CASE ~(j < i)
          <6>1. j \in i..(Len(q) - 1) /\ j + 1 \in 1..Len(q) /\ j + 1 # i
            BY <2>5, <2>6, <5>2
          <6> QED BY <2>6, <3>1, <6>1
        <5> QED BY <5>1, <5>2
      <4> QED BY <2>1, <4>1 DEF Contains, Distinct
    <3>2. ASSUME NEW k \in 1..Len(q), q[k] = r, r # e PROVE Contains(n, r)
      <4>1. k # i
        BY <2>1, <3>2
      <4>2. CASE k < i
        <5>1. k \in 1..(i - 1) /\ k \in 1..Len(n)
          BY <2>5, <2>6, <4>2
        <5> QED BY <2>6, <3>2, <5>1 DEF Contains
      <4>3. CASE ~(k < i)
        <5>1. k - 1 \in i..(Len(q) - 1) /\ k - 1 \in 1..Len(n) /\ (k - 1) + 1 = k
          BY <2>5, <2>6, <4>1, <4>3
        <5>2. n[k - 1] = r
          BY <2>6, <3>2, <5>1
        <5> QED BY <5>1, <5>2 DEF Contains
      <4> QED BY <4>2, <4>3
    <3> QED BY <3>1, <3>2 DEF Contains
  <2> QED BY <2>4, <2>6, <2>7, <2>8
<1> QED BY <1>1, <1>2

\* Appending adds one element.
LEMMA Appended ==
  ASSUME NEW S, NEW q \in Seq(S), NEW s \in S
  PROVE  \A r : Contains(Append(q, s), r) <=> Contains(q, r) \/ r = s
<1> DEFINE n == Append(q, s)
<1>1. /\ Len(n) = Len(q) + 1 /\ n[Len(q) + 1] = s /\ Len(q) \in Nat
      /\ \A j \in 1..Len(q) : n[j] = q[j]
  BY AppendOne
<1> HIDE DEF n
<1> SUFFICES ASSUME NEW r PROVE Contains(n, r) <=> Contains(q, r) \/ r = s
  BY DEF n
<1>2. Contains(q, r) => Contains(n, r)
  BY <1>1 DEF Contains
<1>3. Contains(n, s)
  BY <1>1 DEF Contains
<1>4. ASSUME Contains(n, r), r # s PROVE Contains(q, r)
  <2>1. PICK i \in 1..Len(n) : n[i] = r
    BY <1>4 DEF Contains
  <2>2. i \in 1..Len(q)
    BY <1>1, <1>4, <2>1
  <2> QED BY <1>1, <2>1, <2>2 DEF Contains
<1> QED BY <1>2, <1>3, <1>4

\* A chain that gets a new head.
LEMMA Pushed ==
  ASSUME NEW S, NEW q \in Seq(S), Distinct(q), NEW s \in S, ~Contains(q, s)
  PROVE  /\ <<s>> \o q \in Seq(S) /\ Distinct(<<s>> \o q)
         /\ \A r : Contains(<<s>> \o q, r) <=> Contains(q, r) \/ r = s
<1> DEFINE n == <<s>> \o q
<1>1. /\ n \in Seq(S) /\ Len(n) = Len(q) + 1 /\ n[1] = s /\ Len(q) \in Nat
      /\ \A j \in 2..(Len(q) + 1) : n[j] = q[j - 1]
  OBVIOUS
<1> HIDE DEF n
<1>2. \A i \in 1..Len(q) : q[i] # s
  BY DEF Contains
<1>3. ASSUME NEW i \in 1..Len(n), NEW j \in 1..Len(n), n[i] = n[j] PROVE i = j
  <2>1. \A x \in 1..Len(n) : x = 1 \/ (x \in 2..(Len(q) + 1) /\ x - 1 \in 1..Len(q))
    BY <1>1
  <2>2. CASE i = 1 \/ j = 1
    BY <1>1, <1>2, <1>3, <2>1, <2>2
  <2>3. CASE i # 1 /\ j # 1
    <3>1. i - 1 \in 1..Len(q) /\ j - 1 \in 1..Len(q) /\ q[i - 1] = q[j - 1]
      BY <1>1, <1>3, <2>1, <2>3
    <3>2. i - 1 = j - 1
      BY <3>1 DEF Distinct
    <3> QED BY <3>2
  <2> QED BY <2>2, <2>3
<1>4. ASSUME NEW r PROVE Contains(n, r) <=> Contains(q, r) \/ r = s
  <2>1. Contains(n, s)
    <3>1. 1 \in 1..Len(n)
      BY <1>1
    <3> QED BY <1>1, <3>1 DEF Contains
  <2>2. ASSUME NEW i \in 1..Len(q), q[i] = r PROVE Contains(n, r)
    <3>1. i + 1 \in 1..Len(n) /\ i + 1 \in 2..(Len(q) + 1) /\ (i + 1) - 1 = i
      BY <1>1
    <3>2. n[i + 1] = r
      BY <1>1, <2>2, <3>1
    <3> QED BY <3>1, <3>2 DEF Contains
  <2>3. ASSUME NEW i \in 1..Len(n), n[i] = r, r # s PROVE Contains(q, r)
    <3>1. i - 1 \in 1..Len(q) /\ i \in 2..(Len(q) + 1)
      BY <1>1, <2>3
    <3>2. q[i - 1] = r
      BY <1>1, <2>3, <3>1
    <3> QED BY <3>1, <3>2 DEF Contains
  <2> QED BY <2>1, <2>2, <2>3 DEF Contains
<1> QED BY <1>1, <1>3, <1>4 DEF n, Distinct

\* A sequence over a set is one over a larger set.
LEMMA Wider == ASSUME NEW S, NEW T, S \subseteq T, NEW q \in Seq(S) PROVE q \in Seq(T)
  OBVIOUS

\* What storing value v under number n of thread t's tree comes to, as far as the
\* pthreads can see.
Stored(c, t, n, v) ==
  /\ DOMAIN kyTree' = PThreads /\ kyVal' \in [PThreads -> [Numbers -> KValues]]
  /\ kyTree'[c] = kyTree[c]
  /\ \A u \in PThreads \ {OsThread} :
       /\ kyTree'[u] \in Seq(1..Width(c))
       /\ \A m : Contains(kyTree'[u], m) <=> Contains(kyTree[u], m) \/ (u = t /\ m = n)
       /\ \A m \in Numbers : kyVal'[u][m] = IF u = t /\ m = n THEN v ELSE kyVal[u][m]

\* The numbers that the trees hold are among those values are kept for.
LEMMA NumbersHold ==
  ASSUME KeysAssumption, KyTypeOK, NEW c \in PThreads, KyNumbers(c)
  PROVE  /\ Cardinality(PKeys) \in Nat /\ Width(c) \in Nat /\ Width(c) <= Cardinality(PKeys) + 2
         /\ 1..Width(c) \subseteq Numbers /\ Numbers = 1..(Cardinality(PKeys) + 2)
         /\ Cardinality(Made) \in Nat /\ IsFiniteSet(Made)
         /\ \A k \in PKeys \ Made : Cardinality(Made \cup {k}) = Cardinality(Made) + 1
                                     /\ Cardinality(Made) < Cardinality(PKeys)
<1>1. IsFiniteSet(PKeys) /\ Cardinality(PKeys) \in Nat
  BY FS_CardinalityType DEF KeysAssumption
<1>2. Made \subseteq PKeys
  BY DEF Made, KyTypeOK
<1>3. IsFiniteSet(Made) /\ Cardinality(Made) <= Cardinality(PKeys) /\ Cardinality(Made) \in Nat
  BY <1>1, <1>2, FS_Subset, FS_CardinalityType
<1>4. Width(c) \in Nat
  BY DEF KyNumbers, Width
<1>5. ASSUME NEW k \in PKeys \ Made
      PROVE  Cardinality(Made \cup {k}) = Cardinality(Made) + 1 /\ Cardinality(Made) < Cardinality(PKeys)
  <2>1. IsFiniteSet(Made \cup {k}) /\ Cardinality(Made \cup {k}) = Cardinality(Made) + 1
    BY <1>3, FS_AddElement
  <2>2. Made \cup {k} \subseteq PKeys
    BY <1>2
  <2>3. Cardinality(Made \cup {k}) <= Cardinality(PKeys)
    BY <1>1, <2>2, FS_Subset
  <2> QED BY <1>1, <1>3, <2>1, <2>3
<1>6. 1..Width(c) \subseteq Numbers
  BY <1>1, <1>3, <1>4 DEF Numbers, KyNumbers
<1>7. Width(c) <= Cardinality(PKeys) + 2
  BY <1>1, <1>3, <1>4 DEF KyNumbers
<1>8. Numbers = 1..(Cardinality(PKeys) + 2)
  BY DEF Numbers
<1> QED BY <1>1, <1>3, <1>4, <1>5, <1>6, <1>7, <1>8

\* Setting a value (pte_osTlsSetValue).
LEMMA StoreSet ==
  ASSUME KeysAssumption, KyTypeOK, NEW c \in PThreads, KyNumbers(c), NEW t \in PThreads,
         NEW n \in 1..Width(c), NEW v \in KValues,
         SetStore(pte_osTlsSetValue(Store, t, n, v))
  PROVE  Stored(c, t, n, v)
<1>1. n \in Numbers
  BY NumbersHold
<1>2. Contains(kyTree[c], n)
  BY DEF KyNumbers
<1>3. CASE Contains(kyTree[t], n)
  <2>1. kyTree' = kyTree /\ kyVal' = [kyVal EXCEPT ![t][n] = v]
    BY <1>3 DEF SetStore, pte_osTlsSetValue, tls_has_key, tls_set, Store
  <2> QED BY <1>1, <1>3, <2>1 DEF Stored, KyTypeOK, KyNumbers
<1>4. CASE ~Contains(kyTree[t], n) /\ t = OsThread
  <2>1. kyTree' = kyTree /\ kyVal' = kyVal
    BY <1>4 DEF SetStore, pte_osTlsSetValue, tls_has_key, tls_set, Store
  <2> QED BY <1>2, <1>4, <2>1 DEF Stored, KyTypeOK, KyNumbers
<1>5. CASE ~Contains(kyTree[t], n) /\ t # OsThread
  <2>1. PICK a : a = tls_put(Store, t, n, v)
    OBVIOUS
  <2>2. /\ a = [tree |-> [kyTree EXCEPT ![t] = Append(@, n)], val |-> [kyVal EXCEPT ![t][n] = v]]
    BY <1>5, <2>1 DEF tls_put, tls_set, Store, KyTypeOK
  <2>3. /\ kyTree' = a.tree
        /\ kyVal' = a.val \/ kyVal' = [a.val EXCEPT ![OsThread][n] = v]
    BY <1>5, <2>1 DEF SetStore, pte_osTlsSetValue, tls_has_key, tls_set, Store
  <2>4. t # c
    BY <1>2, <1>5
  <2>5. /\ DOMAIN kyTree' = PThreads /\ kyTree'[t] = Append(kyTree[t], n)
        /\ \A u \in PThreads : u # t => kyTree'[u] = kyTree[u]
    BY <2>2, <2>3 DEF KyTypeOK
  <2>6. /\ kyVal' \in [PThreads -> [Numbers -> KValues]]
        /\ \A u \in PThreads \ {OsThread}, m \in Numbers :
             kyVal'[u][m] = IF u = t /\ m = n THEN v ELSE kyVal[u][m]
    <3>1. a.val \in [PThreads -> [Numbers -> KValues]]
      BY <1>1, <2>2 DEF KyTypeOK
    <3>2. kyVal' \in [PThreads -> [Numbers -> KValues]]
      BY <1>1, <2>3, <3>1
    <3>3. \A u \in PThreads \ {OsThread} : kyVal'[u] = a.val[u]
      BY <2>3, <3>1
    <3>4. \A u \in PThreads, m \in Numbers : a.val[u][m] = IF u = t /\ m = n THEN v ELSE kyVal[u][m]
      BY <1>1, <2>2 DEF KyTypeOK
    <3> QED BY <3>2, <3>3, <3>4
  <2>7. kyTree[t] \in Seq(1..Width(c))
    BY <1>5 DEF KyNumbers
  <2>8. Append(kyTree[t], n) \in Seq(1..Width(c))
    BY <2>7, AppendOne
  <2>9. \A m : Contains(Append(kyTree[t], n), m) <=> Contains(kyTree[t], m) \/ m = n
    <3>1. PICK S : S = 1..Width(c)
      OBVIOUS
    <3>2. PICK q \in Seq(S) : q = kyTree[t]
      BY <2>7, <3>1
    <3>3. n \in S
      BY <3>1
    <3>4. \A m : Contains(Append(q, n), m) <=> Contains(q, m) \/ m = n
      BY <3>2, <3>3, Appended
    <3> QED BY <3>2, <3>4
  <2>10. kyTree'[c] = kyTree[c]
    BY <2>4, <2>5
  <2>11. ASSUME NEW u \in PThreads \ {OsThread}
         PROVE  /\ kyTree'[u] \in Seq(1..Width(c))
                /\ \A m : Contains(kyTree'[u], m) <=> Contains(kyTree[u], m) \/ (u = t /\ m = n)
    <3>1. CASE u = t
      BY <2>5, <2>8, <2>9, <3>1, Zenon
    <3>2. CASE u # t
      BY <2>5, <3>2 DEF KyNumbers
    <3> QED BY <3>1, <3>2
  <2> QED BY <2>5, <2>6, <2>10, <2>11 DEF Stored
<1> QED BY <1>3, <1>4, <1>5

\* A pthread's missing key is put into its tree with NULL.
LEMMA StorePut ==
  ASSUME KeysAssumption, KyTypeOK, NEW c \in PThreads, KyNumbers(c), NEW t \in PThreads \ {OsThread},
         NEW n \in 1..Width(c), ~Contains(kyTree[t], n),
         kyTree' = [kyTree EXCEPT ![t] = Append(@, n)], kyVal' = [kyVal EXCEPT ![t][n] = NULL]
  PROVE  Stored(c, t, n, NULL)
<1>1. n \in Numbers /\ NULL \in KValues
  BY NumbersHold DEF KValues
<1>2. t # c
  BY DEF KyNumbers
<1>3. /\ DOMAIN kyTree' = PThreads /\ kyTree'[t] = Append(kyTree[t], n)
      /\ \A u \in PThreads : u # t => kyTree'[u] = kyTree[u]
  BY DEF KyTypeOK
<1>4. PICK S : S = 1..Width(c)
  OBVIOUS
<1>5. PICK q \in Seq(S) : q = kyTree[t]
  BY <1>4 DEF KyNumbers
<1>6. n \in S
  BY <1>4
<1>7. Append(q, n) \in Seq(S) /\ \A m : Contains(Append(q, n), m) <=> Contains(q, m) \/ m = n
  BY <1>5, <1>6, Appended, AppendOne
<1>8. /\ kyVal' \in [PThreads -> [Numbers -> KValues]]
      /\ \A u \in PThreads, m \in Numbers : kyVal'[u][m] = IF u = t /\ m = n THEN NULL ELSE kyVal[u][m]
  BY <1>1 DEF KyTypeOK
<1>9. ASSUME NEW u \in PThreads \ {OsThread}
      PROVE  /\ kyTree'[u] \in Seq(1..Width(c))
             /\ \A m : Contains(kyTree'[u], m) <=> Contains(kyTree[u], m) \/ (u = t /\ m = n)
  <2>1. CASE u = t
    BY <1>3, <1>4, <1>5, <1>7, <2>1
  <2>2. CASE u # t
    BY <1>3, <2>2 DEF KyNumbers
  <2> QED BY <2>1, <2>2
<1> QED BY <1>2, <1>3, <1>8, <1>9 DEF Stored

\* Reading a value (pte_osTlsGetValue).
LEMMA StoreGet ==
  ASSUME KeysAssumption, KyTypeOK, NEW c \in PThreads, KyNumbers(c), NEW t \in PThreads,
         NEW n \in 1..Width(c), ~Contains(kyTree[t], n), SetStore(AfterGet(Store, t, n))
  PROVE  Stored(c, t, n, NULL)
<1>1. CASE t = OsThread
  <2>1. kyTree' = kyTree /\ kyVal' = kyVal
    BY <1>1 DEF SetStore, AfterGet, Store
  <2> QED BY <1>1, <2>1 DEF Stored, KyTypeOK, KyNumbers
<1>2. CASE t # OsThread
  <2>1. kyTree' = [kyTree EXCEPT ![t] = Append(@, n)] /\ kyVal' = [kyVal EXCEPT ![t][n] = NULL]
    BY <1>2 DEF SetStore, AfterGet, tls_has_key, tls_put, tls_set, Store, KyTypeOK
  <2> QED BY <1>2, <2>1, StorePut
<1> QED BY <1>1, <1>2

\* Reading a value and clearing it.
LEMMA StoreClear ==
  ASSUME KeysAssumption, KyTypeOK, NEW c \in PThreads, KyNumbers(c), NEW t \in PThreads \ {OsThread},
         NEW n \in 1..Width(c), SetStore(pte_osTlsSetValue(AfterGet(Store, t, n), t, n, NULL))
  PROVE  Stored(c, t, n, NULL)
<1>1. NULL \in KValues
  BY DEF KValues
<1>2. CASE Contains(kyTree[t], n)
  <2>1. AfterGet(Store, t, n) = Store
    BY <1>2 DEF AfterGet, tls_has_key, Store
  <2>2. SetStore(pte_osTlsSetValue(Store, t, n, NULL))
    BY <2>1
  <2> QED BY <1>1, <2>2, StoreSet
<1>3. CASE ~Contains(kyTree[t], n)
  <2>1. PICK a : a = AfterGet(Store, t, n)
    OBVIOUS
  <2>2. a = [tree |-> [kyTree EXCEPT ![t] = Append(@, n)], val |-> [kyVal EXCEPT ![t][n] = NULL]]
    BY <1>3, <2>1 DEF AfterGet, tls_has_key, tls_put, tls_set, Store, KyTypeOK
  <2>3. Contains(a.tree[t], n)
    <3>1. PICK S : S = 1..Width(c)
      OBVIOUS
    <3>2. PICK q \in Seq(S) : q = kyTree[t]
      BY <3>1 DEF KyNumbers
    <3>3. n \in S
      BY <3>1
    <3>4. Contains(Append(q, n), n)
      BY <3>2, <3>3, Appended
    <3> QED BY <2>2, <3>2, <3>4 DEF KyTypeOK
  <2>4. kyTree' = a.tree /\ kyVal' = [a.val EXCEPT ![t][n] = NULL]
    BY <2>1, <2>2, <2>3 DEF SetStore, pte_osTlsSetValue, tls_has_key, tls_set
  <2>5. n \in Numbers
    BY NumbersHold
  <2>6. kyTree' = [kyTree EXCEPT ![t] = Append(@, n)] /\ kyVal' = [kyVal EXCEPT ![t][n] = NULL]
    <3>1. a.val[t] \in [Numbers -> KValues] /\ a.val[t][n] = NULL
      BY <1>1, <2>2, <2>5 DEF KyTypeOK
    <3>2. [a.val[t] EXCEPT ![n] = NULL] = a.val[t]
      BY <3>1
    <3>3. [a.val EXCEPT ![t][n] = NULL] = [a.val EXCEPT ![t] = a.val[t]]
      BY <3>2
    <3>4. a.val \in [PThreads -> [Numbers -> KValues]]
      BY <1>1, <2>2, <2>5 DEF KyTypeOK
    <3>5. [a.val EXCEPT ![t] = a.val[t]] = a.val
      BY <3>4
    <3> QED BY <2>2, <2>4, <3>3, <3>5
  <2> QED BY <1>3, <2>6, StorePut
<1> QED BY <1>2, <1>3

\* Numbering a new key (pte_osTlsAlloc).
LEMMA StoreNew ==
  ASSUME KeysAssumption, KyTypeOK, NEW c \in PThreads, KyNumbers(c), NEW n \in Numbers,
         n = tls_count(Store, c) + 1, SetStore(pte_osTlsAlloc(c, n))
  PROVE  /\ n = Width(c) + 1 /\ DOMAIN kyTree' = PThreads
         /\ kyTree'[c] = Append(kyTree[c], n)
         /\ \A u \in PThreads \ {OsThread, c} : kyTree'[u] = kyTree[u]
         /\ kyVal' \in [PThreads -> [Numbers -> KValues]] /\ kyVal'[c][n] = NULL
         /\ \A u \in PThreads \ {OsThread}, m \in Numbers \ {n} : kyVal'[u][m] = kyVal[u][m]
<1>1. n = Width(c) + 1
  BY DEF tls_count, Store, Width
<1>2. ~Contains(kyTree[c], n)
  <2>1. \A i \in 1..Len(kyTree[c]) : kyTree[c][i] \in 1..Width(c)
    BY ElementOf DEF KyNumbers
  <2>2. n \notin 1..Width(c)
    BY <1>1, NumbersHold
  <2> QED BY <2>1, <2>2 DEF Contains
<1>3. PICK own : own = tls_put(Store, c, n, NULL)
  OBVIOUS
<1>4. own = [tree |-> [kyTree EXCEPT ![c] = Append(@, n)], val |-> [kyVal EXCEPT ![c][n] = NULL]]
  BY <1>2, <1>3 DEF tls_put, tls_set, Store, KyTypeOK
<1>5. /\ own.val \in [PThreads -> [Numbers -> KValues]] /\ own.val[c][n] = NULL
      /\ \A u \in PThreads, m \in Numbers \ {n} : own.val[u][m] = kyVal[u][m]
  <2>1. NULL \in KValues
    BY DEF KValues
  <2> QED BY <1>4, <2>1 DEF KyTypeOK
<1>6. CASE c = OsThread
  <2>1. kyTree' = own.tree /\ kyVal' = own.val
    BY <1>3, <1>6 DEF SetStore, pte_osTlsAlloc
  <2> QED BY <1>1, <1>4, <1>5, <1>6, <2>1 DEF KyTypeOK
<1>7. CASE c # OsThread
  <2>1. PICK a : a = tls_put(own, OsThread, n, NULL)
    OBVIOUS
  <2>2. kyTree' = a.tree /\ kyVal' = a.val
    BY <1>3, <1>7, <2>1 DEF SetStore, pte_osTlsAlloc
  <2>3. \E q : a = [tree |-> [own.tree EXCEPT ![OsThread] = q], val |-> [own.val EXCEPT ![OsThread][n] = NULL]]
    BY <1>4, <2>1 DEF tls_put, tls_set
  <2>4. /\ DOMAIN kyTree' = PThreads
        /\ \A u \in PThreads \ {OsThread} : kyTree'[u] = own.tree[u]
    <3>1. DOMAIN kyTree = PThreads
      BY DEF KyTypeOK
    <3>2. DOMAIN own.tree = PThreads
      BY <1>4, <3>1
    <3>3. PICK q : a = [tree |-> [own.tree EXCEPT ![OsThread] = q], val |-> [own.val EXCEPT ![OsThread][n] = NULL]]
      BY <2>3
    <3>4. a.tree = [own.tree EXCEPT ![OsThread] = q]
      BY <3>3
    <3> QED BY <2>2, <3>2, <3>4
  <2>5. /\ kyVal' \in [PThreads -> [Numbers -> KValues]]
        /\ \A u \in PThreads \ {OsThread} : kyVal'[u] = own.val[u]
    <3>1. NULL \in KValues
      BY DEF KValues
    <3> QED BY <1>5, <2>2, <2>3, <3>1
  <2>6. /\ own.tree[c] = Append(kyTree[c], n)
        /\ \A u \in PThreads \ {c} : own.tree[u] = kyTree[u]
    BY <1>4 DEF KyTypeOK
  <2>7. kyVal'[c][n] = NULL /\ \A u \in PThreads \ {OsThread}, m \in Numbers \ {n} : kyVal'[u][m] = kyVal[u][m]
    BY <1>5, <1>7, <2>5
  <2>8. kyTree'[c] = Append(kyTree[c], n) /\ \A u \in PThreads \ {OsThread, c} : kyTree'[u] = kyTree[u]
    BY <1>7, <2>4, <2>6
  <2> QED BY <1>1, <2>4, <2>5, <2>7, <2>8
<1> QED BY <1>6, <1>7

\* Steps that neither make, free nor number a key and leave the trees alone.
LEMMA SameNumbers ==
  ASSUME NEW c \in PThreads, KyNumbers(c), kyNum' = kyNum, kyGone' = kyGone, kyTree' = kyTree
  PROVE  KyNumbers(c)'
<1>1. Made' = Made /\ Width(c)' = Width(c)
  BY DEF Made, Width, Live
<1> QED BY <1>1 DEF KyNumbers, Live

\* Nor do they change what is read.
LEMMA SameReads ==
  ASSUME KyReads, kyNum' = kyNum, kyGone' = kyGone, kyTree' = kyTree, kyVal' = kyVal, kyLast' = kyLast
  PROVE  KyReads'
<1>1. Made' = Made
  BY DEF Made, Live
<1> QED BY <1>1 DEF KyReads, ReadsOwn, Live, pte_osTlsGetValue, tls_has_key, Store

\* Nor the chains.
LEMMA SameChains ==
  ASSUME KyChains, kyNum' = kyNum, kyDtor' = kyDtor, kyKeys' = kyKeys, kyNext' = kyNext
  PROVE  KyChains'
  BY DEF KyChains, Live

\* A value that is stored and remembered.
LEMMA StoredNumbers ==
  ASSUME KyTypeOK, NEW c \in PThreads, KyNumbers(c), NEW t, NEW n, NEW v, Stored(c, t, n, v),
         kyNum' = kyNum, kyGone' = kyGone
  PROVE  KyNumbers(c)'
<1>1. Made' = Made /\ Width(c)' = Width(c)
  BY DEF Made, Width, Live, Stored
<1> QED BY <1>1 DEF KyNumbers, Live, Stored

\* It is what its thread reads from then on.
LEMMA StoredReads ==
  ASSUME KeysAssumption, KyTypeOK, NEW c \in PThreads, KyNumbers(c), KyReads,
         NEW t \in PThreads, NEW k \in PKeys, Live(k), NEW v, Stored(c, t, kyNum[k], v),
         kyNum' = kyNum, kyGone' = kyGone,
         \A u \in PThreads \ {OsThread}, j \in PKeys :
           kyLast'[u][j] = IF u = t /\ j = k THEN v ELSE kyLast[u][j],
         \A u \in PThreads, j \in PKeys \ Made : kyLast'[u][j] = kyLast[u][j]
  PROVE  KyReads'
<1>1. Made' = Made
  BY DEF Made, Live
<1>2. ASSUME NEW u \in PThreads \ {OsThread}, NEW j \in PKeys, Live(j)
      PROVE  pte_osTlsGetValue(Store, u, kyNum[j])' = kyLast'[u][j]
  <2>1. kyNum[j] \in Numbers /\ kyNum[j] \in 1..Width(c)
    BY <1>2, NumbersHold DEF KyNumbers
  <2>2. (IF Contains(kyTree[u], kyNum[j]) THEN kyVal[u][kyNum[j]] ELSE NULL) = kyLast[u][j]
    BY <1>2 DEF KyReads, ReadsOwn, pte_osTlsGetValue, tls_has_key, Store
  <2>3. kyNum[j] = kyNum[k] <=> j = k
    BY <1>2 DEF KyNumbers
  <2>4. (IF Contains(kyTree'[u], kyNum[j]) THEN kyVal'[u][kyNum[j]] ELSE NULL) = kyLast'[u][j]
    <3>1. Contains(kyTree'[u], kyNum[j]) <=> Contains(kyTree[u], kyNum[j]) \/ (u = t /\ kyNum[j] = kyNum[k])
      BY DEF Stored
    <3>2. kyVal'[u][kyNum[j]] = IF u = t /\ kyNum[j] = kyNum[k] THEN v ELSE kyVal[u][kyNum[j]]
      BY <2>1 DEF Stored
    <3> QED BY <2>2, <2>3, <3>1, <3>2
  <2> QED BY <2>4 DEF pte_osTlsGetValue, tls_has_key, Store
<1>3. \A u \in PThreads \ {OsThread} : ReadsOwn(u)'
  BY <1>2 DEF ReadsOwn, Live
<1> QED BY <1>1, <1>3 DEF KyReads

\* A step that takes thread t to pc s, with call o, and no other thread anywhere.
LEMMA Moved ==
  ASSUME KyTypeOK, KyPhases, NEW t \in PThreads, NEW s, NEW o,
         s \in {"idle"} \cup KySetting \cup KyDeleting \cup KyExiting,
         o \in {"none", "set", "delete", "exit"},
         pc' = [pc EXCEPT ![t] = s], op' = [op EXCEPT ![t] = o],
         o = "set" <=> s \in KySetting, o = "delete" <=> s \in KyDeleting,
         o = "exit" <=> s \in KyExiting, o = "exit" => t # OsThread
  PROVE  /\ pc' \in [PThreads -> {"idle"} \cup KySetting \cup KyDeleting \cup KyExiting]
         /\ op' \in [PThreads -> {"none", "set", "delete", "exit"}]
         /\ KyPhases'
<1>1. pc' \in [PThreads -> {"idle"} \cup KySetting \cup KyDeleting \cup KyExiting]
  BY DEF KyTypeOK
<1>2. op' \in [PThreads -> {"none", "set", "delete", "exit"}]
  BY DEF KyTypeOK
<1>3. \A u \in PThreads : /\ pc'[u] = IF u = t THEN s ELSE pc[u]
                          /\ op'[u] = IF u = t THEN o ELSE op[u]
  BY DEF KyTypeOK
<1>4. KyPhases'
  BY <1>3 DEF KyPhases
<1> QED BY <1>1, <1>2, <1>4

-----------------------------------------------------------------------------
(* Setting a value *)

\* The key is locked.
LEMMA LockKeyKept ==
  ASSUME KeysAssumption, NEW c \in PThreads, KyGood(c), NEW t \in PThreads, LockKey(t)
  PROVE  KyGood(c)'
<1> USE DEF LockKey, Goto, kyStore, kyExit
<1>1. KyTypeOK' /\ KyPhases'
  <2>1. KyTypeOK'
    BY DEF KyGood, KyTypeOK, KySetting, KyDeleting, KyExiting
  <2>2. KyPhases'
    BY DEF KyGood, KyTypeOK, KyPhases, KySetting, KyDeleting, KyExiting
  <2> QED BY <2>1, <2>2
<1>2. KyNumbers(c)' /\ KyReads' /\ KyChains'
  BY SameNumbers, SameReads, SameChains DEF KyGood, kyStore, kyExit
<1>3. op' = op /\ \A u \in PThreads : pc'[u] = IF u = t THEN "ky_assoc" ELSE pc[u]
  BY DEF KyGood, KyTypeOK, KySetting, KyDeleting, KyExiting
<1>4. KyCalls'
  BY <1>3 DEF KyGood, KyCalls, KyTypeOK, Live
<1>5. KyEnds'
  BY <1>3 DEF KyGood, KyEnds, KyTypeOK, Live, Deleting
<1> QED BY <1>1, <1>2, <1>4, <1>5 DEF KyGood

\* The association is made, at the head of the chain, unless there is one.
LEMMA AssocCreateKept ==
  ASSUME KeysAssumption, NEW c \in PThreads, KyGood(c), NEW t \in PThreads, pte_tkAssocCreate(t)
  PROVE  KyGood(c)'
<1> USE DEF pte_tkAssocCreate, Goto, kyStore, kyExit
<1>1. PICK k \in PKeys : k = kyArg[t].key /\ Live(k) /\ k \in kyDtor
  <2>1. op[t] = "set" /\ pc[t] \in {"ky_lock", "ky_assoc"}
    BY DEF KyGood, KyPhases, KySetting
  <2> QED BY <2>1 DEF KyGood, KyCalls
<1>2. PICK q : /\ q = kyKeys'[t] /\ q \in Seq(PKeys) /\ Distinct(q)
               /\ \A j : Contains(q, j) <=> Contains(kyKeys[t], j) \/ j = k
               /\ kyKeys' = [kyKeys EXCEPT ![t] = q]
  <2>1. kyKeys[t] \in Seq(PKeys) /\ Distinct(kyKeys[t])
    BY DEF KyGood, KyTypeOK, KyChains
  <2>2. CASE Contains(kyKeys[t], k)
    BY <1>1, <2>1, <2>2 DEF KyGood, KyTypeOK
  <2>3. CASE ~Contains(kyKeys[t], k)
    <3>1. kyKeys' = [kyKeys EXCEPT ![t] = <<k>> \o kyKeys[t]]
      BY <1>1, <2>3
    <3>2. /\ <<k>> \o kyKeys[t] \in Seq(PKeys) /\ Distinct(<<k>> \o kyKeys[t])
          /\ \A j : Contains(<<k>> \o kyKeys[t], j) <=> Contains(kyKeys[t], j) \/ j = k
      BY <2>1, <2>3, Pushed
    <3> QED BY <3>1, <3>2 DEF KyGood, KyTypeOK
  <2> QED BY <2>2, <2>3
<1>3. KyTypeOK' /\ KyPhases'
  <2>1. KyTypeOK'
    BY <1>2 DEF KyGood, KyTypeOK, KySetting, KyDeleting, KyExiting
  <2>2. KyPhases'
    BY <1>2 DEF KyGood, KyTypeOK, KyPhases, KySetting, KyDeleting, KyExiting
  <2> QED BY <2>1, <2>2
<1>4. KyNumbers(c)' /\ KyReads'
  BY SameNumbers, SameReads DEF KyGood
<1>5. op' = op /\ kyNext' = kyNext /\ kyRound' = kyRound
         /\ \A u \in PThreads : pc'[u] = IF u = t THEN "ky_set" ELSE pc[u]
  BY DEF KyGood, KyTypeOK
<1>6. \A u \in PThreads : u # t => kyKeys'[u] = kyKeys[u]
  BY <1>2 DEF KyGood, KyTypeOK
<1>7. KyChains'
  BY <1>1, <1>2, <1>5, <1>6 DEF KyGood, KyChains, Live
<1>8. KyCalls'
  <2>1. op[t] = "set"
    BY DEF KyGood, KyPhases, KySetting
  <2>2. ASSUME NEW s \in PThreads, NEW u \in PThreads, pc'[s] = "ky_free"
        PROVE  ~Contains(kyKeys'[u], kyArg[s].key)
    <3>1. s # t /\ pc[s] = "ky_free" /\ op[s] = "delete"
      BY <1>5, <2>2 DEF KyGood, KyPhases, KyDeleting
    <3>2. kyArg[s].key # k
      BY <1>1, <2>1, <3>1 DEF KyGood, KyCalls
    <3> QED BY <1>2, <1>6, <3>1, <3>2 DEF KyGood, KyCalls
  <2>3. ASSUME NEW u \in PThreads, pc'[u] = "ky_set", kyArg[u].value # NULL, kyArg[u].key \in kyDtor
        PROVE  Contains(kyKeys'[u], kyArg[u].key)
    <3>1. CASE u = t
      BY <1>1, <1>2, <3>1
    <3>2. CASE u # t
      <4>1. pc[u] = "ky_set" /\ kyKeys'[u] = kyKeys[u]
        BY <1>5, <1>6, <2>3, <3>2
      <4> QED BY <2>3, <4>1 DEF KyGood, KyCalls
    <3> QED BY <3>1, <3>2
  <2> QED BY <1>5, <2>2, <2>3 DEF KyGood, KyCalls, Live
<1>9. KyEnds'
  <2>1. op[t] = "set" /\ pc[t] = "ky_assoc"
    BY DEF KyGood, KyPhases, KySetting
  <2> QED BY <1>2, <1>5, <1>6, <2>1 DEF KyGood, KyEnds, Live, Deleting
<1> QED BY <1>3, <1>4, <1>7, <1>8, <1>9 DEF KyGood

\* The value is stored.
LEMMA SetValueKept ==
  ASSUME KeysAssumption, NEW c \in PThreads, KyGood(c), NEW t \in PThreads, SetValue(t)
  PROVE  KyGood(c)'
<1> USE DEF SetValue, Return, Goto, kyStore, kyExit
<1>1. op[t] = "set" /\ pc[t] = "ky_set"
  BY DEF KyGood, KyPhases, KySetting
<1>2. PICK k \in PKeys, v \in KValues : k = kyArg[t].key /\ v = kyArg[t].value /\ Live(k) /\ ~Deleting(k)
  <2>1. kyArg[t].key \in PKeys /\ Live(kyArg[t].key) /\ kyArg[t].value \in KValues
    BY <1>1 DEF KyGood, KyCalls, KyTypeOK
  <2>2. ~Deleting(kyArg[t].key)
    BY <1>1 DEF KyGood, KyCalls, Deleting
  <2> QED BY <2>1, <2>2
<1>3. /\ SetStore(pte_osTlsSetValue(Store, t, kyNum[k], v)) /\ kyLast' = [kyLast EXCEPT ![t][k] = v]
  BY <1>2
<1>4. Stored(c, t, kyNum[k], v)
  <2>1. kyNum[k] \in 1..Width(c)
    BY <1>2 DEF KyGood, KyNumbers
  <2> QED BY <1>3, <2>1, StoreSet DEF KyGood
<1>5. /\ kyLast' \in [PThreads -> [PKeys -> KValues]]
      /\ \A u \in PThreads, j \in PKeys : kyLast'[u][j] = IF u = t /\ j = k THEN v ELSE kyLast[u][j]
  <2> HIDE DEF SetValue
  <2>1. kyLast \in [PThreads -> [PKeys -> KValues]]
    BY DEF KyGood, KyTypeOK
  <2>2. [kyLast[t] EXCEPT ![k] = v] \in [PKeys -> KValues]
    BY <1>2, <2>1
  <2>3. kyLast' = [kyLast EXCEPT ![t] = [kyLast[t] EXCEPT ![k] = v]]
    BY <1>3
  <2> QED BY <1>2, <2>1, <2>2, <2>3
<1>6. KyTypeOK'
  <2>1. NULL \in KValues
    BY DEF KValues
  <2> QED BY <1>4, <1>5, <2>1 DEF KyGood, KyTypeOK, Stored
<1>7. KyPhases'
  BY <1>1 DEF KyGood, KyTypeOK, KyPhases, KySetting, KyDeleting, KyExiting
<1>8. KyNumbers(c)' /\ KyReads' /\ KyChains'
  <2>1. k \in Made
    BY <1>2 DEF Made
  <2>2. KyNumbers(c)'
    BY <1>4, StoredNumbers DEF KyGood
  <2>3. KyReads'
    <3>1. KyReads /\ KyNumbers(c) /\ KyTypeOK /\ kyNum' = kyNum /\ kyGone' = kyGone
      BY DEF KyGood
    <3>2. \A u \in PThreads, j \in PKeys \ Made : kyLast'[u][j] = kyLast[u][j]
      BY <1>5, <2>1
    <3>3. \A u \in PThreads \ {OsThread}, j \in PKeys :
            kyLast'[u][j] = IF u = t /\ j = k THEN v ELSE kyLast[u][j]
      BY <1>5
    <3> HIDE DEF SetValue
    <3> QED BY <1>2, <1>4, <3>1, <3>2, <3>3, StoredReads
  <2> QED BY <2>2, <2>3, SameChains DEF KyGood
<1>9. \A u \in PThreads : /\ pc'[u] = IF u = t THEN "idle" ELSE pc[u]
                          /\ op'[u] = IF u = t THEN "none" ELSE op[u]
                          /\ u # t => kyArg'[u] = kyArg[u]
  BY DEF KyGood, KyTypeOK
<1>10. KyCalls'
  BY <1>9 DEF KyGood, KyCalls, Live
<1>11. \A j : Deleting(j)' <=> Deleting(j)
  BY <1>1, <1>9 DEF Deleting
<1>12. KyEnds'
  <2>1. ASSUME NEW u \in PThreads, NEW j \in kyDtor, Live(j), ~Deleting(j), kyLast'[u][j] # NULL
        PROVE  Contains(kyKeys[u], j)
    <3>1. j \in PKeys
      BY DEF KyGood, KyTypeOK
    <3> QED BY <1>1, <1>2, <1>5, <2>1, <3>1 DEF KyGood, KyEnds, KyCalls
  <2> QED BY <1>9, <1>11, <2>1 DEF KyGood, KyEnds, Live
<1> QED BY <1>6, <1>7, <1>8, <1>10, <1>12 DEF KyGood

-----------------------------------------------------------------------------
(* Deleting a key *)

\* The key is locked.
LEMMA LockDeleteKept ==
  ASSUME KeysAssumption, NEW c \in PThreads, KyGood(c), NEW t \in PThreads, LockDelete(t)
  PROVE  KyGood(c)'
<1> USE DEF LockDelete, Goto, kyStore, kyExit
<1>1. KyTypeOK' /\ KyPhases'
  <2>1. KyTypeOK'
    BY DEF KyGood, KyTypeOK, KySetting, KyDeleting, KyExiting
  <2>2. KyPhases'
    BY DEF KyGood, KyTypeOK, KyPhases, KySetting, KyDeleting, KyExiting
  <2> QED BY <2>1, <2>2
<1>2. KyNumbers(c)' /\ KyReads' /\ KyChains'
  BY SameNumbers, SameReads, SameChains DEF KyGood
<1>3. op' = op /\ \A u \in PThreads : pc'[u] = IF u = t THEN "ky_assocs" ELSE pc[u]
  BY DEF KyGood, KyTypeOK
<1>4. KyCalls'
  BY <1>3 DEF KyGood, KyCalls, Live
<1>5. KyEnds'
  BY <1>3 DEF KyGood, KyEnds, Live, Deleting
<1> QED BY <1>1, <1>2, <1>4, <1>5 DEF KyGood

\* An association of key j is unlinked from thread u's chains.
LEMMA Unlinked ==
  ASSUME KyTypeOK, KyChains, NEW u \in PThreads, NEW j \in PKeys, pte_tkAssocDestroy(u, j),
         kyNum' = kyNum, kyDtor' = kyDtor
  PROVE  /\ kyKeys' \in [PThreads -> Seq(PKeys)] /\ kyNext' \in [PThreads -> Seq(PKeys)] /\ KyChains'
         /\ \A s \in PThreads : \A k : Contains(kyKeys'[s], k) <=> Contains(kyKeys[s], k) /\ ~(s = u /\ k = j)
         /\ \A s \in PThreads : \A k : Contains(kyNext'[s], k) <=> Contains(kyNext[s], k) /\ ~(s = u /\ k = j)
<1>1. PICK a : a = RemoveFirst(kyKeys[u], j)
  OBVIOUS
<1>2. PICK b : b = RemoveFirst(kyNext[u], j)
  OBVIOUS
<1>3. /\ kyKeys[u] \in Seq(PKeys) /\ Distinct(kyKeys[u])
      /\ kyNext[u] \in Seq(PKeys) /\ Distinct(kyNext[u])
  BY DEF KyTypeOK, KyChains
<1>4. /\ a \in Seq(PKeys) /\ Distinct(a) /\ \A k : Contains(a, k) <=> Contains(kyKeys[u], k) /\ k # j
  BY <1>1, <1>3, Unlink
<1>5. /\ b \in Seq(PKeys) /\ Distinct(b) /\ \A k : Contains(b, k) <=> Contains(kyNext[u], k) /\ k # j
  BY <1>2, <1>3, Unlink
<1>6. kyKeys' = [kyKeys EXCEPT ![u] = a] /\ kyNext' = [kyNext EXCEPT ![u] = b]
  BY <1>1, <1>2 DEF pte_tkAssocDestroy
<1>7. /\ kyKeys' \in [PThreads -> Seq(PKeys)] /\ kyNext' \in [PThreads -> Seq(PKeys)]
      /\ \A s \in PThreads : kyKeys'[s] = IF s = u THEN a ELSE kyKeys[s]
      /\ \A s \in PThreads : kyNext'[s] = IF s = u THEN b ELSE kyNext[s]
  BY <1>4, <1>5, <1>6 DEF KyTypeOK
<1>8. \A s \in PThreads : \A k :
        /\ Contains(kyKeys'[s], k) <=> Contains(kyKeys[s], k) /\ ~(s = u /\ k = j)
        /\ Contains(kyNext'[s], k) <=> Contains(kyNext[s], k) /\ ~(s = u /\ k = j)
  BY <1>4, <1>5, <1>7
<1>9. \A s \in PThreads : Distinct(kyKeys'[s]) /\ Distinct(kyNext'[s])
  BY <1>4, <1>5, <1>7 DEF KyChains
<1>10. KyChains'
  BY <1>8, <1>9 DEF KyChains, Live
<1> QED BY <1>7, <1>8, <1>10

\* One of its associations is removed, or none is left.
LEMMA DeleteAssocKept ==
  ASSUME KeysAssumption, NEW c \in PThreads, KyGood(c), NEW t \in PThreads, DeleteAssoc(t)
  PROVE  KyGood(c)'
<1> USE DEF kyStore, kyExit
<1>1. PICK k \in PKeys : k = kyArg[t].key /\ op[t] = "delete" /\ pc[t] = "ky_assocs" /\ Deleting(k)
  <2>1. op[t] = "delete" /\ pc[t] = "ky_assocs"
    BY DEF DeleteAssoc, KyGood, KyPhases, KyDeleting
  <2> QED BY <2>1 DEF KyGood, KyCalls, Deleting
<1>2. /\ kyNum' = kyNum /\ kyDtor' = kyDtor /\ kyGone' = kyGone /\ kyTree' = kyTree /\ kyVal' = kyVal
      /\ kyRound' = kyRound /\ kyArg' = kyArg /\ kyLast' = kyLast
  BY DEF DeleteAssoc
<1>3. KyNumbers(c)' /\ KyReads'
  BY <1>2, SameNumbers, SameReads DEF KyGood
<1>4. CASE Associated(k) # {}
  <2>1. PICK u \in PThreads : pte_tkAssocDestroy(u, k) /\ Contains(kyKeys[u], k)
    BY <1>1, <1>4 DEF DeleteAssoc, Associated
  <2>2. pc' = pc /\ op' = op
    BY <1>1, <1>4 DEF DeleteAssoc, commonVars
  <2>3. /\ kyKeys' \in [PThreads -> Seq(PKeys)] /\ kyNext' \in [PThreads -> Seq(PKeys)] /\ KyChains'
        /\ \A s \in PThreads : \A j : Contains(kyKeys'[s], j) <=> Contains(kyKeys[s], j) /\ ~(s = u /\ j = k)
        /\ \A s \in PThreads : \A j : Contains(kyNext'[s], j) <=> Contains(kyNext[s], j) /\ ~(s = u /\ j = k)
    BY <1>2, <2>1, Unlinked DEF KyGood
  <2>4. KyTypeOK' /\ KyPhases'
    BY <1>2, <2>2, <2>3 DEF KyGood, KyTypeOK, KyPhases
  <2>5. KyCalls'
    <3>1. ASSUME NEW s \in PThreads, pc[s] = "ky_set", kyArg[s].value # NULL, kyArg[s].key \in kyDtor
          PROVE  Contains(kyKeys'[s], kyArg[s].key)
      <4>1. op[s] = "set" /\ kyArg[s].key # k
        BY <1>1, <3>1 DEF KyGood, KyPhases, KySetting, KyCalls
      <4> QED BY <2>3, <3>1, <4>1 DEF KyGood, KyCalls
    <3> QED BY <1>2, <2>2, <2>3, <3>1 DEF KyGood, KyCalls, Live
  <2>6. KyEnds'
    <3>1. ASSUME NEW s \in PThreads, NEW j \in kyDtor, Live(j), ~Deleting(j), kyLast[s][j] # NULL
          PROVE  Contains(kyKeys'[s], j)
      BY <1>1, <2>3, <3>1 DEF KyGood, KyEnds
    <3>2. ASSUME NEW s \in PThreads, pc[s] = "exited" PROVE kyKeys'[s] = << >>
      <4>1. kyKeys[s] = << >>
        BY <3>2 DEF KyGood, KyEnds
      <4>2. s # u
        BY <2>1, <4>1 DEF Contains
      <4> QED BY <2>1, <4>1, <4>2 DEF pte_tkAssocDestroy, KyGood, KyTypeOK
    <3> QED BY <1>2, <2>2, <2>3, <3>1, <3>2 DEF KyGood, KyEnds, Live, Deleting
  <2> QED BY <1>3, <2>3, <2>4, <2>5, <2>6 DEF KyGood
<1>5. CASE Associated(k) = {}
  <2>1. Goto(t, "ky_free") /\ kyKeys' = kyKeys /\ kyNext' = kyNext
    BY <1>1, <1>5 DEF DeleteAssoc
  <2>2. KyTypeOK' /\ KyPhases'
    <3>1. /\ pc' \in [PThreads -> {"idle"} \cup KySetting \cup KyDeleting \cup KyExiting]
          /\ op' \in [PThreads -> {"none", "set", "delete", "exit"}]
          /\ KyPhases'
      <4>1. pc' = [pc EXCEPT ![t] = "ky_free"] /\ op' = [op EXCEPT ![t] = "delete"]
        BY <1>1, <2>1 DEF Goto, KyGood, KyTypeOK
      <4> QED BY <4>1, Moved DEF KyGood, KySetting, KyDeleting, KyExiting
    <3> QED BY <1>2, <2>1, <3>1 DEF KyGood, KyTypeOK
  <2>3. KyChains'
    BY <1>2, <2>1, SameChains DEF KyGood
  <2>4. op' = op /\ \A u \in PThreads : pc'[u] = IF u = t THEN "ky_free" ELSE pc[u]
    BY <2>1 DEF KyGood, KyTypeOK, Goto
  <2>5. \A u \in PThreads : ~Contains(kyKeys[u], k)
    BY <1>5 DEF Associated
  <2>6. KyCalls'
    BY <1>1, <1>2, <2>1, <2>4, <2>5 DEF KyGood, KyCalls, Live
  <2>7. KyEnds'
    BY <1>2, <2>1, <2>4 DEF KyGood, KyEnds, Live, Deleting
  <2> QED BY <1>3, <2>2, <2>3, <2>6, <2>7 DEF KyGood
<1> QED BY <1>4, <1>5

\* A key without associations is freed.
LEMMA FreeKeyKept ==
  ASSUME KeysAssumption, NEW c \in PThreads, KyGood(c), NEW t \in PThreads, FreeKey(t)
  PROVE  KyGood(c)'
<1> USE DEF kyStore, kyExit
<1>1. PICK k \in PKeys : k = kyArg[t].key /\ op[t] = "delete" /\ pc[t] = "ky_free" /\ Live(k)
  <2>1. op[t] = "delete" /\ pc[t] = "ky_free"
    BY DEF FreeKey, KyGood, KyPhases, KyDeleting
  <2> QED BY <2>1 DEF KyGood, KyCalls
<1>2. /\ kyNum' = [kyNum EXCEPT ![k] = 0] /\ kyGone' = kyGone \cup {k} /\ Return(t)
      /\ kyArg' = [kyArg EXCEPT ![t] = [key |-> NoPKey, value |-> NULL]]
      /\ kyDtor' = kyDtor /\ kyTree' = kyTree /\ kyVal' = kyVal /\ kyKeys' = kyKeys
      /\ kyNext' = kyNext /\ kyRound' = kyRound /\ kyLast' = kyLast
  BY <1>1 DEF FreeKey
<1>3. \A j \in PKeys : (Live(j)' <=> Live(j) /\ j # k) /\ (j # k => kyNum'[j] = kyNum[j])
  BY <1>2 DEF Live, KyGood, KyTypeOK
<1>4. Made' = Made /\ Width(c)' = Width(c)
  <2>1. \A j \in PKeys : Live(j)' \/ j \in kyGone' <=> Live(j) \/ j \in kyGone
    BY <1>1, <1>2, <1>3
  <2> QED BY <1>2, <2>1 DEF Made, Width, KyGood, KyTypeOK
<1>5. KyTypeOK' /\ KyPhases'
  <2>1. NULL \in KValues
    BY DEF KValues
  <2>2. /\ pc' \in [PThreads -> {"idle"} \cup KySetting \cup KyDeleting \cup KyExiting]
        /\ op' \in [PThreads -> {"none", "set", "delete", "exit"}]
        /\ KyPhases'
    <3>1. pc' = [pc EXCEPT ![t] = "idle"] /\ op' = [op EXCEPT ![t] = "none"]
      BY <1>2 DEF Return, Goto
    <3> QED BY <3>1, Moved DEF KyGood, KySetting, KyDeleting, KyExiting
  <2>3. kyNum' \in [PKeys -> Nat] /\ kyGone' \subseteq PKeys
    BY <1>2 DEF KyGood, KyTypeOK
  <2>4. kyArg' \in [PThreads -> [key : PKeys \cup {NoPKey}, value : KValues]]
    BY <1>2, <2>1 DEF KyGood, KyTypeOK
  <2> QED BY <1>2, <2>2, <2>3, <2>4 DEF KyGood, KyTypeOK
<1>6. KyNumbers(c)'
  BY <1>2, <1>3, <1>4 DEF KyGood, KyNumbers, KyTypeOK
<1>7. KyReads'
  BY <1>2, <1>3, <1>4 DEF KyGood, KyReads, ReadsOwn, pte_osTlsGetValue, tls_has_key, Store
<1>8. \A u \in PThreads : /\ pc'[u] = IF u = t THEN "idle" ELSE pc[u]
                          /\ op'[u] = IF u = t THEN "none" ELSE op[u]
                          /\ u # t => kyArg'[u] = kyArg[u]
  BY <1>2 DEF Return, Goto, KyGood, KyTypeOK
<1>9. KyCalls'
  <2>1. ASSUME NEW u \in PThreads, op'[u] \in {"set", "delete"}
        PROVE  kyArg'[u].key \in PKeys /\ kyNum'[kyArg'[u].key] # 0
    <3>1. u # t /\ op[u] \in {"set", "delete"} /\ kyArg'[u] = kyArg[u]
      BY <1>8, <2>1
    <3>2. kyArg[u].key # k
      BY <1>1, <3>1 DEF KyGood, KyCalls
    <3>3. kyArg[u].key \in PKeys /\ Live(kyArg[u].key)
      BY <3>1 DEF KyGood, KyCalls
    <3> QED BY <1>3, <3>1, <3>2, <3>3 DEF Live
  <2> QED BY <1>2, <1>8, <2>1 DEF KyGood, KyCalls, Live
<1>10. KyChains'
  <2>1. \A u \in PThreads : ~Contains(kyKeys[u], k)
    BY <1>1 DEF KyGood, KyCalls
  <2> QED BY <1>2, <1>3, <2>1 DEF KyGood, KyChains
<1>11. KyEnds'
  <2>1. \A j : j # k => (Deleting(j)' <=> Deleting(j))
    BY <1>1, <1>8 DEF Deleting
  <2>2. \A j \in kyDtor : j \in PKeys
    BY DEF KyGood, KyTypeOK
  <2> QED BY <1>2, <1>3, <1>8, <2>1, <2>2 DEF KyGood, KyEnds
<1> QED BY <1>5, <1>6, <1>7, <1>9, <1>10, <1>11 DEF KyGood

-----------------------------------------------------------------------------
(* The destructors of an exiting thread *)

\* A pthread begins to exit.
LEMMA CallUserKept ==
  ASSUME KeysAssumption, NEW c \in PThreads, KyGood(c), NEW t \in PThreads, CallUserDestroyRoutines(t)
  PROVE  KyGood(c)'
<1> USE DEF kyStore, kyExit, kyVars
<1>1. EnterFree(t, "exit", "ky_round") /\ t # OsThread /\ UNCHANGED kyVars
  BY DEF CallUserDestroyRoutines
<1>2. KyTypeOK' /\ KyPhases'
  <2>1. KyTypeOK'
    BY <1>1 DEF EnterFree, KyGood, KyTypeOK, KySetting, KyDeleting, KyExiting
  <2>2. KyPhases'
    BY <1>1 DEF EnterFree, KyGood, KyTypeOK, KyPhases, KySetting, KyDeleting, KyExiting
  <2> QED BY <2>1, <2>2
<1>3. KyNumbers(c)' /\ KyReads' /\ KyChains'
  BY <1>1, SameNumbers, SameReads, SameChains DEF KyGood
<1>4. pc[t] = "idle" /\ op[t] = "none"
  BY <1>1 DEF EnterFree, KyGood, KyTypeOK, KyPhases, KySetting, KyDeleting, KyExiting
<1>5. \A u \in PThreads : /\ pc'[u] = IF u = t THEN "ky_round" ELSE pc[u]
                          /\ op'[u] = IF u = t THEN "exit" ELSE op[u]
  BY <1>1 DEF EnterFree, KyGood, KyTypeOK
<1>6. KyCalls'
  BY <1>1, <1>5 DEF KyGood, KyCalls, Live
<1>7. \A j : Deleting(j)' <=> Deleting(j)
  BY <1>1, <1>4, <1>5 DEF Deleting
<1>8. KyEnds'
  BY <1>1, <1>5, <1>7 DEF KyGood, KyEnds, Live
<1> QED BY <1>2, <1>3, <1>6, <1>8 DEF KyGood

\* A round begins at the head of the chain.
LEMMA NextRoundKept ==
  ASSUME KeysAssumption, NEW c \in PThreads, KyGood(c), NEW t \in PThreads, NextRound(t)
  PROVE  KyGood(c)'
<1> USE DEF NextRound, Goto, kyStore
<1>1. KyTypeOK' /\ KyPhases'
  <2>1. /\ pc' \in [PThreads -> {"idle"} \cup KySetting \cup KyDeleting \cup KyExiting]
        /\ op' \in [PThreads -> {"none", "set", "delete", "exit"}]
        /\ KyPhases'
    <3>1. op[t] = "exit" /\ t # OsThread
      BY DEF KyGood, KyPhases, KyExiting
    <3>2. pc' = [pc EXCEPT ![t] = "ky_next"] /\ op' = [op EXCEPT ![t] = "exit"]
      BY <3>1 DEF KyGood, KyTypeOK
    <3> HIDE DEF NextRound
    <3> QED BY <3>1, <3>2, Moved DEF KyGood, KySetting, KyDeleting, KyExiting
  <2>2. kyRound' \in [PThreads -> [iterations : Nat, remaining : Nat]]
    BY DEF KyGood, KyTypeOK
  <2>3. kyNext' \in [PThreads -> Seq(PKeys)]
    BY DEF KyGood, KyTypeOK
  <2> QED BY <2>1, <2>2, <2>3 DEF KyGood, KyTypeOK
<1>2. KyNumbers(c)' /\ KyReads'
  BY SameNumbers, SameReads DEF KyGood
<1>3. /\ op' = op /\ \A u \in PThreads : pc'[u] = IF u = t THEN "ky_next" ELSE pc[u]
      /\ \A u \in PThreads : kyNext'[u] = IF u = t THEN kyKeys[t] ELSE kyNext[u]
      /\ \A u \in PThreads : u # t => kyRound'[u] = kyRound[u]
  BY DEF KyGood, KyTypeOK
<1>4. KyChains'
  BY <1>3 DEF KyGood, KyChains, Live
<1>5. KyCalls'
  BY <1>3 DEF KyGood, KyCalls, Live
<1>6. KyEnds'
  BY <1>3 DEF KyGood, KyEnds, Live, Deleting
<1> QED BY <1>1, <1>2, <1>4, <1>5, <1>6 DEF KyGood

\* A round ends; the last one leaves no association.
LEMMA EndOfChainKept ==
  ASSUME KeysAssumption, NEW c \in PThreads, KyGood(c), NEW t \in PThreads, EndOfChain(t)
  PROVE  KyGood(c)'
<1> USE DEF kyStore, kyExit, kyVars
<1>1. pc[t] = "ky_next" /\ kyNext[t] = << >> /\ UNCHANGED kyVars
  BY DEF EndOfChain
<1>2. PICK s \in {"ky_round", "exited"} : Goto(t, s) /\ (s = "exited" => kyRound[t].remaining = 0)
  BY DEF EndOfChain, KyGood, KyTypeOK
<1>3. KyTypeOK' /\ KyPhases'
  <2>1. KyTypeOK'
    BY <1>1, <1>2 DEF Goto, KyGood, KyTypeOK, KySetting, KyDeleting, KyExiting
  <2>2. KyPhases'
    BY <1>1, <1>2 DEF Goto, KyGood, KyTypeOK, KyPhases, KySetting, KyDeleting, KyExiting
  <2> QED BY <2>1, <2>2
<1>4. KyNumbers(c)' /\ KyReads' /\ KyChains'
  BY <1>1, SameNumbers, SameReads, SameChains DEF KyGood
<1>5. op' = op /\ \A u \in PThreads : pc'[u] = IF u = t THEN s ELSE pc[u]
  BY <1>2 DEF KyGood, KyTypeOK, Goto
<1>6. KyCalls'
  BY <1>1, <1>5 DEF KyGood, KyCalls, Live
<1>7. s = "exited" => kyKeys[t] = << >>
  <2> SUFFICES ASSUME s = "exited" PROVE kyKeys[t] = << >>
    OBVIOUS
  <2>1. \A k \in PKeys : ~Contains(kyNext[t], k)
    BY <1>1 DEF Contains
  <2>2. \A k \in PKeys : ~Contains(kyKeys[t], k)
    BY <1>1, <1>2, <2>1 DEF KyGood, KyEnds
  <2>3. kyKeys[t] \in Seq(PKeys)
    BY DEF KyGood, KyTypeOK
  <2>4. \A i \in 1..Len(kyKeys[t]) : kyKeys[t][i] \in PKeys /\ Contains(kyKeys[t], kyKeys[t][i])
    BY <2>3, ElementOf DEF Contains
  <2> QED BY <2>2, <2>3, <2>4
<1>8. KyEnds'
  BY <1>1, <1>5, <1>7 DEF KyGood, KyEnds, Live, Deleting
<1> QED BY <1>3, <1>4, <1>6, <1>8 DEF KyGood

\* A value is cleared, and its destructor called or its association removed.
LEMMA NextAssocKept ==
  ASSUME KeysAssumption, NEW c \in PThreads, KyGood(c), NEW t \in PThreads, NextAssoc(t)
  PROVE  KyGood(c)'
<1> USE DEF kyStore, kyExit
<1>1. pc[t] = "ky_next" /\ op[t] = "exit" /\ t # OsThread /\ kyNext[t] # << >>
  BY DEF NextAssoc, KyGood, KyPhases, KyExiting
<1>2. /\ kyNext[t] \in Seq(PKeys) /\ Distinct(kyNext[t])
      /\ Tail(kyNext[t]) \in Seq(PKeys) /\ Distinct(Tail(kyNext[t]))
      /\ Head(kyNext[t]) \in PKeys /\ Contains(kyNext[t], Head(kyNext[t]))
      /\ \A r : Contains(Tail(kyNext[t]), r) <=> Contains(kyNext[t], r) /\ r # Head(kyNext[t])
  <2>1. kyNext[t] \in Seq(PKeys) /\ Distinct(kyNext[t])
    BY DEF KyGood, KyTypeOK, KyChains
  <2> QED BY <1>1, <2>1, Pop
<1>3. PICK k \in PKeys : k = Head(kyNext[t]) /\ Live(k) /\ k \in kyDtor
  BY <1>2 DEF KyGood, KyChains
<1>4. PICK value : value = pte_osTlsGetValue(Store, t, kyNum[k])
  OBVIOUS
<1>5. /\ SetStore(pte_osTlsSetValue(AfterGet(Store, t, kyNum[k]), t, kyNum[k], NULL))
      /\ kyLast' = [kyLast EXCEPT ![t][k] = NULL]
      /\ kyNum' = kyNum /\ kyDtor' = kyDtor /\ kyGone' = kyGone
  BY <1>3 DEF NextAssoc
<1>6. \/ /\ kyNext' = [kyNext EXCEPT ![t] = Tail(@)] /\ kyKeys' = kyKeys
         /\ kyRound' = [kyRound EXCEPT ![t].remaining = @ + 1]
         /\ kyArg' = [kyArg EXCEPT ![t] = [key |-> k, value |-> value]]
         /\ Goto(t, "ky_destructor")
      \/ /\ pte_tkAssocDestroy(t, k)
         /\ kyRound' = kyRound /\ kyArg' = kyArg /\ pc' = pc /\ op' = op
  BY <1>3, <1>4 DEF NextAssoc, commonVars
<1>7. Stored(c, t, kyNum[k], NULL)
  <2>1. kyNum[k] \in 1..Width(c)
    BY <1>3 DEF KyGood, KyNumbers
  <2> QED BY <1>1, <1>5, <2>1, StoreClear DEF KyGood
<1>8. value \in KValues
  <2>1. value = kyLast[t][k]
    BY <1>1, <1>3, <1>4 DEF KyGood, KyReads, ReadsOwn
  <2> QED BY <2>1 DEF KyGood, KyTypeOK
<1>9. NULL \in KValues
  BY DEF KValues
<1>10. /\ kyLast' \in [PThreads -> [PKeys -> KValues]]
       /\ \A u \in PThreads, j \in PKeys : kyLast'[u][j] = IF u = t /\ j = k THEN NULL ELSE kyLast[u][j]
  <2>1. kyLast \in [PThreads -> [PKeys -> KValues]]
    BY DEF KyGood, KyTypeOK
  <2>2. [kyLast[t] EXCEPT ![k] = NULL] \in [PKeys -> KValues]
    BY <1>9, <2>1
  <2>3. kyLast' = [kyLast EXCEPT ![t] = [kyLast[t] EXCEPT ![k] = NULL]]
    BY <1>5
  <2> QED BY <2>1, <2>2, <2>3
<1>11. KyNumbers(c)'
  BY <1>5, <1>7, StoredNumbers DEF KyGood
<1>12. KyReads'
  <2>1. k \in Made
    BY <1>3 DEF Made
  <2>2. \A u \in PThreads, j \in PKeys \ Made : kyLast'[u][j] = kyLast[u][j]
    BY <1>10, <2>1
  <2>3. \A u \in PThreads \ {OsThread}, j \in PKeys :
          kyLast'[u][j] = IF u = t /\ j = k THEN NULL ELSE kyLast[u][j]
    BY <1>10
  <2>4. KyTypeOK /\ KyNumbers(c) /\ KyReads /\ kyNum' = kyNum /\ kyGone' = kyGone
    BY <1>5 DEF KyGood
  <2> QED BY <1>3, <1>7, <2>2, <2>3, <2>4, StoredReads
<1>13. CASE /\ kyNext' = [kyNext EXCEPT ![t] = Tail(@)] /\ kyKeys' = kyKeys
            /\ kyRound' = [kyRound EXCEPT ![t].remaining = @ + 1]
            /\ kyArg' = [kyArg EXCEPT ![t] = [key |-> k, value |-> value]]
            /\ Goto(t, "ky_destructor")
  <2>1. /\ op' = op /\ kyKeys' = kyKeys
        /\ \A u \in PThreads : /\ pc'[u] = IF u = t THEN "ky_destructor" ELSE pc[u]
                               /\ kyNext'[u] = IF u = t THEN Tail(kyNext[t]) ELSE kyNext[u]
                               /\ u # t => kyRound'[u] = kyRound[u] /\ kyArg'[u] = kyArg[u]
        /\ kyRound'[t].remaining > 0 /\ kyRound' \in [PThreads -> [iterations : Nat, remaining : Nat]]
    <3>1. kyRound[t] \in [iterations : Nat, remaining : Nat]
      BY DEF KyGood, KyTypeOK
    <3>2. PICK r : r = [kyRound[t] EXCEPT !.remaining = kyRound[t].remaining + 1]
      OBVIOUS
    <3>3. r \in [iterations : Nat, remaining : Nat] /\ r.remaining > 0
      BY <3>1, <3>2
    <3>4. kyRound' = [kyRound EXCEPT ![t] = r]
      BY <1>13, <3>2
    <3>5. /\ kyRound' \in [PThreads -> [iterations : Nat, remaining : Nat]] /\ kyRound'[t] = r
          /\ \A u \in PThreads : u # t => kyRound'[u] = kyRound[u]
      BY <3>3, <3>4 DEF KyGood, KyTypeOK
    <3>6. /\ op' = op /\ kyKeys' = kyKeys
          /\ \A u \in PThreads : /\ pc'[u] = IF u = t THEN "ky_destructor" ELSE pc[u]
                                 /\ kyNext'[u] = IF u = t THEN Tail(kyNext[t]) ELSE kyNext[u]
                                 /\ u # t => kyArg'[u] = kyArg[u]
      BY <1>13 DEF Goto, KyGood, KyTypeOK
    <3> QED BY <3>3, <3>5, <3>6
  <2>2. /\ pc' \in [PThreads -> {"idle"} \cup KySetting \cup KyDeleting \cup KyExiting]
        /\ op' \in [PThreads -> {"none", "set", "delete", "exit"}]
        /\ KyPhases'
    <3>1. pc' = [pc EXCEPT ![t] = "ky_destructor"] /\ op' = [op EXCEPT ![t] = "exit"]
      BY <1>1, <1>13 DEF Goto, KyGood, KyTypeOK
    <3> QED BY <1>1, <3>1, Moved DEF KyGood, KySetting, KyDeleting, KyExiting
  <2>3. KyTypeOK'
    <3>1. kyNext' \in [PThreads -> Seq(PKeys)]
      BY <1>2, <1>13 DEF KyGood, KyTypeOK
    <3>2. kyArg' \in [PThreads -> [key : PKeys \cup {NoPKey}, value : KValues]]
      BY <1>3, <1>8, <1>13 DEF KyGood, KyTypeOK
    <3> QED BY <1>5, <1>7, <1>10, <2>1, <2>2, <3>1, <3>2 DEF Stored, KyGood, KyTypeOK
  <2>4. KyChains'
    BY <1>2, <1>3, <1>5, <2>1 DEF KyGood, KyChains, Live
  <2>5. KyCalls'
    <3>1. KyCalls /\ kyNum' = kyNum /\ kyDtor' = kyDtor
      BY <1>5 DEF KyGood
    <3>2. \A u \in PThreads : op[u] \in {"set", "delete"} \/ pc[u] \in {"ky_lock", "ky_assoc", "ky_set", "ky_free"} => u # t
      BY <1>1
    <3> QED BY <2>1, <3>1, <3>2 DEF KyCalls, Live
  <2>6. \A j : Deleting(j)' <=> Deleting(j)
    BY <1>1, <2>1 DEF Deleting
  <2>7. \A j \in kyDtor : j \in PKeys
    BY DEF KyGood, KyTypeOK
  <2>8. KyEnds'
    <3>1. ASSUME NEW u \in PThreads, NEW j \in kyDtor, Live(j), ~Deleting(j), kyLast'[u][j] # NULL
          PROVE  Contains(kyKeys[u], j)
      <4>1. kyLast[u][j] # NULL
        BY <1>10, <2>7, <3>1
      <4> QED BY <3>1, <4>1 DEF KyGood, KyEnds
    <3>2. KyEnds
      BY DEF KyGood
    <3> QED BY <1>5, <2>1, <2>6, <3>1, <3>2 DEF KyEnds, Live
  <2> QED BY <1>11, <1>12, <2>2, <2>3, <2>4, <2>5, <2>8 DEF KyGood
<1>14. CASE /\ pte_tkAssocDestroy(t, k)
            /\ kyRound' = kyRound /\ kyArg' = kyArg /\ pc' = pc /\ op' = op
  <2>1. /\ kyKeys' \in [PThreads -> Seq(PKeys)] /\ kyNext' \in [PThreads -> Seq(PKeys)] /\ KyChains'
        /\ \A s \in PThreads : \A j : Contains(kyKeys'[s], j) <=> Contains(kyKeys[s], j) /\ ~(s = t /\ j = k)
        /\ \A s \in PThreads : \A j : Contains(kyNext'[s], j) <=> Contains(kyNext[s], j) /\ ~(s = t /\ j = k)
    BY <1>5, <1>14, Unlinked DEF KyGood
  <2>2. KyTypeOK' /\ KyPhases'
    BY <1>5, <1>7, <1>10, <1>14, <2>1 DEF Stored, KyGood, KyTypeOK, KyPhases
  <2>3. KyCalls'
    <3>1. \A u \in PThreads : pc[u] = "ky_set" => u # t
      BY <1>1
    <3> QED BY <1>5, <1>14, <2>1, <3>1 DEF KyGood, KyCalls, Live
  <2>4. KyEnds'
    <3>1. ASSUME NEW s \in PThreads, NEW j \in kyDtor, Live(j), ~Deleting(j), kyLast'[s][j] # NULL
          PROVE  Contains(kyKeys'[s], j)
      <4>1. j \in PKeys
        BY DEF KyGood, KyTypeOK
      <4>2. ~(s = t /\ j = k) /\ kyLast[s][j] # NULL
        BY <1>10, <3>1, <4>1
      <4>3. Contains(kyKeys[s], j)
        BY <3>1, <4>2 DEF KyGood, KyEnds
      <4> QED BY <2>1, <4>2, <4>3
    <3>2. ASSUME NEW s \in PThreads, pc[s] = "exited" PROVE kyKeys'[s] = << >>
      <4>1. s # t /\ kyKeys[s] = << >>
        BY <1>1, <3>2 DEF KyGood, KyEnds
      <4> QED BY <1>14, <4>1 DEF pte_tkAssocDestroy, KyGood, KyTypeOK
    <3> QED BY <1>5, <1>14, <2>1, <3>1, <3>2 DEF KyGood, KyEnds, Live, Deleting
  <2> QED BY <1>11, <1>12, <2>1, <2>2, <2>3, <2>4 DEF KyGood
<1> QED BY <1>6, <1>13, <1>14

\* A destructor returns, and may have set a value again.
LEMMA DestructorKept ==
  ASSUME KeysAssumption, NEW c \in PThreads, KyGood(c), NEW t \in PThreads, Destructor(t)
  PROVE  KyGood(c)'
<1> USE DEF kyStore, kyExit
<1>1. pc[t] = "ky_destructor" /\ op[t] = "exit" /\ t # OsThread /\ Goto(t, "ky_next")
  BY DEF Destructor, KyGood, KyPhases, KyExiting
<1>2. /\ kyArg' = [kyArg EXCEPT ![t] = [key |-> NoPKey, value |-> NULL]]
      /\ kyNum' = kyNum /\ kyDtor' = kyDtor /\ kyGone' = kyGone /\ kyKeys' = kyKeys
      /\ kyNext' = kyNext /\ kyRound' = kyRound
  BY DEF Destructor
<1>3. /\ op' = op
      /\ \A u \in PThreads : /\ pc'[u] = IF u = t THEN "ky_next" ELSE pc[u]
                             /\ u # t => kyArg'[u] = kyArg[u]
  BY <1>1, <1>2 DEF Goto, KyGood, KyTypeOK
<1>4. NULL \in KValues
  BY DEF KValues
<1>5. KyPhases' /\ KyCalls' /\ KyChains'
  <2>1. KyPhases'
    BY <1>1, <1>3 DEF KyGood, KyPhases, KySetting, KyDeleting, KyExiting
  <2>2. KyCalls'
    BY <1>1, <1>2, <1>3 DEF KyGood, KyCalls, Live
  <2> QED BY <1>2, <2>1, <2>2, SameChains DEF KyGood
<1>6. \A j : Deleting(j)' <=> Deleting(j)
  BY <1>1, <1>3 DEF Deleting
<1>7. CASE kyTree' = kyTree /\ kyVal' = kyVal /\ kyLast' = kyLast
  <2>1. KyTypeOK'
    BY <1>1, <1>2, <1>4, <1>7 DEF Goto, KyGood, KyTypeOK, KyExiting
  <2>2. KyNumbers(c)' /\ KyReads'
    BY <1>2, <1>7, SameNumbers, SameReads DEF KyGood
  <2>3. KyEnds'
    <3>1. kyRound[t].remaining > 0 /\ ~(kyRound[t].remaining = 0)
      BY <1>1 DEF KyGood, KyEnds
    <3> QED BY <1>2, <1>3, <1>6, <1>7, <3>1 DEF KyGood, KyEnds, Live
  <2> QED BY <1>5, <2>1, <2>2, <2>3 DEF KyGood
<1>8. CASE ~(kyTree' = kyTree /\ kyVal' = kyVal /\ kyLast' = kyLast)
  <2>1. PICK k : /\ k = kyArg[t].key /\ Live(k) /\ Contains(kyKeys[t], k)
                 /\ SetStore(pte_osTlsSetValue(Store, t, kyNum[k], <<t, k>>))
                 /\ kyLast' = [kyLast EXCEPT ![t][k] = <<t, k>>]
    BY <1>8 DEF Destructor
  <2>2. k \in PKeys
    <3>1. kyKeys[t] \in Seq(PKeys)
      BY DEF KyGood, KyTypeOK
    <3> QED BY <2>1, <3>1, ElementOf DEF Contains
  <2>3. PICK v \in KValues : v = <<t, k>>
    BY <2>2 DEF KValues
  <2>4. Stored(c, t, kyNum[k], v)
    <3>1. kyNum[k] \in 1..Width(c)
      BY <2>1, <2>2 DEF KyGood, KyNumbers
    <3> QED BY <2>1, <2>3, <3>1, StoreSet DEF KyGood
  <2>5. /\ kyLast' \in [PThreads -> [PKeys -> KValues]]
        /\ \A u \in PThreads, j \in PKeys : kyLast'[u][j] = IF u = t /\ j = k THEN v ELSE kyLast[u][j]
    <3>1. kyLast \in [PThreads -> [PKeys -> KValues]]
      BY DEF KyGood, KyTypeOK
    <3>2. [kyLast[t] EXCEPT ![k] = v] \in [PKeys -> KValues]
      BY <2>2, <3>1
    <3>3. kyLast' = [kyLast EXCEPT ![t] = [kyLast[t] EXCEPT ![k] = v]]
      BY <2>1, <2>3
    <3> QED BY <2>2, <3>1, <3>2, <3>3
  <2>6. KyTypeOK'
    BY <1>1, <1>2, <1>4, <2>4, <2>5 DEF Stored, Goto, KyGood, KyTypeOK, KyExiting
  <2>7. KyNumbers(c)'
    BY <1>2, <2>4, StoredNumbers DEF KyGood
  <2>8. KyReads'
    <3>1. k \in Made
      BY <2>1, <2>2 DEF Made
    <3>2. \A u \in PThreads, j \in PKeys \ Made : kyLast'[u][j] = kyLast[u][j]
      BY <2>5, <3>1
    <3>3. \A u \in PThreads \ {OsThread}, j \in PKeys :
            kyLast'[u][j] = IF u = t /\ j = k THEN v ELSE kyLast[u][j]
      BY <2>5
    <3>4. KyTypeOK /\ KyNumbers(c) /\ KyReads /\ kyNum' = kyNum /\ kyGone' = kyGone
      BY <1>2 DEF KyGood
    <3> QED BY <2>1, <2>2, <2>4, <3>2, <3>3, <3>4, StoredReads
  <2>9. KyEnds'
    <3>1. ASSUME NEW s \in PThreads, NEW j \in kyDtor, Live(j), ~Deleting(j), kyLast'[s][j] # NULL
          PROVE  Contains(kyKeys[s], j)
      <4>1. j \in PKeys
        BY DEF KyGood, KyTypeOK
      <4> QED BY <2>1, <2>5, <3>1, <4>1 DEF KyGood, KyEnds
    <3>2. kyRound[t].remaining > 0 /\ ~(kyRound[t].remaining = 0)
      BY <1>1 DEF KyGood, KyEnds
    <3> QED BY <1>2, <1>3, <1>6, <3>1, <3>2 DEF KyGood, KyEnds, Live
  <2> QED BY <1>5, <2>6, <2>7, <2>8, <2>9 DEF KyGood
<1> QED BY <1>7, <1>8

-----------------------------------------------------------------------------
(* Calls *)

\* pthread_setspecific begins.
LEMMA SetSpecificKept ==
  ASSUME KeysAssumption, NEW c \in PThreads, KyGood(c), NEW t \in PThreads, NEW k \in PKeys,
         NEW v \in {NULL, <<t, k>>}, pthread_setspecific(t, k, v)
  PROVE  KyGood(c)'
<1> USE DEF kyStore, kyExit
<1>1. PICK s \in {"ky_lock", "ky_set"} :
        /\ Enter(t, "set", s)
        /\ s = "ky_lock" <=> k \in kyDtor /\ v # NULL
  BY DEF pthread_setspecific
<1>2. /\ Live(k) /\ ~Deleting(k)
      /\ kyArg' = [kyArg EXCEPT ![t] = [key |-> k, value |-> v]]
      /\ kyNum' = kyNum /\ kyDtor' = kyDtor /\ kyGone' = kyGone /\ kyTree' = kyTree /\ kyVal' = kyVal
      /\ kyKeys' = kyKeys /\ kyNext' = kyNext /\ kyRound' = kyRound /\ kyLast' = kyLast
  BY DEF pthread_setspecific
<1>3. v \in KValues
  BY DEF KValues
<1>4. pc[t] = "idle" /\ op[t] = "none"
  BY <1>1 DEF Enter, KyGood, KyTypeOK, KyPhases, KySetting, KyDeleting, KyExiting
<1>5. \A u \in PThreads : /\ pc'[u] = IF u = t THEN s ELSE pc[u]
                          /\ op'[u] = IF u = t THEN "set" ELSE op[u]
                          /\ kyArg'[u] = IF u = t THEN [key |-> k, value |-> v] ELSE kyArg[u]
  BY <1>1, <1>2 DEF Enter, KyGood, KyTypeOK
<1>6. KyTypeOK' /\ KyPhases'
  <2>1. /\ pc' \in [PThreads -> {"idle"} \cup KySetting \cup KyDeleting \cup KyExiting]
        /\ op' \in [PThreads -> {"none", "set", "delete", "exit"}]
        /\ KyPhases'
    <3>1. pc' = [pc EXCEPT ![t] = s] /\ op' = [op EXCEPT ![t] = "set"]
      BY <1>1 DEF Enter
    <3>2. KyTypeOK /\ KyPhases
      BY DEF KyGood
    <3> QED BY <3>1, <3>2, Moved DEF KySetting, KyDeleting, KyExiting
  <2>2. kyArg' \in [PThreads -> [key : PKeys \cup {NoPKey}, value : KValues]]
    BY <1>2, <1>3 DEF KyGood, KyTypeOK
  <2> QED BY <1>2, <2>1, <2>2 DEF KyGood, KyTypeOK
<1>7. KyNumbers(c)' /\ KyReads' /\ KyChains'
  BY <1>2, SameNumbers, SameReads, SameChains DEF KyGood
<1>8. \A j : Deleting(j)' <=> Deleting(j)
  BY <1>4, <1>5 DEF Deleting
<1>9. KyCalls'
  <2>1. \A u \in PThreads : op[u] = "delete" => kyArg[u].key # k
    BY <1>2 DEF Deleting
  <2> QED BY <1>1, <1>2, <1>5, <2>1 DEF KyGood, KyCalls, Live
<1>10. KyEnds'
  BY <1>2, <1>5, <1>8 DEF KyGood, KyEnds, Live
<1> QED BY <1>6, <1>7, <1>9, <1>10 DEF KyGood

\* pthread_getspecific adds a node.
LEMMA GetSpecificKept ==
  ASSUME KeysAssumption, NEW c \in PThreads, KyGood(c), NEW t \in PThreads, NEW k \in PKeys,
         pthread_getspecific(t, k)
  PROVE  KyGood(c)'
<1> USE DEF kyStore, kyExit
<1>1. /\ Live(k) /\ ~Contains(kyTree[t], kyNum[k]) /\ SetStore(AfterGet(Store, t, kyNum[k]))
      /\ kyArg' = kyArg /\ kyNum' = kyNum /\ kyDtor' = kyDtor /\ kyGone' = kyGone
      /\ kyKeys' = kyKeys /\ kyNext' = kyNext /\ kyRound' = kyRound /\ kyLast' = kyLast
  BY DEF pthread_getspecific, tls_has_key, Store
<1>2. pc' = pc /\ op' = op
  BY DEF pthread_getspecific, Enter, KyGood, KyTypeOK
<1>3. Stored(c, t, kyNum[k], NULL)
  <2>1. kyNum[k] \in 1..Width(c)
    BY <1>1 DEF KyGood, KyNumbers
  <2> QED BY <1>1, <2>1, StoreGet DEF KyGood
<1>4. KyTypeOK' /\ KyPhases'
  <2>1. KyTypeOK'
    BY <1>1, <1>2, <1>3 DEF Stored, KyGood, KyTypeOK
  <2>2. KyPhases'
    BY <1>1, <1>2, <1>3 DEF Stored, KyGood, KyTypeOK, KyPhases
  <2> QED BY <2>1, <2>2
<1>5. KyNumbers(c)'
  BY <1>1, <1>3, StoredNumbers DEF KyGood
<1>6. KyReads'
  <2>1. \A u \in PThreads \ {OsThread}, j \in PKeys :
          kyLast'[u][j] = IF u = t /\ j = k THEN NULL ELSE kyLast[u][j]
    BY <1>1 DEF KyGood, KyReads, ReadsOwn, pte_osTlsGetValue, tls_has_key, Store
  <2>2. KyTypeOK /\ KyNumbers(c) /\ KyReads /\ kyNum' = kyNum /\ kyGone' = kyGone
    BY <1>1 DEF KyGood
  <2>3. \A u \in PThreads, j \in PKeys \ Made : kyLast'[u][j] = kyLast[u][j]
    BY <1>1
  <2> QED BY <1>1, <1>3, <2>1, <2>2, <2>3, StoredReads
<1>7. KyChains'
  BY <1>1, SameChains DEF KyGood
<1>8. KyCalls'
  BY <1>1, <1>2 DEF KyGood, KyCalls, Live
<1>9. KyEnds'
  BY <1>1, <1>2 DEF KyGood, KyEnds, Live, Deleting
<1> QED BY <1>4, <1>5, <1>6, <1>7, <1>8, <1>9 DEF KyGood

\* pthread_key_delete begins.
LEMMA KeyDeleteKept ==
  ASSUME KeysAssumption, NEW c \in PThreads, KyGood(c), NEW t \in PThreads, NEW k \in PKeys,
         pthread_key_delete(t, k)
  PROVE  KyGood(c)'
<1> USE DEF kyStore, kyExit
<1>1. PICK s \in {"ky_lock_delete", "ky_free"} :
        /\ Enter(t, "delete", s)
        /\ s = "ky_lock_delete" <=> k \in kyDtor /\ Associated(k) # {}
  BY DEF pthread_key_delete
<1>2. /\ Live(k) /\ ~Deleting(k) /\ \A u \in PThreads : op[u] = "set" => kyArg[u].key # k
      /\ kyArg' = [kyArg EXCEPT ![t] = [key |-> k, value |-> NULL]]
      /\ kyNum' = kyNum /\ kyDtor' = kyDtor /\ kyGone' = kyGone /\ kyTree' = kyTree /\ kyVal' = kyVal
      /\ kyKeys' = kyKeys /\ kyNext' = kyNext /\ kyRound' = kyRound /\ kyLast' = kyLast
  BY DEF pthread_key_delete
<1>3. NULL \in KValues
  BY DEF KValues
<1>4. pc[t] = "idle" /\ op[t] = "none"
  BY <1>1 DEF Enter, KyGood, KyTypeOK, KyPhases, KySetting, KyDeleting, KyExiting
<1>5. \A u \in PThreads : /\ pc'[u] = IF u = t THEN s ELSE pc[u]
                          /\ op'[u] = IF u = t THEN "delete" ELSE op[u]
                          /\ kyArg'[u] = IF u = t THEN [key |-> k, value |-> NULL] ELSE kyArg[u]
  BY <1>1, <1>2 DEF Enter, KyGood, KyTypeOK
<1>6. KyTypeOK' /\ KyPhases'
  <2>1. /\ pc' \in [PThreads -> {"idle"} \cup KySetting \cup KyDeleting \cup KyExiting]
        /\ op' \in [PThreads -> {"none", "set", "delete", "exit"}]
        /\ KyPhases'
    <3>1. pc' = [pc EXCEPT ![t] = s] /\ op' = [op EXCEPT ![t] = "delete"]
      BY <1>1 DEF Enter
    <3>2. KyTypeOK /\ KyPhases
      BY DEF KyGood
    <3> QED BY <3>1, <3>2, Moved DEF KySetting, KyDeleting, KyExiting
  <2>2. kyArg' \in [PThreads -> [key : PKeys \cup {NoPKey}, value : KValues]]
    BY <1>2, <1>3 DEF KyGood, KyTypeOK
  <2> QED BY <1>2, <2>1, <2>2 DEF KyGood, KyTypeOK
<1>7. KyNumbers(c)' /\ KyReads' /\ KyChains'
  BY <1>2, SameNumbers, SameReads, SameChains DEF KyGood
<1>8. \A j : Deleting(j) => Deleting(j)'
  BY <1>4, <1>5 DEF Deleting
<1>9. s = "ky_free" => \A u \in PThreads : ~Contains(kyKeys[u], k)
  BY <1>1 DEF Associated, KyGood, KyChains
<1>10. KyCalls'
  <2>1. \A u \in PThreads : op[u] \in {"set", "delete"} => kyArg[u].key # k
    BY <1>2 DEF Deleting
  <2>2. \A u, w \in PThreads :
          op'[u] = "delete" /\ op'[w] \in {"set", "delete"} /\ kyArg'[u].key = kyArg'[w].key => u = w
    BY <1>5, <2>1 DEF KyGood, KyCalls
  <2>3. \A u \in PThreads : op'[u] \in {"set", "delete"} => kyArg'[u].key \in PKeys /\ kyNum[kyArg'[u].key] # 0
    BY <1>2, <1>5 DEF KyGood, KyCalls, Live
  <2>4. \A u, w \in PThreads : pc'[u] = "ky_free" => ~Contains(kyKeys[w], kyArg'[u].key)
    BY <1>5, <1>9 DEF KyGood, KyCalls
  <2>5. \A u \in PThreads :
          /\ pc'[u] \in {"ky_lock", "ky_assoc"} => kyArg'[u].key \in kyDtor
          /\ pc'[u] = "ky_set" /\ kyArg'[u].value # NULL /\ kyArg'[u].key \in kyDtor
               => Contains(kyKeys[u], kyArg'[u].key)
    BY <1>5 DEF KyGood, KyCalls
  <2> QED BY <1>2, <2>2, <2>3, <2>4, <2>5 DEF KyCalls, Live
<1>11. KyEnds'
  BY <1>2, <1>5, <1>8 DEF KyGood, KyEnds, Live
<1> QED BY <1>6, <1>7, <1>10, <1>11 DEF KyGood

\* A key is made and numbered.
LEMMA KeyCreateKept ==
  ASSUME KeysAssumption, NEW c \in PThreads, KeyCreators = {c}, KyGood(c), NEW t \in PThreads,
         NEW k \in PKeys, NEW dtor \in BOOLEAN, pthread_key_create(t, k, dtor)
  PROVE  KyGood(c)'
<1> USE DEF kyStore, kyExit
<1>1. PICK n : n = tls_count(Store, c) + 1
  OBVIOUS
<1>2. /\ t = c /\ ~Live(k) /\ k \notin kyGone
      /\ kyNum' = [kyNum EXCEPT ![k] = n] /\ SetStore(pte_osTlsAlloc(c, n))
      /\ kyDtor \subseteq kyDtor' /\ kyDtor' \subseteq kyDtor \cup {k}
      /\ kyArg' = kyArg /\ kyGone' = kyGone /\ kyKeys' = kyKeys /\ kyNext' = kyNext
      /\ kyRound' = kyRound /\ kyLast' = kyLast
  BY <1>1 DEF pthread_key_create
<1>3. pc' = pc /\ op' = op
  BY DEF pthread_key_create, Enter, KyGood, KyTypeOK
<1>4. k \in PKeys \ Made
  BY <1>2 DEF Made
<1>5. n = Width(c) + 1 /\ Width(c) \in Nat /\ n \in Numbers /\ Width(c) <= Cardinality(Made) + 2
  <2>1. KyTypeOK /\ KyNumbers(c)
    BY DEF KyGood
  <2>2. n = Width(c) + 1
    BY <1>1 DEF tls_count, Store, Width
  <2>3. /\ Cardinality(PKeys) \in Nat /\ Cardinality(Made) \in Nat /\ Width(c) \in Nat
        /\ Cardinality(Made) < Cardinality(PKeys) /\ Numbers = 1..(Cardinality(PKeys) + 2)
    BY <1>4, <2>1, NumbersHold
  <2>4. Width(c) <= Cardinality(Made) + 2
    BY <2>1 DEF KyNumbers
  <2> QED BY <2>2, <2>3, <2>4
<1>6. /\ DOMAIN kyTree' = PThreads
      /\ kyTree'[c] = Append(kyTree[c], n)
      /\ \A u \in PThreads \ {OsThread, c} : kyTree'[u] = kyTree[u]
      /\ kyVal' \in [PThreads -> [Numbers -> KValues]] /\ kyVal'[c][n] = NULL
      /\ \A u \in PThreads \ {OsThread}, m \in Numbers \ {n} : kyVal'[u][m] = kyVal[u][m]
  BY <1>1, <1>2, <1>5, StoreNew DEF KyGood
<1>7. \A j \in PKeys : (Live(j)' <=> Live(j) \/ j = k) /\ kyNum'[j] = IF j = k THEN n ELSE kyNum[j]
  BY <1>2, <1>5 DEF Live, KyGood, KyTypeOK
<1>8. Made' = Made \cup {k} /\ Cardinality(Made') = Cardinality(Made) + 1 /\ Cardinality(Made) \in Nat
  <2>1. Made' = Made \cup {k}
    BY <1>2, <1>7 DEF Made
  <2> QED BY <1>4, <2>1, NumbersHold DEF KyGood
<1>9. /\ Width(c)' = n /\ kyTree'[c] \in Seq(1..n)
      /\ \A m : Contains(kyTree'[c], m) <=> Contains(kyTree[c], m) \/ m = n
  <2>1. PICK S : S = 1..n
    OBVIOUS
  <2>2. PICK q \in Seq(S) : q = kyTree[c]
    <3>1. kyTree[c] \in Seq(1..Width(c)) /\ 1..Width(c) \subseteq S
      BY <1>5, <2>1 DEF KyGood, KyNumbers
    <3> QED BY <3>1, Wider
  <2>3. n \in S
    BY <1>5, <2>1
  <2>4. Append(q, n) \in Seq(S) /\ Len(Append(q, n)) = Len(q) + 1
        /\ \A m : Contains(Append(q, n), m) <=> Contains(q, m) \/ m = n
    BY <2>2, <2>3, Appended, AppendOne
  <2> QED BY <1>5, <1>6, <2>1, <2>2, <2>4 DEF Width
<1>10. KyTypeOK' /\ KyPhases'
  <2>1. n \in Nat
    BY <1>5
  <2> QED BY <1>2, <1>3, <1>6, <2>1 DEF KyGood, KyTypeOK, KyPhases
<1>11. KyNumbers(c)'
  <2>1. Width(c)' <= Cardinality(Made)' + 2
    BY <1>5, <1>8, <1>9
  <2>2. \A m \in 1..n : Contains(kyTree'[c], m)
    <3>1. \A m \in 1..n : m = n \/ m \in 1..Width(c)
      BY <1>5
    <3> QED BY <1>9, <3>1 DEF KyGood, KyNumbers
  <2>3. ASSUME NEW u \in PThreads \ {OsThread} PROVE kyTree'[u] \in Seq(1..n)
    <3>1. CASE u = c
      BY <1>9, <3>1
    <3>2. CASE u # c
      <4>1. kyTree'[u] \in Seq(1..Width(c))
        <5>1. kyTree[u] \in Seq(1..Width(c))
          BY DEF KyGood, KyNumbers
        <5> QED BY <1>6, <3>2, <5>1
      <4>2. 1..Width(c) \subseteq 1..n
        BY <1>5
      <4> QED BY <4>1, <4>2, Wider
    <3> QED BY <3>1, <3>2
  <2>4. \A j \in PKeys : Live(j) => kyNum[j] \in 1..Width(c) /\ kyNum[j] \in 1..n /\ kyNum[j] # n
    BY <1>5 DEF KyGood, KyNumbers
  <2>5. \A j \in PKeys : Live(j)' => kyNum'[j] \in 1..n
    BY <1>5, <1>7, <2>4
  <2>6. \A i, j \in PKeys : Live(i)' /\ Live(j)' /\ kyNum'[i] = kyNum'[j] => i = j
    BY <1>7, <2>4 DEF KyGood, KyNumbers
  <2>7. \A j \in kyGone : ~Live(j)'
    BY <1>2, <1>7 DEF KyGood, KyNumbers, KyTypeOK
  <2> QED BY <1>2, <1>9, <2>1, <2>2, <2>3, <2>5, <2>6, <2>7 DEF KyNumbers
<1>12. KyReads'
  <2>1. ASSUME NEW u \in PThreads \ {OsThread}, NEW j \in PKeys, Live(j)'
        PROVE  (IF Contains(kyTree'[u], kyNum'[j]) THEN kyVal'[u][kyNum'[j]] ELSE NULL) = kyLast[u][j]
    <3>1. CASE j = k
      <4>1. kyNum'[j] = n /\ kyLast[u][j] = NULL
        BY <1>4, <1>7, <3>1 DEF KyGood, KyReads
      <4>2. CASE u = c
        BY <1>6, <4>1, <4>2
      <4>3. CASE u # c
        <5>1. kyTree[u] \in Seq(1..Width(c)) /\ kyTree'[u] = kyTree[u]
          BY <1>6, <4>3 DEF KyGood, KyNumbers
        <5>2. n \notin 1..Width(c)
          BY <1>5
        <5>3. \A i \in 1..Len(kyTree[u]) : kyTree[u][i] \in 1..Width(c)
          BY <5>1, ElementOf
        <5>4. ~Contains(kyTree'[u], n)
          BY <5>1, <5>2, <5>3 DEF Contains
        <5> QED BY <4>1, <5>4
      <4> QED BY <4>2, <4>3
    <3>2. CASE j # k
      <4>1. Live(j) /\ kyNum'[j] = kyNum[j] /\ kyNum[j] \in 1..Width(c)
        BY <1>7, <2>1, <3>2 DEF KyGood, KyNumbers
      <4>2. kyNum[j] # n /\ kyNum[j] \in Numbers
        BY <1>5, <4>1, NumbersHold DEF KyGood
      <4>3. (IF Contains(kyTree[u], kyNum[j]) THEN kyVal[u][kyNum[j]] ELSE NULL) = kyLast[u][j]
        BY <4>1 DEF KyGood, KyReads, ReadsOwn, pte_osTlsGetValue, tls_has_key, Store
      <4>4. Contains(kyTree'[u], kyNum[j]) <=> Contains(kyTree[u], kyNum[j])
        BY <1>6, <1>9, <4>2
      <4>5. kyVal'[u][kyNum[j]] = kyVal[u][kyNum[j]]
        BY <1>6, <4>2
      <4> QED BY <4>1, <4>3, <4>4, <4>5
    <3> QED BY <3>1, <3>2
  <2>2. \A u \in PThreads, j \in PKeys \ Made' : kyLast'[u][j] = NULL
    BY <1>2, <1>8 DEF KyGood, KyReads
  <2> QED BY <1>2, <2>1, <2>2 DEF KyReads, ReadsOwn, Live, pte_osTlsGetValue, tls_has_key, Store
<1>13. KyChains'
  BY <1>2, <1>7 DEF KyGood, KyChains
<1>14. KyCalls'
  <2>1. \A u \in PThreads : op[u] \in {"set", "delete"} => kyArg[u].key # k
    BY <1>2 DEF KyGood, KyCalls
  <2>2. \A u \in PThreads : pc[u] = "ky_set" => op[u] = "set"
    BY DEF KyGood, KyPhases, KySetting
  <2>3. \A u \in PThreads : op[u] \in {"set", "delete"} => kyArg[u].key \in PKeys /\ Live(kyArg[u].key)
    BY DEF KyGood, KyCalls
  <2>4. \A u \in PThreads : op[u] \in {"set", "delete"} => kyNum'[kyArg[u].key] # 0
    BY <1>7, <2>1, <2>3 DEF Live
  <2> QED BY <1>2, <1>3, <2>1, <2>2, <2>3, <2>4 DEF KyGood, KyCalls, Live
<1>15. KyEnds'
  <2>1. \A j : Deleting(j)' <=> Deleting(j)
    BY <1>2, <1>3 DEF Deleting
  <2>2. \A u \in PThreads : kyLast[u][k] = NULL
    BY <1>4 DEF KyGood, KyReads
  <2>3. \A u \in PThreads, j \in kyDtor' :
          Live(j)' /\ ~Deleting(j)' /\ kyLast'[u][j] # NULL => Contains(kyKeys'[u], j)
    <3>1. \A j \in kyDtor : j \in PKeys
      BY DEF KyGood, KyTypeOK
    <3> QED BY <1>2, <1>7, <2>1, <2>2, <3>1 DEF KyGood, KyEnds
  <2> QED BY <1>2, <1>3, <2>3 DEF KyGood, KyEnds
<1> QED BY <1>10, <1>11, <1>12, <1>13, <1>14, <1>15 DEF KyGood

-----------------------------------------------------------------------------

\* The invariant holds at first.
LEMMA KeysInvInit ==
  ASSUME KeysAssumption, NEW c \in PThreads, Init
  PROVE  KeysInv(c)
<1> SUFFICES ASSUME component = "keys" PROVE KyGood(c)
  BY DEF KeysInv
<1> USE DEF Init, KyVarsInit, CommonInit
<1>1. NULL \in KValues /\ \A k \in PKeys : ~Live(k)
  BY DEF KValues, Live
<1>2. Made = {} /\ Cardinality(Made) = 0
  BY <1>1, FS_EmptySet DEF Made
<1>3. KyTypeOK
  BY <1>1 DEF KyTypeOK
<1>4. KyPhases /\ KyCalls
  BY DEF KyPhases, KySetting, KyDeleting, KyExiting, KyCalls
<1>5. KyNumbers(c)
  <2>1. PICK w \in {1, 2} : Len(kyTree[c]) = w /\ kyTree[c] \in Seq(1..w) /\ \A n \in 1..w : kyTree[c][n] = n
    <3>1. CASE c = OsThread
      <4>1. kyTree[c] = <<1, 2>>
        BY <3>1
      <4>2. /\ Len(<<1, 2>>) = 2 /\ <<1, 2>> \in Seq(1..2) /\ <<1, 2>>[1] = 1 /\ <<1, 2>>[2] = 2
            /\ \A n \in 1..2 : n = 1 \/ n = 2
        OBVIOUS
      <4>3. \A n \in 1..2 : <<1, 2>>[n] = n
        BY <4>2
      <4> QED BY <4>1, <4>2, <4>3
    <3>2. CASE c # OsThread
      <4>1. kyTree[c] = <<1>>
        BY <3>2
      <4>2. Len(<<1>>) = 1 /\ <<1>> \in Seq(1..1) /\ \A n \in 1..1 : <<1>>[n] = n
        OBVIOUS
      <4> QED BY <4>1, <4>2
    <3> QED BY <3>1, <3>2
  <2>2. \A n \in 1..w : Contains(kyTree[c], n)
    BY <2>1 DEF Contains
  <2>3. \A t \in PThreads \ {OsThread} : kyTree[t] \in Seq(1..w)
    <3>1. 1 \in 1..w
      BY <2>1
    <3> QED BY <3>1
  <2> QED BY <1>1, <1>2, <2>1, <2>2, <2>3 DEF KyNumbers, Width
<1>6. KyReads
  BY <1>1 DEF KyReads, ReadsOwn
<1>7. KyChains
  BY DEF KyChains, Distinct, Contains
<1>8. KyEnds
  BY <1>1 DEF KyEnds
<1> QED BY <1>3, <1>4, <1>5, <1>6, <1>7, <1>8 DEF KyGood

\* Every step of a behaviour about keys keeps it.
LEMMA KeysStepKept ==
  ASSUME KeysAssumption, NEW c \in PThreads, KeyCreators = {c}, KyGood(c), KeysNext
  PROVE  KyGood(c)' /\ component' = component
<1>1. PICK t \in PThreads :
        \/ CallUserDestroyRoutines(t)
        \/ \E k \in PKeys :
             \/ \E dtor \in BOOLEAN : pthread_key_create(t, k, dtor)
             \/ \E v \in {NULL, <<t, k>>} : pthread_setspecific(t, k, v)
             \/ pthread_getspecific(t, k) \/ pthread_key_delete(t, k)
        \/ KeysStep(t)
  BY DEF KeysNext
<1>2. CASE CallUserDestroyRoutines(t)
  BY <1>2, CallUserKept DEF CallUserDestroyRoutines, EnterFree
<1>3. CASE \E k \in PKeys : \E dtor \in BOOLEAN : pthread_key_create(t, k, dtor)
  BY <1>3, KeyCreateKept DEF pthread_key_create, Enter
<1>4. CASE \E k \in PKeys : \E v \in {NULL, <<t, k>>} : pthread_setspecific(t, k, v)
  BY <1>4, SetSpecificKept DEF pthread_setspecific, Enter
<1>5. CASE \E k \in PKeys : pthread_getspecific(t, k)
  BY <1>5, GetSpecificKept DEF pthread_getspecific, Enter
<1>6. CASE \E k \in PKeys : pthread_key_delete(t, k)
  BY <1>6, KeyDeleteKept DEF pthread_key_delete, Enter
<1>7. CASE LockKey(t)
  BY <1>7, LockKeyKept DEF LockKey, Goto
<1>8. CASE pte_tkAssocCreate(t)
  BY <1>8, AssocCreateKept DEF pte_tkAssocCreate, Goto
<1>9. CASE SetValue(t)
  BY <1>9, SetValueKept DEF SetValue, Return, Goto
<1>10. CASE LockDelete(t)
  BY <1>10, LockDeleteKept DEF LockDelete, Goto
<1>11. CASE DeleteAssoc(t)
  BY <1>11, DeleteAssocKept DEF DeleteAssoc, Goto, commonVars
<1>12. CASE FreeKey(t)
  BY <1>12, FreeKeyKept DEF FreeKey, Return, Goto
<1>13. CASE NextRound(t)
  BY <1>13, NextRoundKept DEF NextRound, Goto
<1>14. CASE EndOfChain(t)
  BY <1>14, EndOfChainKept DEF EndOfChain, Goto
<1>15. CASE NextAssoc(t)
  BY <1>15, NextAssocKept DEF NextAssoc, Goto, commonVars
<1>16. CASE Destructor(t)
  BY <1>16, DestructorKept DEF Destructor, Goto
<1> QED BY <1>1, <1>2, <1>3, <1>4, <1>5, <1>6, <1>7, <1>8, <1>9, <1>10, <1>11, <1>12, <1>13, <1>14,
           <1>15, <1>16 DEF KeysStep

\* And so does every step.
LEMMA KeysInvKept ==
  ASSUME KeysAssumption, NEW c \in PThreads, KeyCreators = {c}, KeysInv(c), [Next]_vars
  PROVE  KeysInv(c)'
<1>1. CASE component = "keys" /\ KeysNext
  BY <1>1, KeysStepKept DEF KeysInv
<1>2. CASE component = "thread" /\ ThreadNext
  BY <1>2, KeepsComponent DEF KeysInv
<1>3. CASE UNCHANGED vars
  <2>1. UNCHANGED commonVars /\ UNCHANGED kyVars
    BY <1>3 DEF vars
  <2> SUFFICES ASSUME component = "keys" PROVE KyGood(c)'
    BY <2>1 DEF KeysInv, commonVars
  <2>2. KyGood(c)
    BY DEF KeysInv
  <2> USE <2>1, <2>2 DEF kyVars, kyStore, kyExit, commonVars
  <2>3. KyTypeOK' /\ KyPhases'
    BY DEF KyGood, KyTypeOK, KyPhases
  <2>4. KyNumbers(c)' /\ KyReads' /\ KyChains'
    BY SameNumbers, SameReads, SameChains DEF KyGood
  <2>5. KyCalls'
    BY DEF KyGood, KyCalls, Live
  <2>6. KyEnds'
    BY DEF KyGood, KyEnds, Live, Deleting
  <2> QED BY <2>3, <2>4, <2>5, <2>6 DEF KyGood
<1> QED BY <1>1, <1>2, <1>3 DEF Next

\* KeysAreOwn (posix/pthread_key_*.c, pthread_setspecific.c, pte_callUserDestroyRoutines.c,
\* platform/tls.c): a pthread reads what it stored under a key; no association, nor the
\* cursor of an exiting thread, outlives its key; and a thread ends with no value left to
\* destroy, when one thread creates the keys.
THEOREM KeysAlwaysOwn == ASSUME NEW c \in PThreads, KeyCreators = {c} PROVE Spec => []KeysAreOwn
<1>1. KeysInv(c) => KeysAreOwn
  <2> SUFFICES ASSUME component = "keys", KyGood(c)
               PROVE  /\ \A t \in PThreads \ {OsThread} : ReadsOwn(t)
                      /\ \A t \in PThreads, k \in PKeys :
                           Contains(kyKeys[t], k) \/ Contains(kyNext[t], k) => Live(k)
                      /\ \A t \in PThreads : pc[t] = "exited" =>
                           kyKeys[t] = << >> /\ \A k \in kyDtor : Live(k) /\ ~Deleting(k) => kyLast[t][k] = NULL
    BY DEF KeysInv, KeysAreOwn
  <2>1. \A t \in PThreads : pc[t] = "exited" => \A k : ~Contains(kyKeys[t], k)
    BY DEF KyGood, KyEnds, Contains
  <2> QED BY <2>1 DEF KyGood, KyReads, KyChains, KyEnds
<1>2. Init => KeysInv(c)
  BY KeysInvInit, KeysAssumption
<1>3. KeysInv(c) /\ [Next]_vars => KeysInv(c)'
  BY KeysInvKept, KeysAssumption
<1> QED BY <1>1, <1>2, <1>3, PTL DEF Spec
=============================================================================
