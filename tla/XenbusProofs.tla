---------------------------- MODULE XenbusProofs ----------------------------
(***************************************************************************)
(* Proofs about the xenbus driver (Xenbus), for any number of clients, ids, *)
(* slots and paths, and for every workload.                                *)
(*                                                                         *)
(* One inductive invariant, XenbusInv, relates the three places a message  *)
(* can be in (the request ring, the store, the response ring) to the client *)
(* that waits for its answer, and the events on their way to the watch to  *)
(* what the store still believes about it.  The operations are taken in    *)
(* the order of Next; each lemma named ...Kept is one of them.             *)
(***************************************************************************)
EXTENDS Xenbus, TLAPS, FiniteSetTheorems, WellFoundedInduction

\* Where a client is that has no id yet, and where it is while it has one.
AskSteps == {"alloc", "wait", "wait_block", "wait_check", "wait_preempted", "wait_sched",
             "wait_done"}
QueueSteps == {"wait_block", "wait_check", "wait_preempted", "wait_sched", "wait_done"}
SendSteps == {"xb_write", "xb_wait", "xb_write_waited"}
HoldSteps == {"xb_write", "xb_wait", "xb_write_waited", "sent"}
Steps == AskSteps \cup HoldSteps \cup {"idle", "watch", "unwatch", "read_watch", "drain"}

Ops == {"read", "watch", "unwatch"}
Replies == [client : Threads, number : Nat, ok : BOOLEAN]
Calleds == [op : Ops \cup {"none", "read_watch"}, number : Nat, id : Ids, rep : Replies]
Infos == [in_use : BOOLEAN, waitq : SUBSET Clients, reply : Replies]
Requests == [id : Ids, client : Clients, number : Nat, op : Ops]
Messages ==
  [id : Ids, client : Threads, number : Nat, op : Ops \cup {"event"}, len : Nat,
   ok : BOOLEAN]
Responses == [msgs : Seq(Messages), rsp_prod : Nat, rsp_cons : Nat, rest : Nat]
TheWatch ==
  [listed : BOOLEAN, thread : {Watcher, XenbusThread}, prod : Nat, cons : Nat,
   paths : [0..(MAX_PATHS - 1) -> Nat]]
Stores == [reqs : SUBSET Requests, watching : BOOLEAN, sent : Nat,
           asleep : BOOLEAN]

XTypeOK ==
  /\ pc \in [Threads -> Steps] /\ runnable \in SUBSET Threads
  /\ waitq \in [{"xb_waitq", "req_wq"} -> SUBSET Threads]
  /\ req_info \in [Ids -> Infos] /\ nr_live_reqs \in Nat /\ probe \in Ids
  /\ call \in [Clients -> Calleds]
  /\ req \in Seq(Requests) /\ rsp \in Responses /\ prod \in Nat /\ event \in BOOLEAN
  /\ watch \in TheWatch /\ read \in Seq(Nat) /\ store \in Stores
  /\ workload \in Workloads
  /\ halt \in {"none", "block", "ring_wait", "ring"}

\* Which call a client is in, by its next step; only the watcher watches, and only
\* clients without an id wait for one.
XSteps ==
  /\ \A t \in Clients :
       /\ pc[t] # "drain"
       /\ call[t].op \in {"watch", "unwatch", "read_watch"} => t = Watcher
       /\ pc[t] \in AskSteps \cup HoldSteps => call[t].op \in Ops
       /\ pc[t] \in {"watch", "unwatch"} => call[t].op = pc[t]
       /\ pc[t] = "read_watch" => t = Watcher
       /\ t \in waitq["req_wq"] => pc[t] \in QueueSteps
  /\ waitq["xb_waitq"] \subseteq {XenbusThread}

\* Every id in use has one holder, who is alone on its wait queue.
Holders == {t \in Clients : pc[t] \in HoldSteps}
Used == {i \in Ids : req_info[i].in_use}
XIds ==
  /\ \A t \in Holders : req_info[call[t].id].in_use /\ req_info[call[t].id].waitq = {t}
  /\ \A t, u \in Holders : call[t].id = call[u].id => t = u
  /\ \A i \in Used : \E t \in Holders : call[t].id = i
  /\ IsFiniteSet(Holders) /\ Cardinality(Holders) = nr_live_reqs
  /\ Cardinality(Used) = nr_live_reqs

\* A message under way is that of a client that sleeps until its reply.
Mine(m) ==
  LET t == m.client IN
  /\ t \in Clients /\ pc[t] = "sent" /\ t \notin runnable
  /\ m.id = call[t].id /\ m.number = call[t].number /\ m.op = call[t].op
IsReply(i) == rsp.msgs[i].op # "event"

\* No client has two messages under way, so a client that is woken has its reply.
XMail ==
  /\ \A i \in 1..Len(req) : Mine(req[i])
  /\ \A m \in store.reqs : Mine(m)
  /\ \A i \in 1..Len(rsp.msgs) : IsReply(i) => Mine(rsp.msgs[i])
  /\ \A i, j \in 1..Len(req) : req[i].client = req[j].client => i = j
  /\ \A i \in 1..Len(req) : \A m \in store.reqs : req[i].client # m.client
  /\ \A i \in 1..Len(rsp.msgs) : IsReply(i) =>
       /\ \A j \in 1..Len(req) : rsp.msgs[i].client # req[j].client
       /\ \A m \in store.reqs : rsp.msgs[i].client # m.client
       /\ \A j \in 1..Len(rsp.msgs) :
            IsReply(j) /\ rsp.msgs[i].client = rsp.msgs[j].client => i = j
  /\ \A t \in Holders : t \in runnable =>
       LET r == req_info[call[t].id].reply IN
       /\ pc[t] = "sent"
       /\ r.client = t /\ r.number = call[t].number
  /\ ReplyIsMine

\* The store is yet to see the watcher's request to watch.
IsEvent(i) == rsp.msgs[i].op = "event"
Unanswered ==
  /\ call[Watcher].op = "watch"
  /\ \/ pc[Watcher] \in AskSteps \cup SendSteps
     \/ \E i \in 1..Len(req) : req[i].client = Watcher
     \/ \E m \in store.reqs : m.client = Watcher
\* The store watches no more, nor will another event reach the driver.
Quiet == ~store.watching /\ \A i \in 1..Len(rsp.msgs) : ~IsEvent(i)
\* An answer after which the store does not watch.
Ends(m) == m.op = "unwatch" \/ (m.op = "watch" /\ ~m.ok)

XWatch ==
  /\ \A i \in 1..Len(read) : read[i] = i
  /\ ~watch.listed => watch = NoWatch
  /\ watch.listed => Len(read) = watch.cons
  /\ watch.cons <= watch.prod
  /\ \A k \in watch.cons..(watch.prod - 1) : watch.paths[k % MAX_PATHS] = k + 1
  /\ watch.thread = Watcher <=> pc[Watcher] = "read_watch"
  /\ call[Watcher].op \in {"watch", "read_watch"} /\ pc[Watcher] # "idle" => watch.listed
  /\ pc[Watcher] = "read_watch" => call[Watcher].op = "read_watch"
  /\ pc[Watcher] = "read_watch" /\ watch.cons < watch.prod => Watcher \in runnable

\* The events on their way are those the store has sent and the watch has not got.
XEvents ==
  /\ ~watch.listed => Quiet
  /\ Unanswered => Quiet /\ watch.prod = 0 /\ watch.cons = 0
  /\ ~Quiet => watch.prod <= store.sent /\ store.sent - watch.cons <= MAX_PATHS
  /\ ~Quiet => \A n \in (watch.prod + 1)..store.sent :
       \E i \in 1..Len(rsp.msgs) : IsEvent(i) /\ rsp.msgs[i].number = n
  /\ \A i \in 1..Len(rsp.msgs) : IsEvent(i) =>
       /\ rsp.msgs[i].number \in (watch.prod + 1)..store.sent
       /\ \A j \in 1..Len(rsp.msgs) :
            IsEvent(j) /\ i < j => rsp.msgs[i].number < rsp.msgs[j].number
  /\ \A i \in 1..Len(rsp.msgs) : Ends(rsp.msgs[i]) =>
       ~store.watching /\ \A j \in 1..Len(rsp.msgs) : i < j => ~IsEvent(j)
  /\ pc[Watcher] = "sent" /\ Watcher \in runnable =>
       LET c == call[Watcher] IN
       c.op = "unwatch" \/ (c.op = "watch" /\ ~req_info[c.id].reply.ok) => Quiet
  /\ pc[Watcher] = "unwatch" => Quiet
  /\ pc[Watcher] = "watch" /\ ~call[Watcher].rep.ok => Quiet

\* The inductive invariant.
XenbusInv == XTypeOK /\ XSteps /\ XIds /\ XMail /\ XWatch /\ XEvents

\* An element of a sequence over S is in S.
LEMMA ElementOf == ASSUME NEW S, NEW q \in Seq(S), NEW i \in 1..Len(q) PROVE q[i] \in S
  OBVIOUS

\* Appending keeps what was there.
LEMMA AppendOne ==
  ASSUME NEW S, NEW q \in Seq(S), NEW v \in S
  PROVE  /\ Append(q, v) \in Seq(S) /\ Len(q) \in Nat /\ Len(Append(q, v)) = Len(q) + 1
         /\ Append(q, v)[Len(q) + 1] = v
         /\ \A j \in 1..Len(q) : Append(q, v)[j] = q[j]
  OBVIOUS

\* The tail is the rest, one place earlier.
LEMMA TailOne ==
  ASSUME NEW S, NEW q \in Seq(S), q # << >>
  PROVE  /\ Tail(q) \in Seq(S) /\ Head(q) = q[1] /\ Head(q) \in S
         /\ Len(q) \in Nat \ {0} /\ Len(Tail(q)) = Len(q) - 1
         /\ \A j \in 1..Len(Tail(q)) : Tail(q)[j] = q[j + 1]
  OBVIOUS

\* A number below n is its own remainder, and so it is after a whole turn.
LEMMA Remainder ==
  ASSUME NEW n \in Nat \ {0}, NEW a \in 0..(n - 1)
  PROVE  a % n = a /\ (a + n) % n = a
  OBVIOUS

\* Two numbers less than n apart with the same remainder are equal.
LEMMA SameRemainder ==
  ASSUME NEW n \in Nat \ {0}, NEW a \in Nat, NEW b \in Nat, a <= b, b < a + n, a % n = b % n
  PROVE  a = b
<1> DEFINE q == a \div n
           r == b \div n
<1>1. q \in Int /\ r \in Int /\ a = n * q + (a % n) /\ b = n * r + (b % n)
  OBVIOUS
<1>2. b - a = n * (r - q)
  BY <1>1
<1> HIDE DEF q, r
<1>3. r - q >= 1 => n * (r - q) >= n
  BY <1>1
<1>4. r - q <= -1 => n * (r - q) <= -n
  BY <1>1
<1> QED BY <1>1, <1>2, <1>3, <1>4

\* A set of natural numbers that is not empty has a least element, and Min is one.
LEMMA MinIsLeast ==
  ASSUME NEW S \in SUBSET Nat, S # {}
  PROVE  Min(S) \in S
<1>1. \E x \in S : \A y \in S : ~(<<y, x>> \in OpToRel(<, Nat))
  BY WFMin, NatLessThanWellFounded
<1>2. PICK x \in S : \A y \in S : ~(<<y, x>> \in OpToRel(<, Nat))
  BY <1>1
<1>3. ASSUME NEW y \in S, ~(x <= y) PROVE FALSE
  <2>1. y < x
    BY <1>3
  <2>2. <<y, x>> \in OpToRel(<, Nat)
    BY <2>1 DEF OpToRel
  <2> QED BY <1>2, <2>2
<1> QED BY <1>3 DEF Min

USE ThreadsAssumption, SizesAssumption

\* The id that allocate_xenbus_id picks is an id, and free, when one is.
LEMMA FreeIdIsFree ==
  ASSUME XTypeOK, NEW i \in Ids, ~req_info[i].in_use
  PROVE  FreeId \in Ids /\ ~req_info[FreeId].in_use
<1> DEFINE S == {k \in 0..(NR_REQS - 1) : ~req_info[(probe + k) % NR_REQS].in_use}
<1>1. NR_REQS \in Nat \ {0} /\ probe \in 0..(NR_REQS - 1) /\ i \in 0..(NR_REQS - 1)
  BY DEF XTypeOK, Ids
<1>2. S # {}
  <2>1. CASE i >= probe
    <3>1. (probe + (i - probe)) % NR_REQS = i
      BY <1>1, <2>1, Remainder
    <3>2. i - probe \in S
      BY <1>1, <2>1, <3>1
    <3> QED BY <3>2
  <2>2. CASE i < probe
    <3>1. (probe + (i - probe + NR_REQS)) % NR_REQS = i
      BY <1>1, <2>2, Remainder
    <3>2. i - probe + NR_REQS \in S
      BY <1>1, <2>2, <3>1
    <3> QED BY <3>2
  <2> QED BY <1>1, <2>1, <2>2
<1> DEFINE k == Min(S)
<1>s. S \in SUBSET Nat
  OBVIOUS
<1> HIDE DEF S
<1>3. k \in S
  BY <1>2, <1>s, MinIsLeast
<1> HIDE DEF k
<1>4. (probe + k) % NR_REQS \in 0..(NR_REQS - 1)
  BY <1>1, <1>3, <1>s
<1> USE DEF S, k
<1> QED BY <1>3, <1>4 DEF FreeId, Ids

\* Steps before a client has its id, and steps of the event channel and of the xenbus
\* thread that take nothing off the ring, disturb nothing: only clients that ask for
\* an id move or are woken.
LEMMA AskKept ==
  ASSUME XenbusInv,
         pc' \in [Threads -> Steps], runnable' \in SUBSET Threads,
         waitq' \in [{"xb_waitq", "req_wq"} -> SUBSET Threads],
         prod' \in Nat, event' \in BOOLEAN, halt' \in {"none", "block", "ring_wait", "ring"},
         \A u \in Clients :
           \/ pc'[u] = pc[u] /\ (u \in runnable' <=> u \in runnable)
           \/ pc[u] \in AskSteps /\ pc'[u] \in AskSteps,
         \A u \in Clients : u \in waitq'["req_wq"] => pc'[u] \in QueueSteps,
         waitq'["xb_waitq"] \subseteq {XenbusThread},
         UNCHANGED <<driverVars, call, req, rsp, watchVars, store, workload>>
  PROVE  XenbusInv'
<1> USE DEF XenbusInv
<1>1. UNCHANGED <<req_info, nr_live_reqs, probe, call, req, rsp, watch, read, store, workload>>
  BY DEF driverVars, watchVars
<1>2. \A u \in Clients : pc[u] \in HoldSteps <=> pc'[u] \in HoldSteps
  BY DEF HoldSteps, AskSteps
<1>3. Holders' = Holders
  BY <1>2 DEF Holders
<1>4. \A u \in Holders : u \in Clients /\ pc'[u] = pc[u] /\ (u \in runnable' <=> u \in runnable)
  BY DEF Holders, HoldSteps, AskSteps
<1>5. \A m : Mine(m) => Mine(m)'
  BY <1>1, <1>4 DEF Mine, Holders, HoldSteps
<1>6. Unanswered' <=> Unanswered
  BY <1>1 DEF Unanswered, AskSteps, SendSteps
<1>7. Quiet' <=> Quiet
  BY <1>1 DEF Quiet, IsEvent
<1>8. Used' = Used
  BY <1>1 DEF Used
<1>t. XTypeOK'
  BY <1>1 DEF XTypeOK
<1>s. XSteps'
  BY <1>1 DEF XSteps, AskSteps, HoldSteps
<1>i. XIds'
  BY <1>1, <1>3, <1>4, <1>8 DEF XIds
<1>m. XMail'
  BY <1>1, <1>3, <1>4, <1>5 DEF XMail, IsReply, ReplyIsMine
<1>w. XWatch'
  BY <1>1 DEF XWatch, AskSteps, NoWatch
<1>e. XEvents'
  BY <1>1, <1>6, <1>7 DEF XEvents, AskSteps, IsEvent, Ends
<1> QED BY <1>t, <1>s, <1>i, <1>m, <1>w, <1>e

\* A call that begins asks for an id; the messages under way are those of others.
LEMMA StartKept ==
  ASSUME XenbusInv, NEW t \in Clients, NEW o \in Ops,
         o \in {"watch", "unwatch"} => t = Watcher,
         Calls(t, o), GoTo(t, "alloc"),
         \/ o # "watch" /\ UNCHANGED <<watch, read>>
         \/ o = "watch" /\ ~watch.listed /\ watch' = [NoWatch EXCEPT !.listed = TRUE] /\ read' = << >>,
         UNCHANGED <<runnable, waitq, driverVars, ringVars, store, workload, halt>>
  PROVE  XenbusInv'
<1> USE DEF XenbusInv
<1>1. UNCHANGED <<runnable, waitq, req_info, nr_live_reqs, probe, req, rsp, prod, event, store,
                  workload, halt>>
  BY DEF driverVars, ringVars
<1>2. /\ t \in Threads /\ pc[t] = "idle" /\ pc' = [pc EXCEPT ![t] = "alloc"]
      /\ pc'[t] = "alloc" /\ \A u \in Threads \ {t} : pc'[u] = pc[u]
  BY DEF Calls, At, GoTo, XTypeOK, Threads
<1>3. call' = [call EXCEPT ![t] = [op |-> o, number |-> call[t].number + 1, id |-> 0, rep |-> NoReply]]
  BY DEF Calls
<1>4. \A u \in Clients \ {t} : call'[u] = call[u]
  BY <1>3 DEF XTypeOK
<1>5. call'[t] = [op |-> o, number |-> call[t].number + 1, id |-> 0, rep |-> NoReply]
  BY <1>3 DEF XTypeOK
<1>6. Holders' = Holders /\ t \notin Holders
  BY <1>2 DEF Holders, HoldSteps, Threads
<1>7. \A u \in Holders : u \in Clients /\ u # t /\ pc'[u] = pc[u] /\ call'[u] = call[u]
  BY <1>2, <1>4, <1>6 DEF Holders, Threads
<1>8. \A m : Mine(m) => Mine(m)' /\ m.client # t
  BY <1>1, <1>2, <1>4 DEF Mine, Threads
<1>9. Quiet' <=> Quiet
  BY <1>1 DEF Quiet, IsEvent
<1>10. \A i \in 1..Len(req) : req[i].client # t
  BY <1>8 DEF XMail
<1>11. \A m \in store.reqs : m.client # t
  BY <1>8 DEF XMail
<1>12. Used' = Used
  BY <1>1 DEF Used
<1>13. t # XenbusThread
  OBVIOUS
<1>t. XTypeOK'
  <2>1. call' \in [Clients -> Calleds]
    <3>1. NoReply \in Replies /\ 0 \in Ids
      BY DEF NoReply, Replies, Threads, Ids
    <3>2. [op |-> o, number |-> call[t].number + 1, id |-> 0, rep |-> NoReply] \in Calleds
      BY <3>1 DEF Calleds, XTypeOK
    <3> QED BY <1>3, <3>2 DEF XTypeOK
  <2>2. pc' \in [Threads -> Steps]
    BY <1>2 DEF XTypeOK, Steps, AskSteps
  <2>3. watch' \in TheWatch /\ read' \in Seq(Nat)
    <3>1. CASE o # "watch"
      BY <3>1 DEF XTypeOK
    <3>2. CASE o = "watch"
      <4>1. watch' = [listed |-> TRUE, thread |-> XenbusThread, prod |-> 0, cons |-> 0,
                      paths |-> [i \in 0..(MAX_PATHS - 1) |-> 0]]
        BY <3>2 DEF NoWatch
      <4> QED BY <3>2, <4>1 DEF TheWatch
    <3> QED BY <3>1, <3>2
  <2> QED BY <1>1, <2>1, <2>2, <2>3 DEF XTypeOK
<1>s. XSteps'
  BY <1>1, <1>2, <1>4, <1>5 DEF XSteps, AskSteps, QueueSteps, HoldSteps, Threads, Ops
<1>i. XIds'
  <2>1. \A u \in Holders' : req_info'[call'[u].id].in_use /\ req_info'[call'[u].id].waitq = {u}
    BY <1>1, <1>6, <1>7 DEF XIds
  <2>2. \A u, v \in Holders' : call'[u].id = call'[v].id => u = v
    BY <1>6, <1>7 DEF XIds
  <2>3. \A i \in Used' : \E u \in Holders' : call'[u].id = i
    BY <1>6, <1>7, <1>12 DEF XIds
  <2>4. nr_live_reqs' = nr_live_reqs
    BY <1>1
  <2> QED BY <1>6, <1>12, <2>1, <2>2, <2>3, <2>4 DEF XIds
<1>m. XMail'
  <2>1. ReplyIsMine'
    <3>1. call'[t].rep = NoReply
      BY <1>5
    <3> QED BY <1>4, <3>1 DEF XMail, ReplyIsMine
  <2> QED BY <1>1, <1>6, <1>7, <1>8, <2>1 DEF XMail, IsReply
<1>w. XWatch'
  <2>1. CASE o # "watch"
    BY <1>1, <1>2, <1>4, <1>5, <2>1 DEF XWatch, NoWatch, Threads, Ops
  <2>2. CASE o = "watch"
    <3>1. /\ watch' = [listed |-> TRUE, thread |-> XenbusThread, prod |-> 0, cons |-> 0,
                       paths |-> [i \in 0..(MAX_PATHS - 1) |-> 0]]
          /\ read' = << >> /\ t = Watcher
      BY <2>2 DEF NoWatch
    <3> QED BY <1>2, <1>5, <3>1, <2>2 DEF XWatch
  <2> QED BY <2>1, <2>2
<1>e. XEvents'
  <2>1. CASE o # "watch"
    <3>1. Unanswered' => Unanswered
      <4>1. CASE t = Watcher
        BY <1>5, <2>1, <4>1 DEF Unanswered
      <4>2. CASE t # Watcher
        BY <1>1, <1>2, <1>4, <4>2 DEF Unanswered, Threads
      <4> QED BY <4>1, <4>2
    <3>2. watch' = watch
      BY <2>1
    <3>3. Watcher \in Threads
      BY DEF Threads
    <3> QED BY <1>1, <1>2, <1>4, <1>9, <3>1, <3>2, <3>3 DEF XEvents, IsEvent, Ends
  <2>2. CASE o = "watch"
    <3>1. /\ watch'.listed /\ watch'.prod = 0 /\ watch'.cons = 0 /\ t = Watcher
      BY <2>2 DEF NoWatch
    <3>2. Quiet
      BY <2>2 DEF XEvents
    <3> QED BY <1>1, <1>2, <1>9, <3>1, <3>2 DEF XEvents, Quiet, IsEvent, Ends
  <2> QED BY <2>1, <2>2
<1> QED BY <1>t, <1>s, <1>i, <1>m, <1>w, <1>e

\* Taking an id: it was free, so its new holder is its only one.
LEMMA TakeIdKept ==
  ASSUME XenbusInv, NEW t \in Clients, At(t, "alloc"), nr_live_reqs < NR_REQS,
         TakeId(t, FreeId), block(t), GoTo(t, "xb_write"),
         \E i \in Ids : ~req_info[i].in_use,
         UNCHANGED <<waitq, ringVars, watchVars, store, workload>>
  PROVE  XenbusInv'
<1> USE DEF XenbusInv
<1> DEFINE id == FreeId
<1>0. id \in Ids /\ ~req_info[id].in_use
  BY FreeIdIsFree
<1>a. /\ nr_live_reqs' = nr_live_reqs + 1
      /\ req_info' = [req_info EXCEPT ![id].in_use = TRUE, ![id].waitq = {t}]
      /\ probe' = (id + 1) % NR_REQS
      /\ call' = [call EXCEPT ![t].id = id]
  BY DEF TakeId
<1> HIDE DEF id
<1>1. UNCHANGED <<waitq, req, rsp, prod, event, watch, read, store, workload>>
  BY DEF ringVars, watchVars
<1>2. /\ t \in Threads /\ pc[t] = "alloc" /\ pc' = [pc EXCEPT ![t] = "xb_write"]
      /\ pc'[t] = "xb_write" /\ \A u \in Threads \ {t} : pc'[u] = pc[u]
  BY DEF At, GoTo, XTypeOK, Threads
<1>3. runnable' = runnable \ {t} /\ halt' \in {"none", "block", "ring_wait", "ring"}
  BY DEF block, BlockOr, XTypeOK
<1>4. /\ \A u \in Clients \ {t} : call'[u] = call[u]
      /\ call'[t] = [call[t] EXCEPT !.id = id]
  BY <1>a DEF XTypeOK
<1>5. /\ call'[t].op = call[t].op /\ call'[t].number = call[t].number /\ call'[t].id = id
      /\ call'[t].rep = call[t].rep /\ call'[t] \in Calleds
  BY <1>0, <1>4 DEF XTypeOK, Calleds
<1>6. /\ \A i \in Ids \ {id} : req_info'[i] = req_info[i]
      /\ req_info'[id] = [req_info[id] EXCEPT !.in_use = TRUE, !.waitq = {t}]
      /\ req_info' \in [Ids -> Infos]
  BY <1>0, <1>a, ZenonT(90) DEF XTypeOK, Infos
<1>7. req_info'[id].in_use /\ req_info'[id].waitq = {t} /\ req_info'[id].reply = req_info[id].reply
  BY <1>0, <1>6 DEF XTypeOK, Infos
<1>8. Holders' = Holders \cup {t} /\ t \notin Holders
  BY <1>2 DEF Holders, HoldSteps, Threads
<1>9. \A u \in Holders :
        /\ u \in Clients /\ u # t /\ pc'[u] = pc[u] /\ call'[u] = call[u]
        /\ (u \in runnable' <=> u \in runnable)
        /\ call[u].id \in Ids /\ call[u].id # id /\ req_info'[call[u].id] = req_info[call[u].id]
  BY <1>0, <1>2, <1>3, <1>4, <1>6, <1>8 DEF Holders, Threads, XIds, XTypeOK, Calleds
<1>10. \A m : Mine(m) => Mine(m)' /\ m.client # t
  BY <1>2, <1>3, <1>4 DEF Mine, Threads
<1>11. Quiet' <=> Quiet
  BY <1>1 DEF Quiet, IsEvent
<1>12. Unanswered' => Unanswered
  <2>1. CASE t = Watcher
    BY <1>1, <1>2, <1>5, <2>1 DEF Unanswered, AskSteps
  <2>2. CASE t # Watcher
    BY <1>1, <1>2, <1>4, <2>2 DEF Unanswered, Threads
  <2> QED BY <2>1, <2>2
<1>13. Used' = Used \cup {id} /\ id \notin Used
  BY <1>0, <1>6, <1>7 DEF Used
<1>14. \A u \in Clients : call'[u].op = call[u].op /\ call'[u].rep = call[u].rep
                          /\ call'[u].number = call[u].number
  BY <1>4, <1>5
<1>t. XTypeOK'
  <2>1. call' \in [Clients -> Calleds]
    BY <1>a, <1>5, <1>4 DEF XTypeOK
  <2>2. pc' \in [Threads -> Steps]
    BY <1>2 DEF XTypeOK, Steps, HoldSteps
  <2>3. probe' \in Ids
    BY <1>0, <1>a DEF Ids
  <2> QED BY <1>a, <1>1, <1>3, <1>6, <2>1, <2>2, <2>3 DEF XTypeOK
<1>s. XSteps'
  <2>1. t \notin waitq["req_wq"] /\ call[t].op \in Ops
    BY <1>2 DEF XSteps, QueueSteps, AskSteps
  <2> QED BY <1>1, <1>2, <1>14, <2>1 DEF XSteps, AskSteps, HoldSteps, Threads
<1>i. XIds'
  <2>1. \A i \in Used' : \E u \in Holders' : call'[u].id = i
    BY <1>5, <1>8, <1>9, <1>13 DEF XIds
  <2>2. IsFiniteSet(Holders') /\ Cardinality(Holders') = nr_live_reqs'
    BY <1>a, <1>8, FS_AddElement DEF XIds
  <2>3. Cardinality(Used') = nr_live_reqs'
    <3>1. IsFiniteSet(Ids)
      BY FS_Interval DEF Ids
    <3>2. IsFiniteSet(Used)
      BY <3>1, FS_Subset DEF Used
    <3> QED BY <1>a, <1>13, <3>2, FS_AddElement, ZenonT(90) DEF XIds
  <2> QED BY <1>5, <1>7, <1>8, <1>9, <2>1, <2>2, <2>3 DEF XIds
<1>m. XMail'
  <2>1. ReplyIsMine'
    BY <1>14 DEF XMail, ReplyIsMine
  <2>2. t \notin runnable'
    BY <1>3
  <2> QED BY <1>1, <1>8, <1>9, <1>10, <2>1, <2>2 DEF XMail, IsReply
<1>w. XWatch'
  BY <1>1, <1>2, <1>3, <1>14 DEF XWatch, NoWatch, Threads
<1>e. XEvents'
  BY <1>1, <1>2, <1>3, <1>9, <1>11, <1>12, <1>14 DEF XEvents, IsEvent, Ends, Threads, Holders, HoldSteps
<1> QED BY <1>t, <1>s, <1>i, <1>m, <1>w, <1>e

\* A message is sent: its client sleeps, and has no other under way.
LEMMA SendKept ==
  ASSUME XenbusInv, NEW t \in Clients, pc[t] \in SendSteps, Send(t),
         halt' \in {"none", "block", "ring_wait", "ring"},
         UNCHANGED <<runnable, waitq, driverVars, call, rsp, prod, event, watchVars, workload>>
  PROVE  XenbusInv'
<1> USE DEF XenbusInv
<1>1. /\ UNCHANGED <<runnable, waitq, req_info, nr_live_reqs, probe, call, rsp, prod, event, watch,
                     read, workload>>
      /\ store' \in Stores /\ store'.reqs = store.reqs /\ store'.watching = store.watching
      /\ store'.sent = store.sent
  BY DEF driverVars, watchVars, Send, XTypeOK, Stores
<1>2. /\ t \in Threads /\ pc' = [pc EXCEPT ![t] = "sent"]
      /\ pc'[t] = "sent" /\ \A u \in Threads \ {t} : pc'[u] = pc[u]
  BY DEF Send, GoTo, XTypeOK, Threads
<1> DEFINE n == Len(req) + 1
<1>m0. PICK m : m = Message(t)
  OBVIOUS
<1>3. t \in Holders /\ t \notin runnable
  BY DEF Holders, SendSteps, HoldSteps, XMail
<1>4. call[t].op \in Ops /\ call[t].id \in Ids /\ call[t].number \in Nat
  BY <1>3 DEF XSteps, XTypeOK, Calleds, Holders
<1>5. m \in Requests /\ m.client = t /\ m.op = call[t].op
  BY <1>4, <1>m0 DEF Message, Requests
<1>6. Mine(m)'
  BY <1>1, <1>2, <1>3, <1>m0 DEF Mine, Message
<1>7. req' = Append(req, m)
  BY <1>m0 DEF Send
<1>8. /\ req' \in Seq(Requests) /\ Len(req') = n /\ req'[n] = m /\ Len(req) \in Nat
      /\ \A j \in 1..Len(req) : req'[j] = req[j]
  BY <1>5, <1>7, AppendOne DEF XTypeOK
<1>9. 1..Len(req') = (1..Len(req)) \cup {n} /\ n \notin 1..Len(req)
  BY <1>8
<1> HIDE DEF n
<1>10. Holders' = Holders
  BY <1>2, <1>3 DEF Holders, HoldSteps, Threads
<1>11. \A o : Mine(o) => Mine(o)' /\ o.client # t
  BY <1>1, <1>2 DEF Mine, Threads, SendSteps
<1>12. Quiet' <=> Quiet
  BY <1>1 DEF Quiet, IsEvent
<1>13. Unanswered' => Unanswered
  <2>1. CASE t = Watcher
    BY <1>1, <2>1 DEF Unanswered
  <2>2. CASE t # Watcher
    BY <1>1, <1>2, <1>5, <1>8, <1>9, <2>2 DEF Unanswered, Threads
  <2> QED BY <2>1, <2>2
<1>14. Used' = Used
  BY <1>1 DEF Used
<1>t. XTypeOK'
  BY <1>1, <1>2, <1>8 DEF XTypeOK, Steps, HoldSteps
<1>s. XSteps'
  BY <1>1, <1>2, <1>4 DEF XSteps, SendSteps, QueueSteps, AskSteps, HoldSteps, Threads
<1>i. XIds'
  BY <1>1, <1>10, <1>14 DEF XIds
<1>m. XMail'
  <2>1. /\ \A i \in 1..Len(req) : req[i].client # t
        /\ \A o \in store.reqs : o.client # t
        /\ \A i \in 1..Len(rsp.msgs) : IsReply(i) => rsp.msgs[i].client # t
    BY <1>11 DEF XMail
  <2>2. (\A i \in 1..Len(req) : Mine(req[i]))'
    <3>1. ASSUME NEW i \in 1..Len(req'), NEW o, o = req'[i] PROVE Mine(o)'
      <4>1. CASE i = n
        <5>1. o = m
          BY <1>8, <3>1, <4>1
        <5> QED BY <1>6, <5>1
      <4>2. CASE i \in 1..Len(req)
        <5>1. o = req[i] /\ Mine(req[i])
          BY <1>8, <3>1, <4>2 DEF XMail
        <5> QED BY <1>11, <5>1
      <4> QED BY <1>9, <4>1, <4>2
    <3> QED BY <3>1 DEF Mine
  <2>3. \A i, j \in 1..Len(req') : req'[i].client = req'[j].client => i = j
    BY <1>5, <1>8, <1>9, <2>1 DEF XMail
  <2>4. \A i \in 1..Len(req') : \A o \in store.reqs : req'[i].client # o.client
    BY <1>5, <1>8, <1>9, <2>1 DEF XMail
  <2>5. \A i \in 1..Len(rsp.msgs) : IsReply(i) =>
          \A j \in 1..Len(req') : rsp.msgs[i].client # req'[j].client
    BY <1>5, <1>8, <1>9, <2>1 DEF XMail
  <2>6. \A u \in Holders : u \in runnable => u # t /\ pc'[u] = pc[u]
    BY <1>2, <1>3 DEF Holders, Threads
  <2>7. (\A o \in store.reqs : Mine(o))' /\ (\A i \in 1..Len(rsp.msgs) : IsReply(i) => Mine(rsp.msgs[i]))'
    BY <1>1, <1>11 DEF XMail, IsReply
  <2>8. ReplyIsMine'
    BY <1>1 DEF XMail, ReplyIsMine
  <2> QED BY <1>1, <1>10, <2>2, <2>3, <2>4, <2>5, <2>6, <2>7, <2>8 DEF XMail, IsReply
<1>w. XWatch'
  BY <1>1, <1>2 DEF XWatch, NoWatch, Threads, SendSteps
<1>e. XEvents'
  BY <1>1, <1>2, <1>3, <1>12, <1>13 DEF XEvents, IsEvent, Ends, Threads
<1> QED BY <1>t, <1>s, <1>i, <1>m, <1>w, <1>e

\* A client that waits for room on the ring stays as it is.
LEMMA XbWaitKept ==
  ASSUME XenbusInv, NEW t \in Clients, pc[t] \in SendSteps, NEW s \in SendSteps,
         pc' = [pc EXCEPT ![t] = s], runnable' = runnable \ {t},
         halt' \in {"none", "block", "ring_wait", "ring"},
         UNCHANGED <<waitq, driverVars, call, ringVars, watchVars, store, workload>>
  PROVE  XenbusInv'
<1> USE DEF XenbusInv
<1>1. UNCHANGED <<waitq, req_info, nr_live_reqs, probe, call, req, rsp, prod, event, watch, read,
                  store, workload>>
  BY DEF driverVars, ringVars, watchVars
<1>2. t \in Threads /\ pc'[t] = s /\ \A u \in Threads \ {t} : pc'[u] = pc[u]
  BY DEF XTypeOK, Threads
<1>3. t \in Holders /\ Holders' = Holders
  BY <1>2 DEF Holders, SendSteps, HoldSteps, Threads
<1>4. t \notin runnable /\ runnable' = runnable
  BY <1>3 DEF XMail, SendSteps
<1>5. \A m : Mine(m) => Mine(m)'
  BY <1>1, <1>2, <1>4 DEF Mine, SendSteps, Threads
<1>6. Unanswered' <=> Unanswered
  BY <1>1, <1>2 DEF Unanswered, Threads
<1>7. Quiet' <=> Quiet
  BY <1>1 DEF Quiet, IsEvent
<1>8. Used' = Used
  BY <1>1 DEF Used
<1>9. \A u \in Holders : u \in runnable => u # t /\ pc'[u] = pc[u]
  BY <1>2, <1>4 DEF Holders, Threads
<1>t. XTypeOK'
  BY <1>1, <1>2, <1>4 DEF XTypeOK, Steps, SendSteps, HoldSteps
<1>s. XSteps'
  BY <1>1, <1>2 DEF XSteps, SendSteps, QueueSteps, AskSteps, HoldSteps, Threads
<1>i. XIds'
  BY <1>1, <1>3, <1>8 DEF XIds
<1>m. XMail'
  BY <1>1, <1>3, <1>4, <1>5, <1>9 DEF XMail, IsReply, ReplyIsMine
<1>w. XWatch'
  BY <1>1, <1>2, <1>4 DEF XWatch, NoWatch, SendSteps, Threads
<1>e. XEvents'
  BY <1>1, <1>2, <1>4, <1>6, <1>7 DEF XEvents, SendSteps, IsEvent, Ends, Threads
<1> QED BY <1>t, <1>s, <1>i, <1>m, <1>w, <1>e

\* The reply that is taken is the one to this request, and the id has no holder left.
LEMMA MsgReplyKept ==
  ASSUME XenbusInv, NEW t \in Clients, xenbus_msg_reply(t)
  PROVE  XenbusInv'
<1> USE DEF XenbusInv
<1> DEFINE id == call[t].id
           r == req_info[id].reply
<1>0. /\ t \in Threads /\ pc[t] = "sent" /\ t \in runnable /\ halt = "none"
      /\ call' = [call EXCEPT ![t].rep = r]
      /\ halt' = IF r # NoReply /\ req_info[id].in_use THEN halt ELSE "reply"
      /\ nr_live_reqs' = nr_live_reqs - 1
      /\ req_info' = [req_info EXCEPT ![id].in_use = FALSE]
      /\ runnable' = runnable \/ runnable' = runnable \cup waitq["req_wq"]
      /\ pc' = [pc EXCEPT ![t] = AfterReply(t)]
      /\ probe' = probe
  BY DEF xenbus_msg_reply, At, GoTo, release_xenbus_id, wake_up, Threads
<1>1. UNCHANGED <<waitq, req, rsp, prod, event, watch, read, store, workload>>
  BY DEF xenbus_msg_reply, ringVars, watchVars
<1>2. pc'[t] = AfterReply(t) /\ \A u \in Threads \ {t} : pc'[u] = pc[u]
  BY <1>0 DEF XTypeOK
<1>3. /\ t \in Holders /\ id \in Ids /\ call[t].op \in Ops /\ call[t].number \in Nat
      /\ r \in Replies /\ r.client = t /\ r.number = call[t].number /\ req_info[id].in_use
  BY <1>0 DEF Holders, HoldSteps, XMail, XIds, XSteps, XTypeOK, Calleds, Infos
<1>4. r # NoReply
  BY <1>3 DEF NoReply
<1>5. /\ \A u \in Clients \ {t} : call'[u] = call[u]
      /\ call'[t] = [call[t] EXCEPT !.rep = r]
  BY <1>0 DEF XTypeOK
<1>c. call[t].id = id /\ call[t] \in Calleds
  BY DEF XTypeOK
<1> HIDE DEF r, id
<1>6. /\ call'[t].op = call[t].op /\ call'[t].number = call[t].number /\ call'[t].id = id
      /\ call'[t].rep = r /\ call'[t] \in Calleds
  BY <1>3, <1>5, <1>c DEF Calleds
<1>7. /\ \A i \in Ids \ {id} : req_info'[i] = req_info[i]
      /\ ~req_info'[id].in_use /\ req_info' \in [Ids -> Infos]
  BY <1>0, <1>3 DEF XTypeOK, Infos
<1>8. /\ AfterReply(t) \in {"idle", "watch", "unwatch"}
      /\ AfterReply(t) \in {"watch", "unwatch"} => call[t].op = AfterReply(t)
      /\ call[t].op \in {"watch", "unwatch"} => AfterReply(t) = call[t].op
  BY <1>3 DEF AfterReply, Ops
<1>9. Holders' = Holders \ {t}
  BY <1>2, <1>8 DEF Holders, HoldSteps, Threads
<1>10. \A u \in Clients : pc[u] \notin AskSteps => (u \in runnable' <=> u \in runnable)
  BY <1>0 DEF XSteps, AskSteps, QueueSteps
<1>11. \A u \in Holders \ {t} :
        /\ u \in Clients /\ pc'[u] = pc[u] /\ call'[u] = call[u]
        /\ (u \in runnable' <=> u \in runnable)
        /\ call[u].id \in Ids /\ call[u].id # id /\ req_info'[call[u].id] = req_info[call[u].id]
  <2> TAKE u \in Holders \ {t}
  <2>1. u \in Clients /\ pc'[u] = pc[u] /\ call'[u] = call[u] /\ (u \in runnable' <=> u \in runnable)
    BY <1>2, <1>5, <1>10 DEF Holders, Threads, HoldSteps, AskSteps
  <2>2. call[u].id \in Ids /\ call[u].id # id
    BY <1>3, <2>1 DEF XIds, XTypeOK, Calleds, id
  <2> QED BY <1>7, <2>1, <2>2
<1>12. \A m : Mine(m) => Mine(m)' /\ m.client # t
  <2> SUFFICES ASSUME NEW m, Mine(m) PROVE Mine(m)' /\ m.client # t
    OBVIOUS
  <2>1. m.client \in Holders \ {t}
    BY <1>0 DEF Mine, Holders, HoldSteps
  <2> QED BY <1>11, <2>1 DEF Mine
<1>13. Quiet' <=> Quiet
  BY <1>1 DEF Quiet, IsEvent
<1>14. Unanswered' => Unanswered
  <2>1. CASE t = Watcher
    BY <1>1, <1>2, <1>6, <1>8, <2>1 DEF Unanswered, AskSteps, SendSteps
  <2>2. CASE t # Watcher
    BY <1>1, <1>2, <1>5, <2>2 DEF Unanswered, Threads
  <2> QED BY <2>1, <2>2
<1>15. Used' = Used \ {id} /\ id \in Used
  BY <1>3, <1>7 DEF Used
<1>16. \A u \in Clients : call'[u].op = call[u].op /\ call'[u].number = call[u].number
  BY <1>5, <1>6
<1>17. nr_live_reqs' \in Nat
  <2>1. IsFiniteSet(Holders) /\ Cardinality(Holders) = nr_live_reqs
    BY DEF XIds
  <2>2. nr_live_reqs # 0
    BY <1>3, <2>1, FS_EmptySet
  <2> QED BY <1>0, <2>2 DEF XTypeOK
<1>t. XTypeOK'
  <2>1. call' \in [Clients -> Calleds]
    BY <1>0, <1>5, <1>6 DEF XTypeOK
  <2>2. pc' \in [Threads -> Steps]
    BY <1>0, <1>8 DEF XTypeOK, Steps
  <2>3. halt' = halt /\ runnable' \in SUBSET Threads
    BY <1>0, <1>3, <1>4 DEF XTypeOK, r
  <2> QED BY <1>0, <1>1, <1>7, <1>17, <2>1, <2>2, <2>3 DEF XTypeOK
<1>s. XSteps'
  BY <1>0, <1>1, <1>2, <1>8, <1>16 DEF XSteps, AskSteps, QueueSteps, HoldSteps, Threads
<1>i. XIds'
  <2>1. \A i \in Used' : \E u \in Holders' : call'[u].id = i
    BY <1>9, <1>11, <1>15 DEF XIds, id
  <2>2. IsFiniteSet(Holders') /\ Cardinality(Holders') = nr_live_reqs'
    BY <1>0, <1>3, <1>9, FS_RemoveElement DEF XIds
  <2>3. Cardinality(Used') = nr_live_reqs'
    <3>1. IsFiniteSet(Ids)
      BY FS_Interval DEF Ids
    <3>2. IsFiniteSet(Used)
      BY <3>1, FS_Subset DEF Used
    <3> QED BY <1>0, <1>15, <3>2, FS_RemoveElement DEF XIds
  <2> QED BY <1>9, <1>11, <2>1, <2>2, <2>3 DEF XIds
<1>m. XMail'
  <2>1. ReplyIsMine'
    <3>1. ReplyIsMine
      BY DEF XMail
    <3>2. call'[t].rep.client = t /\ call'[t].rep.number = call'[t].number
      BY <1>3, <1>6
    <3>3. ASSUME NEW u \in Clients, call'[u].rep # NoReply
          PROVE  call'[u].rep.client = u /\ call'[u].rep.number = call'[u].number
      <4>1. CASE u = t
        BY <3>2, <4>1
      <4>2. CASE u # t
        BY <1>5, <3>1, <3>3, <4>2 DEF ReplyIsMine
      <4> QED BY <4>1, <4>2
    <3> QED BY <3>3 DEF ReplyIsMine
  <2> QED BY <1>1, <1>9, <1>11, <1>12, <2>1 DEF XMail, IsReply
<1>w. XWatch'
  BY <1>0, <1>1, <1>2, <1>8, <1>10, <1>16 DEF XWatch, NoWatch, Threads, AskSteps
<1>e. XEvents'
  <2>1. pc'[Watcher] = "unwatch" => Quiet
    BY <1>0, <1>2, <1>8 DEF XEvents, Threads
  <2>2. pc'[Watcher] = "watch" /\ ~call'[Watcher].rep.ok => Quiet
    <3>1. CASE t = Watcher
      BY <1>0, <1>2, <1>6, <1>8, <3>1 DEF XEvents, id, r
    <3>2. CASE t # Watcher
      BY <1>2, <1>5, <3>2 DEF XEvents, Threads
    <3> QED BY <3>1, <3>2
  <2>3. pc'[Watcher] = "sent" => Watcher # t /\ Watcher \in Holders
    BY <1>2, <1>8 DEF Holders, HoldSteps, Threads
  <2> QED BY <1>1, <1>11, <1>13, <1>14, <2>1, <2>2, <2>3 DEF XEvents, IsEvent, Ends
<1> QED BY <1>t, <1>s, <1>i, <1>m, <1>w, <1>e

\* The watch is unlisted only when no event is on its way.
LEMMA UnlistKept ==
  ASSUME XenbusInv, pc[Watcher] \in {"watch", "unwatch"},
         pc' = [pc EXCEPT ![Watcher] = "idle"],
         watch' = watch \/ (watch' = NoWatch /\ Quiet),
         UNCHANGED <<runnable, waitq, driverVars, call, ringVars, read, store, workload, halt>>
  PROVE  XenbusInv'
<1> USE DEF XenbusInv
<1>1. UNCHANGED <<runnable, waitq, req_info, nr_live_reqs, probe, call, req, rsp, prod, event, read,
                  store, workload, halt>>
  BY DEF driverVars, ringVars
<1>2. Watcher \in Threads /\ pc'[Watcher] = "idle" /\ \A u \in Threads \ {Watcher} : pc'[u] = pc[u]
  BY DEF XTypeOK, Threads
<1>3. Holders' = Holders /\ Watcher \notin Holders
  BY <1>2 DEF Holders, HoldSteps, Threads
<1>4. \A u \in Holders : u \in Clients /\ pc'[u] = pc[u]
  BY <1>2, <1>3 DEF Holders, Threads
<1>5. \A m : Mine(m) => Mine(m)' /\ m.client # Watcher
  BY <1>1, <1>2 DEF Mine, Threads
<1>6. ~Unanswered'
  BY <1>1, <1>2, <1>5 DEF Unanswered, AskSteps, SendSteps, XMail
<1>7. Quiet' <=> Quiet
  BY <1>1 DEF Quiet, IsEvent
<1>8. Used' = Used
  BY <1>1 DEF Used
<1>9. NoWatch = [listed |-> FALSE, thread |-> XenbusThread, prod |-> 0, cons |-> 0,
                 paths |-> [i \in 0..(MAX_PATHS - 1) |-> 0]]
  BY DEF NoWatch
<1>10. NoWatch \in TheWatch
  BY <1>9 DEF TheWatch
<1>t. XTypeOK'
  BY <1>1, <1>10 DEF XTypeOK, Steps
<1>s. XSteps'
  BY <1>1, <1>2 DEF XSteps, QueueSteps, AskSteps, HoldSteps, Threads
<1>i. XIds'
  BY <1>1, <1>3, <1>8 DEF XIds
<1>m. XMail'
  BY <1>1, <1>3, <1>4, <1>5 DEF XMail, IsReply, ReplyIsMine
<1>w. XWatch'
  <2>1. watch.thread # Watcher
    BY DEF XWatch
  <2>2. CASE watch' = watch
    BY <1>1, <1>2, <2>1, <2>2 DEF XWatch
  <2>3. CASE watch' = NoWatch
    BY <1>1, <1>2, <1>9, <2>3 DEF XWatch
  <2> QED BY <2>2, <2>3
<1>e. XEvents'
  <2>1. CASE watch' = watch
    BY <1>1, <1>2, <1>6, <1>7, <2>1 DEF XEvents, IsEvent, Ends
  <2>2. CASE watch' = NoWatch /\ Quiet
    BY <1>1, <1>2, <1>6, <1>7, <2>2 DEF XEvents, Quiet, IsEvent, Ends
  <2> QED BY <2>1, <2>2
<1> QED BY <1>t, <1>s, <1>i, <1>m, <1>w, <1>e

\* The reader takes the oldest path, which is the next one the store sent, or sleeps
\* where an event finds it.
LEMMA ReadWatchKept ==
  ASSUME XenbusInv, watch.listed, ReadWatch(Watcher),
         \/ pc[Watcher] = "idle" /\ Calls(Watcher, "read_watch")
         \/ pc[Watcher] = "read_watch" /\ call' = call,
         UNCHANGED <<waitq, driverVars, ringVars, store, workload>>
  PROVE  XenbusInv'
<1> USE DEF XenbusInv
<1>1. UNCHANGED <<waitq, req_info, nr_live_reqs, probe, req, rsp, prod, event, store, workload>>
  BY DEF driverVars, ringVars
<1>2. PICK s \in {"idle", "read_watch"} : pc' = [pc EXCEPT ![Watcher] = s]
  BY DEF ReadWatch, GoTo
<1>3. /\ Watcher \in Threads /\ pc'[Watcher] = s /\ \A u \in Threads \ {Watcher} : pc'[u] = pc[u]
      /\ pc[Watcher] \in {"idle", "read_watch"}
  BY <1>2 DEF XTypeOK, Threads
<1>4. call' \in [Clients -> Calleds] /\ call'[Watcher].op = "read_watch"
      /\ (call'[Watcher].rep # NoReply => call' = call)
      /\ \A u \in Clients \ {Watcher} : call'[u] = call[u]
  <2>1. CASE call' = call /\ pc[Watcher] = "read_watch"
    BY <2>1 DEF XTypeOK, XWatch
  <2>2. CASE Calls(Watcher, "read_watch")
    <3> DEFINE c == [op |-> "read_watch", number |-> call[Watcher].number + 1, id |-> 0, rep |-> NoReply]
    <3>1. NoReply \in Replies /\ 0 \in Ids
      BY DEF NoReply, Replies, Threads, Ids
    <3>2. c \in Calleds /\ c.op = "read_watch" /\ c.rep = NoReply
      BY <3>1 DEF Calleds, XTypeOK
    <3>3. call' = [call EXCEPT ![Watcher] = c]
      BY <2>2 DEF Calls
    <3> QED BY <3>2, <3>3 DEF XTypeOK
  <2> QED BY <2>1, <2>2
<1>5. Holders' = Holders /\ Watcher \notin Holders
  BY <1>3 DEF Holders, HoldSteps, Threads
<1>6. runnable' \in SUBSET Threads /\ \A u \in Threads \ {Watcher} : u \in runnable' <=> u \in runnable
  BY DEF ReadWatch, block, BlockOr, XTypeOK
<1>7. \A u \in Holders : /\ u \in Clients /\ pc'[u] = pc[u] /\ call'[u] = call[u]
                         /\ (u \in runnable' <=> u \in runnable)
  BY <1>3, <1>4, <1>5, <1>6 DEF Holders, Threads
<1>8. \A m : Mine(m) => Mine(m)' /\ m.client # Watcher
  BY <1>1, <1>3, <1>4, <1>6 DEF Mine, Threads
<1>9. ~Unanswered'
  BY <1>4 DEF Unanswered
<1>10. Quiet' <=> Quiet
  BY <1>1 DEF Quiet, IsEvent
<1>11. Used' = Used
  BY <1>1 DEF Used
<1>12. /\ watch \in TheWatch /\ read \in Seq(Nat) /\ Len(read) = watch.cons /\ watch.cons <= watch.prod
       /\ Len(read) \in Nat /\ watch.cons \in Nat /\ watch.prod \in Nat
       /\ \A k \in watch.cons..(watch.prod - 1) : watch.paths[k % MAX_PATHS] = k + 1
  BY DEF XTypeOK, XWatch, TheWatch
<1>13. /\ watch'.listed /\ watch'.prod = watch.prod /\ watch'.paths = watch.paths
       /\ watch' \in TheWatch /\ read' \in Seq(Nat) /\ halt' \in {"none", "block", "ring_wait", "ring"}
       /\ Len(read') = watch'.cons /\ watch.cons <= watch'.cons /\ watch'.cons <= watch'.prod
       /\ \A i \in 1..Len(read') : read'[i] = i
       /\ watch'.thread = Watcher <=> pc'[Watcher] = "read_watch"
       /\ pc'[Watcher] = "read_watch" => watch'.cons = watch'.prod
  <2>1. CASE watch.cons < watch.prod
    <3>1. /\ read' = Append(read, watch.paths[watch.cons % MAX_PATHS])
          /\ watch' = [watch EXCEPT !.cons = @ + 1, !.thread = XenbusThread]
          /\ pc' = [pc EXCEPT ![Watcher] = "idle"] /\ halt' = halt
      BY <2>1 DEF ReadWatch, GoTo
    <3>2. watch.paths[watch.cons % MAX_PATHS] = watch.cons + 1
      BY <1>12, <2>1
    <3>3. /\ read' \in Seq(Nat) /\ Len(read') = Len(read) + 1 /\ read'[Len(read) + 1] = Len(read) + 1
          /\ \A j \in 1..Len(read) : read'[j] = read[j]
      BY <1>12, <3>1, <3>2, AppendOne DEF TheWatch
    <3>4. \A i \in 1..Len(read) : read[i] = i
      BY DEF XWatch
    <3>5. pc'[Watcher] = "idle"
      BY <1>3, <3>1 DEF XTypeOK
    <3>6. /\ watch' \in TheWatch /\ watch'.cons = watch.cons + 1 /\ watch'.thread = XenbusThread
          /\ watch'.listed /\ watch'.prod = watch.prod /\ watch'.paths = watch.paths
      <4>1. watch' \in TheWatch
        <5>1. PICK n \in Nat : n = watch.cons + 1
          BY <1>12
        <5>2. watch' = [watch EXCEPT !.cons = n, !.thread = XenbusThread]
          BY <3>1, <5>1
        <5> QED BY <1>12, <5>1, <5>2, Zenon DEF TheWatch
      <4>2. watch'.cons = watch.cons + 1 /\ watch'.thread = XenbusThread
        BY <1>12, <3>1 DEF TheWatch
      <4>3. watch'.listed = watch.listed /\ watch'.prod = watch.prod /\ watch'.paths = watch.paths
        BY <1>12, <3>1 DEF TheWatch
      <4> QED BY <4>1, <4>2, <4>3
    <3>7. \A i \in 1..Len(read') : read'[i] = i
      <4>1. Len(read) \in Nat
        BY <1>12
      <4>2. ASSUME NEW i \in 1..(Len(read) + 1) PROVE read'[i] = i
        <5>1. i = Len(read) + 1 \/ i \in 1..Len(read)
          BY <4>1
        <5> QED BY <3>3, <3>4, <5>1
      <4> QED BY <3>3, <4>2
    <3>8. halt' \in {"none", "block", "ring_wait", "ring"}
      BY <3>1 DEF XTypeOK
    <3>9. Watcher # XenbusThread
      OBVIOUS
    <3> QED BY <1>12, <2>1, <3>3, <3>5, <3>6, <3>7, <3>8, <3>9
  <2>2. CASE ~(watch.cons < watch.prod)
    <3>1. /\ read' = read /\ watch' = [watch EXCEPT !.thread = Watcher]
          /\ pc' = [pc EXCEPT ![Watcher] = "read_watch"] /\ halt' \in {halt, "block"}
      BY <2>2 DEF ReadWatch, GoTo, block, BlockOr
    <3>2. pc'[Watcher] = "read_watch"
      BY <1>3, <3>1 DEF XTypeOK
    <3>3. /\ watch' \in TheWatch /\ watch'.cons = watch.cons /\ watch'.thread = Watcher
          /\ watch'.listed /\ watch'.prod = watch.prod /\ watch'.paths = watch.paths
      BY <1>12, <3>1 DEF TheWatch
    <3>4. \A i \in 1..Len(read) : read[i] = i
      BY DEF XWatch
    <3>5. halt' \in {"none", "block", "ring_wait", "ring"}
      BY <3>1 DEF XTypeOK
    <3>6. watch.cons = watch.prod
      BY <1>12, <2>2
    <3> QED BY <1>12, <3>1, <3>2, <3>3, <3>4, <3>5, <3>6
  <2> QED BY <2>1, <2>2
<1>t. XTypeOK'
  BY <1>1, <1>2, <1>4, <1>6, <1>13 DEF XTypeOK, Steps
<1>s. XSteps'
  <2>1. call[Watcher].op = call'[Watcher].op \/ pc[Watcher] = "idle"
    BY <1>4 DEF XWatch
  <2> QED BY <1>1, <1>3, <1>4, <2>1 DEF XSteps, QueueSteps, AskSteps, HoldSteps, Threads
<1>i. XIds'
  BY <1>1, <1>5, <1>7, <1>11 DEF XIds
<1>m. XMail'
  <2>1. ReplyIsMine'
    BY <1>4 DEF XMail, ReplyIsMine
  <2> QED BY <1>1, <1>5, <1>7, <1>8, <2>1 DEF XMail, IsReply
<1>w. XWatch'
  <2>1. \A k \in watch'.cons..(watch'.prod - 1) : watch'.paths[k % MAX_PATHS] = k + 1
    <3> TAKE k \in watch'.cons..(watch'.prod - 1)
    <3>1. watch.cons \in Nat /\ watch'.cons \in Nat /\ watch.prod \in Nat
      BY <1>12, <1>13 DEF TheWatch
    <3>2. k \in watch.cons..(watch.prod - 1)
      BY <1>13, <3>1
    <3> HIDE DEF XenbusInv
    <3>3. watch.paths[k % MAX_PATHS] = k + 1
      BY <1>12, <3>2
    <3> QED BY <1>13, <3>3
  <2> QED BY <1>4, <1>13, <2>1 DEF XWatch, TheWatch
<1>e. XEvents'
  <2>1. ~Quiet' => watch'.prod <= store'.sent /\ store'.sent - watch'.cons <= MAX_PATHS
    <3>1. store' = store /\ store.sent \in Nat /\ (~Quiet' => ~Quiet)
      BY <1>1, <1>10 DEF XTypeOK, Stores
    <3>2. ~Quiet => watch.prod <= store.sent /\ store.sent - watch.cons <= MAX_PATHS
      BY DEF XEvents
    <3>3. watch.cons \in Nat /\ watch'.cons \in Nat
      BY <1>12, <1>13 DEF TheWatch
    <3> HIDE DEF XenbusInv
    <3> QED BY <1>13, <3>1, <3>2, <3>3
  <2> QED BY <1>1, <1>3, <1>9, <1>10, <1>13, <2>1 DEF XEvents, IsEvent, Ends
<1> QED BY <1>t, <1>s, <1>i, <1>m, <1>w, <1>e

\* A complete message is on the ring, and consuming it moves the others up.
LEMMA ConsumedEffect ==
  ASSUME XTypeOK, Complete, rsp' = Consumed
  PROVE  /\ Len(rsp.msgs) \in Nat \ {0} /\ Head(rsp.msgs) = rsp.msgs[1] /\ rsp.msgs[1] \in Messages
         /\ rsp' \in Responses /\ Len(rsp'.msgs) = Len(rsp.msgs) - 1
         /\ \A j \in 1..Len(rsp'.msgs) : j + 1 \in 1..Len(rsp.msgs) /\ rsp'.msgs[j] = rsp.msgs[j + 1]
         /\ \A j \in 1..Len(rsp.msgs) : j # 1 => j - 1 \in 1..Len(rsp'.msgs)
<1>1. /\ rsp \in Responses /\ rsp.msgs \in Seq(Messages) /\ rsp.rsp_cons \in Nat
      /\ rsp.msgs # << >>
  BY DEF XTypeOK, Responses, Complete
<1>2. PICK q : q = Tail(rsp.msgs)
  OBVIOUS
<1>3. /\ q \in Seq(Messages) /\ Head(rsp.msgs) = rsp.msgs[1] /\ Head(rsp.msgs) \in Messages
      /\ Len(rsp.msgs) \in Nat \ {0} /\ Len(q) = Len(rsp.msgs) - 1
      /\ \A j \in 1..Len(q) : q[j] = rsp.msgs[j + 1]
  BY <1>1, <1>2, TailOne
<1>4. PICK n \in Nat : n = rsp.rsp_cons + 1 + Head(rsp.msgs).len
  <2>1. Head(rsp.msgs).len \in Nat
    BY <1>3 DEF Messages
  <2> QED BY <1>1, <2>1
<1>5. rsp' = [rsp EXCEPT !.msgs = q, !.rsp_cons = n]
  BY <1>2, <1>4 DEF Consumed
<1>6. rsp' \in Responses
  BY <1>1, <1>3, <1>4, <1>5, Zenon DEF Responses
<1>7. rsp'.msgs = q
  BY <1>1, <1>5 DEF Responses
<1> QED BY <1>3, <1>6, <1>7

\* An event goes to the place of its number, which the reader has left, and wakes him.
LEMMA WatchEventKept ==
  ASSUME XenbusInv, Complete, Head(rsp.msgs).op = "event", WatchEvent(Head(rsp.msgs)),
         halt = "none", rsp' = Consumed, prod' = rsp.rsp_prod,
         UNCHANGED <<pc, req_info, waitq, nr_live_reqs, probe, call, req, event, read, store, workload>>
  PROVE  XenbusInv'
<1> USE DEF XenbusInv
<1> DEFINE n == Head(rsp.msgs).number
<1>1. /\ Len(rsp.msgs) \in Nat \ {0} /\ Head(rsp.msgs) = rsp.msgs[1] /\ rsp.msgs[1] \in Messages
      /\ rsp' \in Responses /\ Len(rsp'.msgs) = Len(rsp.msgs) - 1
      /\ \A j \in 1..Len(rsp'.msgs) : j + 1 \in 1..Len(rsp.msgs) /\ rsp'.msgs[j] = rsp.msgs[j + 1]
      /\ \A j \in 1..Len(rsp.msgs) : j # 1 => j - 1 \in 1..Len(rsp'.msgs)
  BY ConsumedEffect
<1>2. IsEvent(1) /\ 1 \in 1..Len(rsp.msgs) /\ rsp.msgs[1].number = n
  BY <1>1 DEF IsEvent
<1>3. watch.listed /\ ~Quiet
  BY <1>2 DEF XEvents, Quiet
<1>4. /\ watch.cons \in Nat /\ watch.prod \in Nat /\ watch.cons <= watch.prod /\ watch \in TheWatch
      /\ store.sent \in Nat /\ store.sent - watch.cons <= MAX_PATHS /\ watch.prod <= store.sent
      /\ n \in (watch.prod + 1)..store.sent
      /\ watch.paths \in [0..(MAX_PATHS - 1) -> Nat]
      /\ \A k \in watch.cons..(watch.prod - 1) : watch.paths[k % MAX_PATHS] = k + 1
  BY <1>2, <1>3 DEF XTypeOK, TheWatch, Stores, XWatch, XEvents
<1>5. n = watch.prod + 1
  <2>1. PICK i \in 1..Len(rsp.msgs) : IsEvent(i) /\ rsp.msgs[i].number = watch.prod + 1
    <3>1. watch.prod + 1 \in (watch.prod + 1)..store.sent
      <4> HIDE DEF n
      <4> QED BY <1>4
    <3> QED BY <1>3, <3>1 DEF XEvents
  <2>2. CASE i = 1
    BY <1>2, <2>1, <2>2
  <2>3. CASE 1 < i
    <3>1. rsp.msgs[1].number < rsp.msgs[i].number
      BY <1>2, <2>1, <2>3 DEF XEvents
    <3> QED BY <1>2, <1>4, <2>1, <3>1
  <2> QED BY <1>1, <2>1, <2>2, <2>3
<1> HIDE DEF n
<1>6. watch.prod - watch.cons < MAX_PATHS
  BY <1>4, <1>5
<1>7. /\ halt' = halt /\ runnable' = runnable \cup {watch.thread}
      /\ watch' = [watch EXCEPT !.paths[watch.prod % MAX_PATHS] = n, !.prod = @ + 1]
  BY <1>3, <1>4, <1>6 DEF WatchEvent, n
<1> DEFINE p == watch.prod % MAX_PATHS
<1>8. p \in 0..(MAX_PATHS - 1) /\ n \in Nat
  BY <1>4, <1>5
<1> HIDE DEF p
<1>9. \A k \in watch.cons..(watch.prod - 1) : k % MAX_PATHS # p /\ k % MAX_PATHS \in 0..(MAX_PATHS - 1)
  <2> TAKE k \in watch.cons..(watch.prod - 1)
  <2>0. k \in Int /\ watch.cons <= k /\ k <= watch.prod - 1
    BY <1>4
  <2>1. k \in Nat /\ k <= watch.prod /\ watch.prod < k + MAX_PATHS /\ k # watch.prod
    <3>1. k \in Nat /\ k <= watch.prod /\ k # watch.prod
      BY <1>4, <2>0
    <3>2. watch.prod < watch.cons + MAX_PATHS
      BY <1>4, <1>6, SMTT(30)
    <3>3. watch.cons + MAX_PATHS <= k + MAX_PATHS
      BY <1>4, <2>0
    <3> QED BY <1>4, <3>1, <3>2, <3>3
  <2>2. k % MAX_PATHS # watch.prod % MAX_PATHS
    BY <1>4, <2>1, SameRemainder
  <2>3. k % MAX_PATHS \in 0..(MAX_PATHS - 1)
    BY <2>1
  <2> QED BY <2>2, <2>3 DEF p
<1>10. watch' = [watch EXCEPT !.paths = [watch.paths EXCEPT ![p] = n], !.prod = watch.prod + 1]
  BY <1>7 DEF p
<1>11. /\ watch'.prod = watch.prod + 1 /\ watch'.cons = watch.cons /\ watch'.thread = watch.thread
       /\ watch'.listed = watch.listed /\ watch'.paths = [watch.paths EXCEPT ![p] = n]
  BY <1>4, <1>10 DEF TheWatch
<1>12. watch' \in TheWatch
  <2>1. PICK f \in [0..(MAX_PATHS - 1) -> Nat] : f = [watch.paths EXCEPT ![p] = n]
    BY <1>4, <1>5, <1>8
  <2>2. PICK q \in Nat : q = watch.prod + 1
    BY <1>4
  <2>3. watch' = [watch EXCEPT !.paths = f, !.prod = q]
    BY <1>10, <2>1, <2>2
  <2> QED BY <1>4, <2>1, <2>2, <2>3, Zenon DEF TheWatch
<1>13. \A k \in watch'.cons..(watch'.prod - 1) : watch'.paths[k % MAX_PATHS] = k + 1
  <2> SUFFICES ASSUME NEW k \in watch.cons..watch.prod
               PROVE  [watch.paths EXCEPT ![p] = n][k % MAX_PATHS] = k + 1
    <3>1. watch'.prod - 1 = watch.prod
      BY <1>4, <1>11
    <3> QED BY <1>11, <3>1
  <2>1. CASE k = watch.prod
    BY <1>4, <1>5, <1>8, <2>1 DEF p
  <2>2. CASE k # watch.prod
    <3>1. k \in watch.cons..(watch.prod - 1)
      BY <1>4, <2>2
    <3> QED BY <1>4, <1>9, <3>1
  <2> QED BY <2>1, <2>2
<1>14. watch.thread \in Threads
       /\ \A u \in Clients : u = watch.thread => pc[u] = "read_watch"
  BY <1>4 DEF TheWatch, Threads, XWatch
<1>15. Holders' = Holders /\ \A u \in Holders : u \in Clients /\ (u \in runnable' <=> u \in runnable)
  BY <1>7, <1>14 DEF Holders, HoldSteps
<1>16. \A m : Mine(m) => Mine(m)'
  BY <1>7, <1>14 DEF Mine
<1>18. Used' = Used
  BY DEF Used
<1>19. Unanswered' <=> Unanswered
  BY DEF Unanswered
<1>20. ~Unanswered
  BY <1>3 DEF XEvents
<1>t. XTypeOK'
  BY <1>1, <1>7, <1>12, <1>14 DEF XTypeOK, Responses
<1>s. XSteps'
  BY DEF XSteps
<1>i. XIds'
  BY <1>15, <1>18 DEF XIds
<1>m. XMail'
  <2>1. \A j \in 1..Len(rsp'.msgs) : IsReply(j)' => IsReply(j + 1) /\ Mine(rsp.msgs[j + 1])
    BY <1>1 DEF XMail, IsReply
  <2>2. (\A i \in 1..Len(rsp.msgs) : IsReply(i) => Mine(rsp.msgs[i]))'
    <3>1. ASSUME NEW j \in 1..Len(rsp'.msgs), IsReply(j)', NEW o, o = rsp'.msgs[j] PROVE Mine(o)'
      BY <1>1, <1>16, <2>1, <3>1
    <3> QED BY <3>1 DEF Mine
  <2>3. \A i \in 1..Len(rsp'.msgs) : IsReply(i)' =>
          /\ \A j \in 1..Len(req) : rsp'.msgs[i].client # req[j].client
          /\ \A m \in store.reqs : rsp'.msgs[i].client # m.client
    BY <1>1, <2>1 DEF XMail
  <2>4. \A i, j \in 1..Len(rsp'.msgs) :
          IsReply(i)' /\ IsReply(j)' /\ rsp'.msgs[i].client = rsp'.msgs[j].client => i = j
    <3> TAKE i, j \in 1..Len(rsp'.msgs)
    <3> HAVE IsReply(i)' /\ IsReply(j)' /\ rsp'.msgs[i].client = rsp'.msgs[j].client
    <3>0. /\ i + 1 \in 1..Len(rsp.msgs) /\ j + 1 \in 1..Len(rsp.msgs) /\ IsReply(i + 1)
          /\ IsReply(j + 1) /\ rsp.msgs[i + 1].client = rsp.msgs[j + 1].client
      BY <1>1, <2>1
    <3>1. i + 1 = j + 1
      BY <3>0 DEF XMail
    <3> QED BY <1>1, <3>1
  <2>5. (\A i \in 1..Len(req) : Mine(req[i]))' /\ (\A m \in store.reqs : Mine(m))'
    BY <1>16 DEF XMail
  <2> QED BY <1>15, <2>2, <2>3, <2>4, <2>5 DEF XMail, ReplyIsMine
<1>w. XWatch'
  BY <1>3, <1>4, <1>7, <1>11, <1>13 DEF XWatch
<1>e. XEvents'
  <2>1. ~Quiet' => ~Quiet
    BY <1>3
  <2>2. watch'.prod <= store.sent /\ store.sent - watch'.cons <= MAX_PATHS
    BY <1>4, <1>5, <1>11
  <2>3. \A k \in (watch'.prod + 1)..store.sent :
          \E i \in 1..Len(rsp'.msgs) : IsEvent(i)' /\ rsp'.msgs[i].number = k
    <3> TAKE k \in (watch'.prod + 1)..store.sent
    <3>1. k \in (watch.prod + 1)..store.sent /\ k # n
      BY <1>4, <1>5, <1>11
    <3>2. PICK i \in 1..Len(rsp.msgs) : IsEvent(i) /\ rsp.msgs[i].number = k
      BY <1>3, <3>1 DEF XEvents
    <3>3. i # 1
      BY <1>2, <3>1, <3>2
    <3>4. i - 1 \in 1..Len(rsp'.msgs) /\ rsp'.msgs[i - 1] = rsp.msgs[i]
      BY <1>1, <3>3
    <3> QED BY <3>2, <3>4 DEF IsEvent
  <2>4. \A i \in 1..Len(rsp'.msgs) : IsEvent(i)' =>
          /\ rsp'.msgs[i].number \in (watch'.prod + 1)..store.sent
          /\ \A j \in 1..Len(rsp'.msgs) :
               IsEvent(j)' /\ i < j => rsp'.msgs[i].number < rsp'.msgs[j].number
    <3> SUFFICES ASSUME NEW i \in 1..Len(rsp'.msgs), IsEvent(i)'
                 PROVE  /\ rsp'.msgs[i].number \in (watch'.prod + 1)..store.sent
                        /\ \A j \in 1..Len(rsp'.msgs) :
                             IsEvent(j)' /\ i < j => rsp'.msgs[i].number < rsp'.msgs[j].number
      OBVIOUS
    <3>1. i + 1 \in 1..Len(rsp.msgs) /\ IsEvent(i + 1) /\ 1 < i + 1
      BY <1>1 DEF IsEvent
    <3>2. rsp.msgs[i + 1].number \in (watch.prod + 1)..store.sent /\ n < rsp.msgs[i + 1].number
      BY <1>2, <3>1 DEF XEvents
    <3>3. rsp'.msgs[i].number \in (watch'.prod + 1)..store.sent
      <4>1. PICK x : x = rsp.msgs[i + 1].number
        OBVIOUS
      <4>2. x \in (watch.prod + 2)..store.sent
        BY <1>4, <1>5, <3>2, <4>1, SMTT(30)
      <4>3. watch'.prod + 1 = watch.prod + 2
        BY <1>4, <1>11
      <4>4. rsp'.msgs[i].number = x
        BY <1>1, <4>1
      <4> QED BY <4>2, <4>3, <4>4
    <3>4. \A j \in 1..Len(rsp'.msgs) : IsEvent(j)' /\ i < j =>
            rsp'.msgs[i].number < rsp'.msgs[j].number
      <4> TAKE j \in 1..Len(rsp'.msgs)
      <4> HAVE IsEvent(j)' /\ i < j
      <4>1. j + 1 \in 1..Len(rsp.msgs) /\ IsEvent(j + 1) /\ i + 1 < j + 1
        BY <1>1 DEF IsEvent
      <4>2. rsp.msgs[i + 1].number < rsp.msgs[j + 1].number
        BY <3>1, <4>1 DEF XEvents
      <4> QED BY <1>1, <4>2
    <3> QED BY <3>3, <3>4
  <2>5. \A i \in 1..Len(rsp'.msgs) : Ends(rsp'.msgs[i]) =>
          ~store.watching /\ \A j \in 1..Len(rsp'.msgs) : i < j => ~IsEvent(j)'
    <3>1. \A i \in 1..Len(rsp.msgs) : Ends(rsp.msgs[i]) =>
            ~store.watching /\ \A j \in 1..Len(rsp.msgs) : i < j => ~IsEvent(j)
      BY DEF XEvents
    <3>2. \A j \in 1..Len(rsp'.msgs) :
            j \in Int /\ j + 1 \in 1..Len(rsp.msgs) /\ (IsEvent(j)' => IsEvent(j + 1))
      BY <1>1 DEF IsEvent
    <3> SUFFICES ASSUME NEW i \in 1..Len(rsp'.msgs), Ends(rsp'.msgs[i])
                 PROVE  /\ ~store.watching
                        /\ \A j \in 1..Len(rsp'.msgs) : i < j => ~IsEvent(j)'
      OBVIOUS
    <3>3. i + 1 \in 1..Len(rsp.msgs) /\ Ends(rsp.msgs[i + 1])
      BY <1>1, <3>2
    <3>4. ~store.watching /\ \A j \in 1..Len(rsp.msgs) : i + 1 < j => ~IsEvent(j)
      BY <3>1, <3>3
    <3>5. ASSUME NEW j \in 1..Len(rsp'.msgs), i < j PROVE ~IsEvent(j)'
      <4>1. j + 1 \in 1..Len(rsp.msgs) /\ i + 1 < j + 1 /\ (IsEvent(j)' => IsEvent(j + 1))
        BY <3>2, <3>5
      <4> QED BY <3>4, <4>1
    <3> QED BY <3>4, <3>5
  <2>6. Watcher \in runnable' /\ pc[Watcher] = "sent" => Watcher \in runnable
    BY <1>7, <1>14
  <2>7. ~(pc[Watcher] = "unwatch") /\ ~(pc[Watcher] = "watch" /\ ~call[Watcher].rep.ok)
    BY <1>3 DEF XEvents
  <2> QED BY <1>3, <1>11, <1>19, <1>20, <2>2, <2>3, <2>4, <2>5, <2>6, <2>7 DEF XEvents
<1> QED BY <1>1, <1>t, <1>s, <1>i, <1>m, <1>w, <1>e

\* A reply goes to the id of its request, and wakes the client that sleeps for it.
LEMMA ReplyKept ==
  ASSUME XenbusInv, Complete, Head(rsp.msgs).op # "event", Reply(Head(rsp.msgs)),
         halt = "none", rsp' = Consumed, prod' = rsp.rsp_prod,
         UNCHANGED <<pc, waitq, nr_live_reqs, probe, call, req, event, watch, read, store, workload>>
  PROVE  XenbusInv'
<1> USE DEF XenbusInv
<1>1. /\ Len(rsp.msgs) \in Nat \ {0} /\ Head(rsp.msgs) = rsp.msgs[1] /\ rsp.msgs[1] \in Messages
      /\ rsp' \in Responses /\ Len(rsp'.msgs) = Len(rsp.msgs) - 1
      /\ \A j \in 1..Len(rsp'.msgs) : j + 1 \in 1..Len(rsp.msgs) /\ rsp'.msgs[j] = rsp.msgs[j + 1]
      /\ \A j \in 1..Len(rsp.msgs) : j # 1 => j - 1 \in 1..Len(rsp'.msgs)
  BY ConsumedEffect
<1>2. PICK m : m = rsp.msgs[1]
  OBVIOUS
<1>3. PICK t : t = m.client
  OBVIOUS
<1>4. PICK id : id = call[t].id
  OBVIOUS
<1>5. /\ IsReply(1) /\ 1 \in 1..Len(rsp.msgs) /\ m \in Messages /\ Mine(m)
  BY <1>1, <1>2 DEF IsReply, XMail
<1>6. /\ t \in Clients /\ pc[t] = "sent" /\ t \notin runnable /\ m.id = id
      /\ m.number = call[t].number /\ m.op = call[t].op
  BY <1>3, <1>4, <1>5 DEF Mine
<1>7. t \in Holders /\ id \in Ids /\ req_info[id].in_use /\ req_info[id].waitq = {t}
  BY <1>4, <1>6 DEF Holders, HoldSteps, XIds, XTypeOK, Calleds
<1>8. PICK r : r = [client |-> m.client, number |-> m.number, ok |-> m.ok]
  OBVIOUS
<1>9. r \in Replies /\ r.client = t /\ r.number = call[t].number /\ r.ok = m.ok
  BY <1>3, <1>5, <1>6, <1>8 DEF Messages, Replies
<1>10. /\ halt' = halt /\ runnable' = runnable \cup {t}
       /\ req_info' = [req_info EXCEPT ![id].reply = r]
  BY <1>1, <1>2, <1>6, <1>7, <1>8 DEF Reply, wake_up
<1>11. /\ req_info' \in [Ids -> Infos]
       /\ \A i \in Ids : req_info'[i].in_use = req_info[i].in_use /\ req_info'[i].waitq = req_info[i].waitq
       /\ \A i \in Ids \ {id} : req_info'[i] = req_info[i]
       /\ req_info'[id].reply = r
  BY <1>7, <1>9, <1>10, ZenonT(90) DEF XTypeOK, Infos
<1>12. Holders' = Holders
  BY DEF Holders
<1>13. Used' = Used
  BY <1>11 DEF Used
<1>14. \A u \in Holders \ {t} :
         /\ u \in Clients /\ (u \in runnable' <=> u \in runnable)
         /\ call[u].id \in Ids \ {id}
  BY <1>4, <1>7, <1>10 DEF Holders, XIds, XTypeOK, Calleds
<1>15. \A o : Mine(o) /\ o.client # t => Mine(o)'
  BY <1>10 DEF Mine
<1>16. /\ \A j \in 1..Len(req) : req[j].client # t
       /\ \A o \in store.reqs : o.client # t
       /\ \A j \in 1..Len(rsp'.msgs) : IsReply(j)' =>
            IsReply(j + 1) /\ Mine(rsp.msgs[j + 1]) /\ rsp'.msgs[j].client # t
  <2>1. /\ \A j \in 1..Len(req) : req[j].client # t
        /\ \A o \in store.reqs : o.client # t
    BY <1>2, <1>3, <1>5 DEF XMail
  <2>2. ASSUME NEW j \in 1..Len(rsp'.msgs), IsReply(j)'
        PROVE  IsReply(j + 1) /\ Mine(rsp.msgs[j + 1]) /\ rsp'.msgs[j].client # t
    <3>1. j + 1 \in 1..Len(rsp.msgs) /\ IsReply(j + 1) /\ j + 1 # 1
      BY <1>1, <2>2 DEF IsReply
    <3>2. rsp.msgs[j + 1].client # t
      BY <1>2, <1>3, <1>5, <3>1 DEF XMail
    <3> QED BY <1>1, <3>1, <3>2 DEF XMail
  <2> QED BY <2>1, <2>2
<1>17. ASSUME NEW j \in 1..Len(rsp'.msgs), IsEvent(j)'
       PROVE  j + 1 \in 1..Len(rsp.msgs) /\ IsEvent(j + 1) /\ rsp'.msgs[j] = rsp.msgs[j + 1]
  BY <1>1, <1>17 DEF IsEvent
<1>18. Quiet => Quiet'
  BY <1>17 DEF Quiet
<1>19. Unanswered' <=> Unanswered
  BY DEF Unanswered
<1>t. XTypeOK'
  BY <1>1, <1>6, <1>10, <1>11 DEF XTypeOK, Responses, Threads
<1>s. XSteps'
  BY DEF XSteps
<1>i. XIds'
  BY <1>4, <1>7, <1>11, <1>12, <1>13, <1>14 DEF XIds
<1>m. XMail'
  <2>1. /\ (\A i \in 1..Len(req) : Mine(req[i]))' /\ (\A o \in store.reqs : Mine(o))'
    BY <1>15, <1>16 DEF XMail
  <2>2. (\A i \in 1..Len(rsp.msgs) : IsReply(i) => Mine(rsp.msgs[i]))'
    <3>1. ASSUME NEW j \in 1..Len(rsp'.msgs), IsReply(j)', NEW o, o = rsp'.msgs[j] PROVE Mine(o)'
      BY <1>1, <1>15, <1>16, <3>1
    <3> QED BY <3>1 DEF Mine
  <2>3. \A i \in 1..Len(rsp'.msgs) : IsReply(i)' =>
          /\ \A j \in 1..Len(req) : rsp'.msgs[i].client # req[j].client
          /\ \A o \in store.reqs : rsp'.msgs[i].client # o.client
    BY <1>1, <1>16, SMTT(30) DEF XMail
  <2>4. \A i, j \in 1..Len(rsp'.msgs) :
          IsReply(i)' /\ IsReply(j)' /\ rsp'.msgs[i].client = rsp'.msgs[j].client => i = j
    <3> TAKE i, j \in 1..Len(rsp'.msgs)
    <3> HAVE IsReply(i)' /\ IsReply(j)' /\ rsp'.msgs[i].client = rsp'.msgs[j].client
    <3>1. /\ i + 1 \in 1..Len(rsp.msgs) /\ j + 1 \in 1..Len(rsp.msgs) /\ IsReply(i + 1)
          /\ IsReply(j + 1) /\ rsp.msgs[i + 1].client = rsp.msgs[j + 1].client
      BY <1>1, <1>16
    <3>2. i + 1 = j + 1
      BY <3>1 DEF XMail
    <3> QED BY <1>1, <3>2
  <2>5. \A u \in Holders : u \in runnable' =>
          LET q == req_info'[call[u].id].reply IN
          pc[u] = "sent" /\ q.client = u /\ q.number = call[u].number
    BY <1>4, <1>6, <1>9, <1>11, <1>14 DEF XMail
  <2> QED BY <1>12, <2>1, <2>2, <2>3, <2>4, <2>5 DEF XMail, ReplyIsMine
<1>w. XWatch'
  BY <1>10 DEF XWatch
<1>e. XEvents'
  <2>1. ~Quiet' => \A n \in (watch.prod + 1)..store.sent :
          \E i \in 1..Len(rsp'.msgs) : IsEvent(i)' /\ rsp'.msgs[i].number = n
    <3> HAVE ~Quiet'
    <3> TAKE n \in (watch.prod + 1)..store.sent
    <3>1. PICK i \in 1..Len(rsp.msgs) : IsEvent(i) /\ rsp.msgs[i].number = n
      BY <1>18 DEF XEvents
    <3>2. i # 1
      BY <1>5, <3>1 DEF IsEvent, IsReply
    <3>3. i - 1 \in 1..Len(rsp'.msgs) /\ rsp'.msgs[i - 1] = rsp.msgs[i]
      BY <1>1, <3>2
    <3> QED BY <3>1, <3>3 DEF IsEvent
  <2>2. \A i \in 1..Len(rsp'.msgs) : IsEvent(i)' =>
          /\ rsp'.msgs[i].number \in (watch.prod + 1)..store.sent
          /\ \A j \in 1..Len(rsp'.msgs) :
               IsEvent(j)' /\ i < j => rsp'.msgs[i].number < rsp'.msgs[j].number
    <3> SUFFICES ASSUME NEW i \in 1..Len(rsp'.msgs), IsEvent(i)'
                 PROVE  /\ rsp'.msgs[i].number \in (watch.prod + 1)..store.sent
                        /\ \A j \in 1..Len(rsp'.msgs) :
                             IsEvent(j)' /\ i < j => rsp'.msgs[i].number < rsp'.msgs[j].number
      OBVIOUS
    <3>1. rsp'.msgs[i].number \in (watch.prod + 1)..store.sent
      BY <1>17 DEF XEvents
    <3>2. ASSUME NEW j \in 1..Len(rsp'.msgs), IsEvent(j)', i < j
          PROVE  rsp'.msgs[i].number < rsp'.msgs[j].number
      <4>1. i + 1 < j + 1
        BY <1>1, <3>2
      <4>2. /\ i + 1 \in 1..Len(rsp.msgs) /\ IsEvent(i + 1) /\ rsp'.msgs[i] = rsp.msgs[i + 1]
            /\ j + 1 \in 1..Len(rsp.msgs) /\ IsEvent(j + 1) /\ rsp'.msgs[j] = rsp.msgs[j + 1]
        BY <1>17, <3>2
      <4>3. rsp.msgs[i + 1].number < rsp.msgs[j + 1].number
        BY <4>1, <4>2 DEF XEvents
      <4> QED BY <4>2, <4>3
    <3> QED BY <3>1, <3>2
  <2>3. \A i \in 1..Len(rsp'.msgs) : Ends(rsp'.msgs[i]) =>
          ~store.watching /\ \A j \in 1..Len(rsp'.msgs) : i < j => ~IsEvent(j)'
    <3> SUFFICES ASSUME NEW i \in 1..Len(rsp'.msgs), Ends(rsp'.msgs[i])
                 PROVE  ~store.watching /\ \A j \in 1..Len(rsp'.msgs) : i < j => ~IsEvent(j)'
      OBVIOUS
    <3>1. i + 1 \in 1..Len(rsp.msgs) /\ Ends(rsp.msgs[i + 1])
      BY <1>1
    <3>2. ~store.watching /\ \A j \in 1..Len(rsp.msgs) : i + 1 < j => ~IsEvent(j)
      BY <3>1 DEF XEvents
    <3>3. ASSUME NEW j \in 1..Len(rsp'.msgs), i < j, IsEvent(j)' PROVE FALSE
      BY <1>17, <3>2, <3>3
    <3> QED BY <3>2, <3>3
  <2>4. pc[Watcher] = "sent" /\ Watcher \in runnable' =>
          LET c == call[Watcher] IN
          c.op = "unwatch" \/ (c.op = "watch" /\ ~req_info'[c.id].reply.ok) => Quiet'
    <3>1. CASE t = Watcher
      <4> SUFFICES ASSUME call[Watcher].op = "unwatch"
                          \/ (call[Watcher].op = "watch" /\ ~req_info'[call[Watcher].id].reply.ok)
                   PROVE  Quiet'
        OBVIOUS
      <4>1. Ends(m)
        BY <1>4, <1>6, <1>9, <1>11, <3>1 DEF Ends
      <4>2. ~store.watching /\ \A j \in 1..Len(rsp.msgs) : 1 < j => ~IsEvent(j)
        BY <1>2, <1>5, <4>1 DEF XEvents
      <4>3. ASSUME NEW j \in 1..Len(rsp'.msgs), IsEvent(j)' PROVE FALSE
        <5>1. j + 1 \in 1..Len(rsp.msgs) /\ IsEvent(j + 1) /\ 1 < j + 1
          BY <1>1, <1>17, <4>3
        <5> QED BY <4>2, <5>1
      <4> QED BY <4>2, <4>3 DEF Quiet
    <3>2. CASE t # Watcher
      <4> SUFFICES ASSUME pc[Watcher] = "sent", Watcher \in runnable' PROVE
             LET c == call[Watcher] IN
             c.op = "unwatch" \/ (c.op = "watch" /\ ~req_info'[c.id].reply.ok) => Quiet'
        OBVIOUS
      <4>1. Watcher \in Holders \ {t}
        BY <3>2 DEF Holders, HoldSteps
      <4>2. Watcher \in runnable /\ req_info'[call[Watcher].id] = req_info[call[Watcher].id]
        BY <1>11, <1>14, <4>1
      <4> QED BY <1>18, <4>2 DEF XEvents
    <3> QED BY <3>1, <3>2
  <2> QED BY <1>18, <1>19, <2>1, <2>2, <2>3, <2>4 DEF XEvents
<1> QED BY <1>1, <1>t, <1>s, <1>i, <1>m, <1>w, <1>e

\* A request moves from the ring to the store.
LEMMA StoreTakesKept ==
  ASSUME XenbusInv, StoreTakes PROVE XenbusInv'
<1> USE DEF XenbusInv
<1>1. /\ req # << >> /\ store' = [store EXCEPT !.reqs = @ \cup {Head(req)}]
      /\ req' = Tail(req) /\ event' = TRUE
      /\ UNCHANGED <<pc, runnable, waitq, req_info, nr_live_reqs, probe, call, rsp, prod, watch, read,
                     workload, halt>>
  BY DEF StoreTakes, driverVars, watchVars
<1>2. PICK m : m = Head(req)
  OBVIOUS
<1>3. /\ req' \in Seq(Requests) /\ m = req[1] /\ m \in Requests /\ Len(req) \in Nat \ {0}
      /\ Len(req') = Len(req) - 1 /\ \A j \in 1..Len(req') : req'[j] = req[j + 1]
  BY <1>1, <1>2, TailOne DEF XTypeOK
<1>4. store' \in Stores /\ store'.reqs = store.reqs \cup {m}
      /\ store'.watching = store.watching /\ store'.sent = store.sent
  BY <1>1, <1>2, <1>3 DEF XTypeOK, Stores
<1>5. 1 \in 1..Len(req) /\ \A j \in 1..Len(req') : j + 1 \in 1..Len(req) /\ j + 1 # 1
  BY <1>3
<1>6. Mine(m) /\ \A j \in 1..Len(req') : Mine(req[j + 1]) /\ req'[j].client # m.client
  BY <1>3, <1>5 DEF XMail
<1>7. Holders' = Holders /\ Used' = Used
  BY <1>1 DEF Holders, Used
<1>8. \A o : Mine(o) => Mine(o)'
  BY <1>1 DEF Mine
<1>9. Quiet' <=> Quiet
  BY <1>1, <1>4 DEF Quiet, IsEvent
<1>10. Unanswered' => Unanswered
  <2>1. (\E i \in 1..Len(req') : req'[i].client = Watcher) => \E i \in 1..Len(req) : req[i].client = Watcher
    BY <1>3, <1>5
  <2>2. (\E o \in store'.reqs : o.client = Watcher)
          => (\E i \in 1..Len(req) : req[i].client = Watcher) \/ \E o \in store.reqs : o.client = Watcher
    BY <1>3, <1>4, <1>5
  <2> QED BY <1>1, <2>1, <2>2 DEF Unanswered
<1>t. XTypeOK'
  BY <1>1, <1>3, <1>4 DEF XTypeOK
<1>s. XSteps'
  BY <1>1 DEF XSteps
<1>i. XIds'
  BY <1>1, <1>7 DEF XIds
<1>m. XMail'
  <2>1. (\A i \in 1..Len(req) : Mine(req[i]))'
    <3>1. ASSUME NEW j \in 1..Len(req'), NEW o, o = req'[j] PROVE Mine(o)'
      <4>1. o = req[j + 1]
        BY <1>3, <3>1
      <4> QED BY <1>6, <1>8, <4>1
    <3> QED BY <3>1 DEF Mine
  <2>2. (\A o \in store.reqs : Mine(o))'
    <3>1. ASSUME NEW o \in store'.reqs PROVE Mine(o)'
      BY <1>4, <1>6, <1>8 DEF XMail
    <3> QED BY <3>1
  <2>3. (\A i \in 1..Len(rsp.msgs) : IsReply(i) => Mine(rsp.msgs[i]))'
    BY <1>1, <1>8 DEF XMail, IsReply
  <2>4. \A i, j \in 1..Len(req') : req'[i].client = req'[j].client => i = j
    <3> TAKE i, j \in 1..Len(req')
    <3> HAVE req'[i].client = req'[j].client
    <3>0. /\ i + 1 \in 1..Len(req) /\ j + 1 \in 1..Len(req)
          /\ req[i + 1].client = req[j + 1].client
      BY <1>3, <1>5
    <3>1. i + 1 = j + 1
      BY <3>0 DEF XMail
    <3> QED BY <1>3, <3>1
  <2>5. \A i \in 1..Len(req') : \A o \in store'.reqs : req'[i].client # o.client
    <3> TAKE i \in 1..Len(req')
    <3>1. i + 1 \in 1..Len(req) /\ req'[i] = req[i + 1] /\ req'[i].client # m.client
      BY <1>3, <1>5, <1>6
    <3>2. \A o \in store.reqs : req[i + 1].client # o.client
      BY <3>1 DEF XMail
    <3> QED BY <1>4, <3>1, <3>2
  <2>6. \A i \in 1..Len(rsp.msgs) : IsReply(i) =>
          /\ \A j \in 1..Len(req') : rsp.msgs[i].client # req'[j].client
          /\ \A o \in store'.reqs : rsp.msgs[i].client # o.client
    <3> SUFFICES ASSUME NEW i \in 1..Len(rsp.msgs), IsReply(i)
                 PROVE  /\ \A j \in 1..Len(req') : rsp.msgs[i].client # req'[j].client
                        /\ \A o \in store'.reqs : rsp.msgs[i].client # o.client
      OBVIOUS
    <3>1. /\ \A j \in 1..Len(req) : rsp.msgs[i].client # req[j].client
          /\ \A o \in store.reqs : rsp.msgs[i].client # o.client
      BY DEF XMail
    <3> QED BY <1>3, <1>4, <1>5, <3>1
  <2>7. ReplyIsMine'
    BY <1>1 DEF XMail, ReplyIsMine
  <2> QED BY <1>1, <1>7, <2>1, <2>2, <2>3, <2>4, <2>5, <2>6, <2>7 DEF XMail, IsReply
<1>w. XWatch'
  BY <1>1 DEF XWatch, NoWatch
<1>e. XEvents'
  BY <1>1, <1>4, <1>9, <1>10 DEF XEvents, IsEvent, Ends
<1> QED BY <1>t, <1>s, <1>i, <1>m, <1>w, <1>e

\* A header appears: one message more.
LEMMA WritesEffect ==
  ASSUME XTypeOK, NEW o \in Messages, StoreWrites(o)
  PROVE  /\ halt = "none" /\ event' = TRUE /\ rsp' \in Responses
         /\ UNCHANGED <<pc, runnable, waitq, req_info, nr_live_reqs, probe, call, req, prod, watch, read,
                        workload, halt>>
         /\ Len(rsp.msgs) \in Nat /\ Len(rsp'.msgs) = Len(rsp.msgs) + 1
         /\ rsp'.msgs[Len(rsp.msgs) + 1] = o
         /\ \A j \in 1..Len(rsp.msgs) : rsp'.msgs[j] = rsp.msgs[j]
         /\ 1..Len(rsp'.msgs) = (1..Len(rsp.msgs)) \cup {Len(rsp.msgs) + 1}
<1>1. /\ rsp.msgs \in Seq(Messages) /\ rsp.rsp_prod \in Nat /\ rsp.rsp_cons \in Nat
  BY DEF XTypeOK, Responses
<1>2. PICK q : q = Append(rsp.msgs, o)
  OBVIOUS
<1>3. /\ q \in Seq(Messages) /\ Len(rsp.msgs) \in Nat /\ Len(q) = Len(rsp.msgs) + 1
      /\ q[Len(rsp.msgs) + 1] = o /\ \A j \in 1..Len(rsp.msgs) : q[j] = rsp.msgs[j]
  BY <1>1, <1>2, AppendOne
<1>4. PICK n \in Nat : n = rsp.rsp_prod + 1
  BY <1>1
<1>5. /\ rsp' = [rsp EXCEPT !.msgs = q, !.rsp_prod = n, !.rest = o.len]
      /\ halt = "none" /\ event' = TRUE
      /\ UNCHANGED <<pc, runnable, waitq, req_info, nr_live_reqs, probe, call, req, prod, watch, read,
                     workload, halt>>
  BY <1>2, <1>4 DEF StoreWrites, Awake, driverVars, watchVars
<1>6. rsp' \in Responses
  <2>1. PICK l \in Nat : l = o.len
    BY DEF Messages
  <2>2. rsp' = [rsp EXCEPT !.msgs = q, !.rsp_prod = n, !.rest = l] /\ rsp \in Responses
    BY <1>5, <2>1 DEF XTypeOK
  <2> QED BY <1>3, <1>4, <2>1, <2>2, Zenon DEF Responses
<1>7. rsp'.msgs = q
  BY <1>5 DEF XTypeOK, Responses
<1>8. 1..Len(q) = (1..Len(rsp.msgs)) \cup {Len(rsp.msgs) + 1}
  BY <1>3
<1> QED BY <1>3, <1>5, <1>6, <1>7, <1>8

\* The payload follows.
LEMMA StoreCompletesKept ==
  ASSUME XenbusInv, StoreCompletes PROVE XenbusInv'
<1> USE DEF XenbusInv
<1>1. /\ rsp.rest > 0 /\ rsp' = [rsp EXCEPT !.rsp_prod = @ + 1, !.rest = @ - 1]
      /\ event' = TRUE
      /\ UNCHANGED <<pc, runnable, waitq, req_info, nr_live_reqs, probe, call, req, prod, watch, read,
                     store, workload, halt>>
  BY DEF StoreCompletes, driverVars, watchVars
<1>0. PICK n \in Nat, l \in Nat : n = rsp.rsp_prod + 1 /\ l = rsp.rest - 1
  BY <1>1 DEF XTypeOK, Responses
<1>2. rsp' \in Responses /\ rsp'.msgs = rsp.msgs
  <2>1. rsp' = [rsp EXCEPT !.rsp_prod = n, !.rest = l] /\ rsp \in Responses
    BY <1>0, <1>1 DEF XTypeOK
  <2>2. rsp' \in Responses
    BY <1>0, <2>1, Zenon DEF Responses
  <2> QED BY <2>1, <2>2 DEF Responses
<1>3. Holders' = Holders /\ Used' = Used
  BY <1>1 DEF Holders, Used
<1>4. \A o : Mine(o) => Mine(o)'
  BY <1>1 DEF Mine
<1>5. Quiet' <=> Quiet
  BY <1>1, <1>2 DEF Quiet, IsEvent
<1>6. Unanswered' <=> Unanswered
  BY <1>1 DEF Unanswered
<1>t. XTypeOK'
  BY <1>1, <1>2 DEF XTypeOK
<1>s. XSteps'
  BY <1>1 DEF XSteps
<1>i. XIds'
  BY <1>1, <1>3 DEF XIds
<1>m. XMail'
  BY <1>1, <1>2, <1>3, <1>4 DEF XMail, IsReply, ReplyIsMine
<1>w. XWatch'
  BY <1>1 DEF XWatch, NoWatch
<1>e. XEvents'
  BY <1>1, <1>2, <1>5, <1>6 DEF XEvents, IsEvent, Ends
<1> QED BY <1>t, <1>s, <1>i, <1>m, <1>w, <1>e

\* Falling asleep and waking, the store touches nothing else.
LEMMA AsleepKept ==
  ASSUME XenbusInv, NEW b \in BOOLEAN, store' = [store EXCEPT !.asleep = b],
         UNCHANGED <<pc, runnable, waitq, driverVars, call, ringVars, watchVars, workload, halt>>
  PROVE  XenbusInv'
<1> USE DEF XenbusInv
<1>1. /\ UNCHANGED <<pc, runnable, waitq, req_info, nr_live_reqs, probe, call, req, rsp, prod, event,
                     watch, read, workload, halt>>
      /\ store' \in Stores /\ store'.reqs = store.reqs /\ store'.watching = store.watching
      /\ store'.sent = store.sent
  BY DEF driverVars, ringVars, watchVars, XTypeOK, Stores
<1>2. Holders' = Holders /\ Used' = Used
  BY <1>1 DEF Holders, Used
<1>3. \A o : Mine(o) => Mine(o)'
  BY <1>1 DEF Mine
<1>4. Quiet' <=> Quiet
  BY <1>1 DEF Quiet, IsEvent
<1>5. Unanswered' <=> Unanswered
  BY <1>1 DEF Unanswered
<1>t. XTypeOK'
  BY <1>1 DEF XTypeOK
<1>s. XSteps'
  BY <1>1 DEF XSteps
<1>i. XIds'
  BY <1>1, <1>2 DEF XIds
<1>m. XMail'
  BY <1>1, <1>2, <1>3 DEF XMail, IsReply, ReplyIsMine
<1>w. XWatch'
  BY <1>1 DEF XWatch, NoWatch
<1>e. XEvents'
  BY <1>1, <1>4, <1>5 DEF XEvents, IsEvent, Ends
<1> QED BY <1>t, <1>s, <1>i, <1>m, <1>w, <1>e

\* A watch event follows those sent before it.
LEMMA StoreNotifiesKept ==
  ASSUME XenbusInv, StoreNotifies PROVE XenbusInv'
<1> USE DEF XenbusInv
<1>0. PICK len \in workload.payloads :
        StoreWrites([id |-> 0, client |-> XenbusThread, number |-> store.sent + 1,
                     op |-> "event", len |-> len, ok |-> TRUE])
  BY DEF StoreNotifies
<1>l. len \in Nat
  BY <1>0, WorkloadsAssumption DEF XTypeOK
<1>1. PICK o : o = [id |-> 0, client |-> XenbusThread, number |-> store.sent + 1,
                    op |-> "event", len |-> len, ok |-> TRUE]
  OBVIOUS
<1>2. /\ store.watching /\ store.sent - Len(read) < MAX_PATHS /\ StoreWrites(o)
      /\ store' = [store EXCEPT !.sent = @ + 1]
  BY <1>0, <1>1 DEF StoreNotifies
<1>3. store.sent \in Nat /\ store' \in Stores /\ store'.sent = store.sent + 1
      /\ store'.reqs = store.reqs /\ store'.watching
  <2>0. store.sent \in Nat /\ store \in Stores
    BY DEF XTypeOK, Stores
  <2>1. PICK k \in Nat : k = store.sent + 1
    BY <2>0
  <2>2. store' = [store EXCEPT !.sent = k]
    BY <1>2, <2>1
  <2>3. store' \in Stores
    BY <2>0, <2>1, <2>2, Zenon DEF Stores
  <2>4. store'.sent = k /\ store'.reqs = store.reqs /\ store'.watching = store.watching
    BY <2>0, <2>2 DEF Stores
  <2> QED BY <1>2, <2>0, <2>1, <2>3, <2>4
<1>4. o \in Messages /\ o.op = "event" /\ o.number = store.sent + 1
  BY <1>1, <1>3, <1>l DEF Messages, Threads, Ids
<1>n. PICK n : n = Len(rsp.msgs) + 1
  OBVIOUS
<1>5. /\ halt = "none" /\ event' = TRUE /\ rsp' \in Responses
      /\ UNCHANGED <<pc, runnable, waitq, req_info, nr_live_reqs, probe, call, req, prod, watch, read,
                     workload, halt>>
      /\ Len(rsp.msgs) \in Nat /\ Len(rsp'.msgs) = n /\ rsp'.msgs[n] = o
      /\ \A j \in 1..Len(rsp.msgs) : rsp'.msgs[j] = rsp.msgs[j]
      /\ 1..Len(rsp'.msgs) = (1..Len(rsp.msgs)) \cup {n}
  BY <1>2, <1>4, <1>n, WritesEffect
<1>6. \A j \in 1..Len(rsp.msgs) : j < n /\ j # n /\ ~(n < j)
  BY <1>5, <1>n
<1>7. watch.listed /\ ~Quiet /\ ~Unanswered
  BY <1>2 DEF XEvents, Quiet
<1>8. watch.prod \in Nat /\ watch.cons \in Nat /\ watch.prod <= store.sent /\ Len(read) = watch.cons
  BY <1>7 DEF XTypeOK, TheWatch, XEvents, XWatch
<1>9. Holders' = Holders /\ Used' = Used
  BY <1>5 DEF Holders, Used
<1>10. \A m : Mine(m) => Mine(m)'
  BY <1>5 DEF Mine
<1>11. Unanswered' <=> Unanswered
  BY <1>3, <1>5 DEF Unanswered
<1>12. ~IsReply(n)' /\ IsEvent(n)'
  BY <1>4, <1>5 DEF IsReply, IsEvent
<1>13. \A i \in 1..Len(rsp'.msgs) : IsReply(i)' => i \in 1..Len(rsp.msgs) /\ IsReply(i)
  BY <1>5, <1>12 DEF IsReply
<1>14. \A i \in 1..Len(rsp.msgs) : IsEvent(i)' <=> IsEvent(i)
  BY <1>5 DEF IsEvent
<1>t. XTypeOK'
  BY <1>3, <1>5 DEF XTypeOK
<1>s. XSteps'
  BY <1>5 DEF XSteps
<1>i. XIds'
  BY <1>5, <1>9 DEF XIds
<1>m. XMail'
  <2>1. (\A i \in 1..Len(rsp.msgs) : IsReply(i) => Mine(rsp.msgs[i]))'
    <3>1. ASSUME NEW j \in 1..Len(rsp'.msgs), IsReply(j)', NEW m, m = rsp'.msgs[j] PROVE Mine(m)'
      <4>1. j \in 1..Len(rsp.msgs) /\ IsReply(j) /\ m = rsp.msgs[j]
        BY <1>5, <1>13, <3>1
      <4> QED BY <1>10, <4>1 DEF XMail
    <3> QED BY <3>1 DEF Mine
  <2>2. (\A i \in 1..Len(req) : Mine(req[i]))' /\ (\A m \in store.reqs : Mine(m))'
    BY <1>3, <1>5, <1>10 DEF XMail
  <2>3. \A i \in 1..Len(rsp'.msgs) : IsReply(i)' =>
          /\ \A j \in 1..Len(req) : rsp'.msgs[i].client # req[j].client
          /\ \A m \in store.reqs : rsp'.msgs[i].client # m.client
          /\ \A j \in 1..Len(rsp'.msgs) :
               IsReply(j)' /\ rsp'.msgs[i].client = rsp'.msgs[j].client => i = j
    BY <1>5, <1>13, SMTT(30) DEF XMail
  <2>4. ReplyIsMine'
    BY <1>5 DEF XMail, ReplyIsMine
  <2> QED BY <1>3, <1>5, <1>9, <2>1, <2>2, <2>3, <2>4 DEF XMail
<1>w. XWatch'
  BY <1>5 DEF XWatch, NoWatch
<1>e. XEvents'
  <2>1. watch.prod <= store'.sent /\ store'.sent - watch.cons <= MAX_PATHS
    BY <1>2, <1>3, <1>8
  <2>2. \A k \in (watch.prod + 1)..store'.sent :
          \E i \in 1..Len(rsp'.msgs) : IsEvent(i)' /\ rsp'.msgs[i].number = k
    <3> TAKE k \in (watch.prod + 1)..store'.sent
    <3>1. CASE k = store.sent + 1
      BY <1>4, <1>5, <1>12, <3>1
    <3>2. CASE k \in (watch.prod + 1)..store.sent
      <4>1. PICK i \in 1..Len(rsp.msgs) : IsEvent(i) /\ rsp.msgs[i].number = k
        BY <1>7, <3>2 DEF XEvents
      <4> QED BY <1>5, <1>14, <4>1
    <3> QED BY <1>3, <1>8, <3>1, <3>2
  <2>3. \A i \in 1..Len(rsp.msgs) : IsEvent(i) => rsp.msgs[i].number \in (watch.prod + 1)..store.sent
    BY DEF XEvents
  <2>4. \A i \in 1..Len(rsp'.msgs) : IsEvent(i)' => rsp'.msgs[i].number \in (watch.prod + 1)..store'.sent
    <3> SUFFICES ASSUME NEW i \in 1..Len(rsp'.msgs), IsEvent(i)'
                 PROVE  rsp'.msgs[i].number \in (watch.prod + 1)..store'.sent
      OBVIOUS
    <3>1. CASE i = n
      BY <1>3, <1>4, <1>5, <1>8, <3>1, SMTT(30)
    <3>2. CASE i \in 1..Len(rsp.msgs)
      BY <1>3, <1>5, <1>8, <1>14, <2>3, <3>2, SMTT(30)
    <3> QED BY <1>5, <3>1, <3>2
  <2>5. \A i, j \in 1..Len(rsp'.msgs) : IsEvent(i)' /\ IsEvent(j)' /\ i < j =>
          rsp'.msgs[i].number < rsp'.msgs[j].number
    <3> SUFFICES ASSUME NEW i \in 1..Len(rsp'.msgs), NEW j \in 1..Len(rsp'.msgs),
                        IsEvent(i)', IsEvent(j)', i < j
                 PROVE  rsp'.msgs[i].number < rsp'.msgs[j].number
      OBVIOUS
    <3>1. CASE j \in 1..Len(rsp.msgs)
      <4>1. i \in 1..Len(rsp.msgs)
        BY <1>5, <1>6, <3>1
      <4> QED BY <1>5, <1>14, <3>1, <4>1 DEF XEvents
    <3>2. CASE j = n
      <4>1. i \in 1..Len(rsp.msgs)
        BY <1>5, <1>6, <3>2
      <4>2. rsp.msgs[i].number \in (watch.prod + 1)..store.sent
        BY <1>14, <2>3, <4>1
      <4> QED BY <1>3, <1>4, <1>5, <1>8, <3>2, <4>1, <4>2, SMTT(30)
    <3> QED BY <1>5, <3>1, <3>2
  <2>6. \A i \in 1..Len(rsp'.msgs) : ~Ends(rsp'.msgs[i])
    BY <1>2, <1>4, <1>5 DEF XEvents, Ends
  <2>7. ~(pc[Watcher] = "sent" /\ Watcher \in runnable /\ call[Watcher].op = "unwatch")
    BY <1>7 DEF XEvents
  <2>8. ~(pc[Watcher] = "sent" /\ Watcher \in runnable /\ call[Watcher].op = "watch"
          /\ ~req_info[call[Watcher].id].reply.ok)
    BY <1>7 DEF XEvents
  <2>9. ~(pc[Watcher] = "unwatch") /\ ~(pc[Watcher] = "watch" /\ ~call[Watcher].rep.ok)
    BY <1>7 DEF XEvents
  <2> QED BY <1>5, <1>7, <1>11, <2>1, <2>2, <2>4, <2>5, <2>6, <2>7, <2>8, <2>9 DEF XEvents
<1> QED BY <1>5, <1>t, <1>s, <1>i, <1>m, <1>w, <1>e

\* The store answers a request, which leaves it, and watches or stops as asked.
LEMMA StoreAnswersKept ==
  ASSUME XenbusInv, StoreAnswers PROVE XenbusInv'
<1> USE DEF XenbusInv
<1>1. PICK m \in store.reqs, len \in workload.payloads, ok \in BOOLEAN :
        /\ ok \/ m.op = "watch"
        /\ StoreWrites([id |-> m.id, client |-> m.client, number |-> m.number,
                        op |-> m.op, len |-> len, ok |-> ok])
        /\ store' = [store EXCEPT !.reqs = @ \ {m},
                       !.sent = IF m.op = "watch" THEN 0 ELSE @,
                       !.watching = CASE m.op = "watch" -> ok
                                      [] m.op = "unwatch" -> FALSE
                                      [] OTHER -> @]
  BY DEF StoreAnswers
<1>2. PICK o : o = [id |-> m.id, client |-> m.client, number |-> m.number, op |-> m.op,
                    len |-> len, ok |-> ok]
  OBVIOUS
<1>l. len \in Nat
  BY <1>1, WorkloadsAssumption DEF XTypeOK
<1>3. /\ m \in Requests /\ m.op \in Ops /\ Mine(m) /\ store \in Stores /\ store.sent \in Nat
      /\ store.watching \in BOOLEAN
  BY DEF XTypeOK, Stores, Requests, XMail
<1>4. /\ o \in Messages /\ o.op = m.op /\ o.client = m.client /\ o.ok = ok /\ o.id = m.id
      /\ o.number = m.number /\ o.op # "event"
  BY <1>2, <1>3, <1>l DEF Requests, Messages, Threads, Ops
<1>n. PICK n : n = Len(rsp.msgs) + 1
  OBVIOUS
<1>5. /\ halt = "none" /\ event' = TRUE /\ rsp' \in Responses
      /\ UNCHANGED <<pc, runnable, waitq, req_info, nr_live_reqs, probe, call, req, prod, watch, read,
                     workload, halt>>
      /\ Len(rsp.msgs) \in Nat /\ Len(rsp'.msgs) = n /\ rsp'.msgs[n] = o
      /\ \A j \in 1..Len(rsp.msgs) : rsp'.msgs[j] = rsp.msgs[j]
      /\ 1..Len(rsp'.msgs) = (1..Len(rsp.msgs)) \cup {n}
  BY <1>1, <1>2, <1>4, <1>n, WritesEffect
<1>6. \A j \in 1..Len(rsp.msgs) : j < n /\ j # n /\ ~(n < j)
  BY <1>5, <1>n
<1>7. /\ store' \in Stores /\ store'.reqs = store.reqs \ {m}
      /\ m.op = "watch" => store'.sent = 0 /\ store'.watching = ok
      /\ m.op # "watch" => store'.sent = store.sent /\ ok
      /\ m.op = "unwatch" => ~store'.watching
      /\ m.op = "read" => store'.watching = store.watching
  <2>1. PICK s \in Nat, w \in BOOLEAN :
          /\ s = IF m.op = "watch" THEN 0 ELSE store.sent
          /\ w = CASE m.op = "watch" -> ok [] m.op = "unwatch" -> FALSE [] OTHER -> store.watching
    <3>1. (IF m.op = "watch" THEN 0 ELSE store.sent) \in Nat
      BY <1>3
    <3>2. (CASE m.op = "watch" -> ok [] m.op = "unwatch" -> FALSE [] OTHER -> store.watching) \in BOOLEAN
      BY <1>3
    <3> QED BY <3>1, <3>2, Zenon
  <2>2. store' = [store EXCEPT !.reqs = store.reqs \ {m}, !.sent = s, !.watching = w]
    BY <1>1, <2>1
  <2>3. store.reqs \ {m} \in SUBSET Requests
    BY DEF XTypeOK, Stores
  <2>4. store' \in Stores
    BY <1>3, <2>1, <2>2, <2>3, Zenon DEF Stores
  <2>5. store'.reqs = store.reqs \ {m} /\ store'.sent = s /\ store'.watching = w
    BY <1>3, <2>2 DEF Stores
  <2> QED BY <1>1, <1>3, <2>1, <2>4, <2>5
<1>8. /\ m.client \in Clients /\ pc[m.client] = "sent" /\ m.client \notin runnable
      /\ m.op = call[m.client].op
  BY <1>3 DEF Mine
<1>9. Holders' = Holders /\ Used' = Used
  BY <1>5 DEF Holders, Used
<1>10. \A x : Mine(x) => Mine(x)'
  BY <1>5 DEF Mine
<1>11. Mine(o)'
  BY <1>3, <1>4, <1>5 DEF Mine
<1>12. \A x \in store'.reqs : x.client # m.client
  <2> SUFFICES ASSUME NEW x \in store.reqs, x.client = m.client PROVE x = m
    BY <1>7
  <2>1. x \in Requests /\ Mine(x)
    BY DEF XTypeOK, Stores, XMail
  <2>2. x.id = m.id /\ x.number = m.number /\ x.op = m.op
    BY <1>3, <2>1 DEF Mine
  <2> QED BY <1>3, <2>1, <2>2 DEF Requests
<1>13. /\ \A j \in 1..Len(req) : req[j].client # m.client
       /\ \A i \in 1..Len(rsp.msgs) : IsReply(i) => rsp.msgs[i].client # m.client
  BY DEF XMail
<1>14. \A i \in 1..Len(rsp.msgs) : (IsEvent(i)' <=> IsEvent(i)) /\ (IsReply(i)' <=> IsReply(i))
  BY <1>5 DEF IsEvent, IsReply
<1>15. IsReply(n)' /\ ~IsEvent(n)' /\ n \in 1..Len(rsp'.msgs)
  BY <1>4, <1>5 DEF IsReply, IsEvent
<1>16. \A i \in 1..Len(rsp'.msgs) : IsEvent(i)' => i \in 1..Len(rsp.msgs) /\ IsEvent(i)
  BY <1>5, <1>14, <1>15
<1>17. m.op \in {"watch", "unwatch"} => m.client = Watcher
  BY <1>8 DEF XSteps
<1>18. m.op = "watch" => Unanswered
  BY <1>8, <1>17 DEF Unanswered
<1>19. Unanswered' => Unanswered /\ m.op # "watch"
  <2>1. Unanswered' => Unanswered
    BY <1>5, <1>7 DEF Unanswered
  <2>2. ASSUME m.op = "watch", Unanswered' PROVE FALSE
    BY <1>5, <1>8, <1>12, <1>13, <1>17, <2>2 DEF Unanswered, AskSteps, SendSteps
  <2> QED BY <2>1, <2>2
<1>20. m.op # "watch" => (Quiet => Quiet')
  <2>1. m.op # "watch" => (~store.watching => ~store'.watching)
    BY <1>3, <1>7 DEF Ops
  <2> QED BY <1>16, <2>1 DEF Quiet
<1>21. m.op = "watch" => /\ watch.listed /\ Quiet /\ watch.prod = 0 /\ watch.cons = 0
                         /\ \A i \in 1..Len(rsp'.msgs) : ~IsEvent(i)'
  <2>1. m.op = "watch" => watch.listed
    BY <1>8, <1>17 DEF XWatch
  <2> QED BY <1>16, <1>18, <2>1 DEF XEvents, Quiet
<1>t. XTypeOK'
  BY <1>5, <1>7 DEF XTypeOK
<1>s. XSteps'
  BY <1>5 DEF XSteps
<1>i. XIds'
  BY <1>5, <1>9 DEF XIds
<1>m. XMail'
  <2>1. (\A i \in 1..Len(rsp.msgs) : IsReply(i) => Mine(rsp.msgs[i]))'
    <3>1. ASSUME NEW j \in 1..Len(rsp'.msgs), IsReply(j)', NEW x, x = rsp'.msgs[j] PROVE Mine(x)'
      <4>1. CASE j = n
        BY <1>5, <1>11, <3>1, <4>1
      <4>2. CASE j \in 1..Len(rsp.msgs)
        <5>1. IsReply(j) /\ x = rsp.msgs[j]
          BY <1>5, <1>14, <3>1, <4>2
        <5> QED BY <1>10, <4>2, <5>1 DEF XMail
      <4> QED BY <1>5, <4>1, <4>2
    <3> QED BY <3>1 DEF Mine
  <2>2. (\A i \in 1..Len(req) : Mine(req[i]))' /\ (\A x \in store.reqs : Mine(x))'
    BY <1>5, <1>7, <1>10 DEF XMail
  <2>3. ASSUME NEW i \in 1..Len(rsp'.msgs), IsReply(i)'
        PROVE  /\ \A j \in 1..Len(req) : rsp'.msgs[i].client # req[j].client
               /\ \A x \in store'.reqs : rsp'.msgs[i].client # x.client
               /\ \A j \in 1..Len(rsp'.msgs) :
                    IsReply(j)' /\ rsp'.msgs[i].client = rsp'.msgs[j].client => i = j
    <3>1. CASE i = n
      <4>1. rsp'.msgs[i].client = m.client
        BY <1>4, <1>5, <3>1
      <4>2. \A j \in 1..Len(rsp.msgs) : IsReply(j)' => rsp'.msgs[j].client # m.client
        BY <1>5, <1>13, <1>14
      <4> QED BY <1>5, <1>12, <1>13, <3>1, <4>1, <4>2
    <3>2. CASE i \in 1..Len(rsp.msgs)
      <4>1. IsReply(i) /\ rsp'.msgs[i] = rsp.msgs[i] /\ rsp.msgs[i].client # m.client
        BY <1>5, <1>13, <1>14, <2>3, <3>2
      <4>2. /\ \A j \in 1..Len(req) : rsp.msgs[i].client # req[j].client
            /\ \A x \in store.reqs : rsp.msgs[i].client # x.client
        BY <3>2, <4>1 DEF XMail
      <4>3. \A j \in 1..Len(rsp.msgs) :
              IsReply(j)' /\ rsp'.msgs[i].client = rsp'.msgs[j].client => i = j
        BY <1>5, <1>14, <3>2, <4>1 DEF XMail
      <4>4. rsp'.msgs[i].client # rsp'.msgs[n].client
        BY <1>4, <1>5, <4>1
      <4> QED BY <1>5, <1>7, <4>1, <4>2, <4>3, <4>4
    <3> QED BY <1>5, <3>1, <3>2
  <2>4. ReplyIsMine'
    BY <1>5 DEF XMail, ReplyIsMine
  <2>5. \A i \in 1..Len(req) : \A x \in store'.reqs : req[i].client # x.client
    BY <1>7 DEF XMail
  <2>6. \A u \in Holders : u \in runnable =>
          LET y == req_info[call[u].id].reply IN
          pc[u] = "sent" /\ y.client = u /\ y.number = call[u].number
    BY DEF XMail
  <2>7. \A i, j \in 1..Len(req) : req[i].client = req[j].client => i = j
    BY DEF XMail
  <2> HIDE DEF XenbusInv
  <2> QED BY <1>5, <1>9, <2>1, <2>2, <2>3, <2>4, <2>5, <2>6, <2>7 DEF XMail
<1>w. XWatch'
  BY <1>5 DEF XWatch, NoWatch
<1>e. XEvents'
  <2>1. ~watch.listed => Quiet'
    BY <1>20, <1>21 DEF XEvents
  <2>2. Unanswered' => Quiet' /\ watch.prod = 0 /\ watch.cons = 0
    BY <1>19, <1>20 DEF XEvents
  <2>3. ~Quiet' => watch.prod <= store'.sent /\ store'.sent - watch.cons <= MAX_PATHS
    <3>1. CASE m.op = "watch"
      BY <1>7, <1>21, <3>1
    <3>2. CASE m.op # "watch"
      BY <1>7, <1>20, <3>2 DEF XEvents
    <3> QED BY <3>1, <3>2
  <2>4. ~Quiet' => \A k \in (watch.prod + 1)..store'.sent :
          \E i \in 1..Len(rsp'.msgs) : IsEvent(i)' /\ rsp'.msgs[i].number = k
    <3>1. CASE m.op = "watch"
      BY <1>7, <1>21, <3>1
    <3>2. CASE m.op # "watch"
      <4>1. ~Quiet' => \A k \in (watch.prod + 1)..store.sent :
              \E i \in 1..Len(rsp.msgs) : IsEvent(i) /\ rsp.msgs[i].number = k
        BY <1>20, <3>2 DEF XEvents
      <4> QED BY <1>5, <1>7, <1>14, <3>2, <4>1
    <3> QED BY <3>1, <3>2
  <2>5. ASSUME NEW i \in 1..Len(rsp'.msgs), IsEvent(i)'
        PROVE  /\ rsp'.msgs[i].number \in (watch.prod + 1)..store'.sent
               /\ \A j \in 1..Len(rsp'.msgs) :
                    IsEvent(j)' /\ i < j => rsp'.msgs[i].number < rsp'.msgs[j].number
    <3>1. m.op # "watch" /\ i \in 1..Len(rsp.msgs) /\ IsEvent(i)
      BY <1>16, <1>21, <2>5
    <3>2. rsp.msgs[i].number \in (watch.prod + 1)..store.sent
      BY <3>1 DEF XEvents
    <3>3. \A j \in 1..Len(rsp.msgs) :
            IsEvent(j) /\ i < j => rsp.msgs[i].number < rsp.msgs[j].number
      BY <3>1 DEF XEvents
    <3> QED BY <1>5, <1>7, <1>16, <3>1, <3>2, <3>3
  <2>6. ASSUME NEW i \in 1..Len(rsp'.msgs), Ends(rsp'.msgs[i])
        PROVE  ~store'.watching /\ \A j \in 1..Len(rsp'.msgs) : i < j => ~IsEvent(j)'
    <3>1. CASE i = n
      <4>1. ~store'.watching
        BY <1>4, <1>5, <1>7, <2>6, <3>1 DEF Ends
      <4> QED BY <1>6, <1>16, <3>1, <4>1
    <3>2. CASE i \in 1..Len(rsp.msgs)
      <4>1. Ends(rsp.msgs[i]) /\ IsReply(i)
        BY <1>5, <2>6, <3>2 DEF Ends, IsReply
      <4>2. ~store.watching /\ \A j \in 1..Len(rsp.msgs) : i < j => ~IsEvent(j)
        BY <3>2, <4>1 DEF XEvents
      <4>3. m.op # "watch"
        <5> SUFFICES ASSUME m.op = "watch" PROVE FALSE
          OBVIOUS
        <5>1. Mine(rsp.msgs[i]) /\ rsp.msgs[i].client # Watcher
          BY <1>13, <1>17, <3>2, <4>1 DEF XMail
        <5>2. rsp.msgs[i].op \in {"watch", "unwatch"}
          BY <4>1 DEF Ends
        <5> QED BY <5>1, <5>2 DEF Mine, XSteps
      <4>4. ~store'.watching
        BY <1>3, <1>7, <4>2, <4>3 DEF Ops
      <4> QED BY <1>16, <4>2, <4>4
    <3> QED BY <1>5, <3>1, <3>2
  <2>7. pc[Watcher] = "sent" /\ Watcher \in runnable =>
          LET c == call[Watcher] IN
          c.op = "unwatch" \/ (c.op = "watch" /\ ~req_info[c.id].reply.ok) => Quiet'
    <3>1. m.op = "watch" => Watcher \notin runnable
      BY <1>8, <1>17
    <3> QED BY <1>20, <3>1 DEF XEvents
  <2>8. m.op = "watch" => pc[Watcher] = "sent"
    BY <1>8, <1>17
  <2>9. pc[Watcher] = "unwatch" \/ (pc[Watcher] = "watch" /\ ~call[Watcher].rep.ok) => Quiet'
    BY <1>20, <2>8 DEF XEvents
  <2> QED BY <1>5, <2>1, <2>2, <2>3, <2>4, <2>5, <2>6, <2>7, <2>9 DEF XEvents
<1> QED BY <1>5, <1>t, <1>s, <1>i, <1>m, <1>w, <1>e

\* The steps of wait_event, of a client or of the xenbus thread.
LEMMA WaitKept ==
  ASSUME XenbusInv, NEW t \in Threads, WaitStep(t) \/ preempt_schedule(t)
  PROVE  XenbusInv'
<1> USE DEF XenbusInv
<1> DEFINE W == AskSteps \cup {"drain"}
<1>1. /\ t \in Clients => pc[t] # "drain" /\ t # XenbusThread
      /\ \A u \in Clients : u \in waitq["req_wq"] => pc[u] \in QueueSteps
      /\ waitq["xb_waitq"] \subseteq {XenbusThread}
      /\ waitq \in [{"xb_waitq", "req_wq"} -> SUBSET Threads]
      /\ pc \in [Threads -> Steps] /\ runnable \in SUBSET Threads /\ prod \in Nat /\ event \in BOOLEAN
      /\ halt \in {"none", "block", "ring_wait", "ring"} /\ (t \in Clients \/ t = XenbusThread)
  BY DEF XTypeOK, XSteps, Threads
<1>2. WaitQ(t) = IF t = XenbusThread THEN "xb_waitq" ELSE "req_wq"
  BY DEF WaitQ
<1>3. Waited(t) = IF t = XenbusThread THEN "drain" ELSE "alloc"
  BY DEF Waited
<1> HIDE DEF XenbusInv
<1>4. CASE wait_event(t)
  BY <1>1, <1>3, <1>4, AskKept
     DEF wait_event, At, GoTo, AskSteps, QueueSteps, Steps, driverVars, ringVars, watchVars, Threads
<1>5. CASE WaitBlock(t)
  <2>1. /\ pc[t] = "wait_block" /\ pc' = [pc EXCEPT ![t] = "wait_check"]
        /\ runnable' = runnable \ {t} /\ halt' \in {"none", "block", "ring_wait", "ring"}
        /\ waitq' = [waitq EXCEPT ![WaitQ(t)] = waitq[WaitQ(t)] \cup {t}]
        /\ UNCHANGED <<driverVars, call, ringVars, watchVars, store, workload>>
    BY <1>1, <1>5 DEF WaitBlock, At, GoTo, block, BlockOr
  <2>2. /\ waitq' \in [{"xb_waitq", "req_wq"} -> SUBSET Threads]
        /\ waitq'["xb_waitq"] \subseteq {XenbusThread}
        /\ waitq'["req_wq"] \subseteq waitq["req_wq"] \cup {t}
    BY <1>1, <1>2, <2>1
  <2>3. /\ pc' \in [Threads -> Steps] /\ pc'[t] = "wait_check"
        /\ \A u \in Clients \ {t} : pc'[u] = pc[u]
    BY <1>1, <2>1 DEF Steps, AskSteps, Threads
  <2> QED BY <1>1, <2>1, <2>2, <2>3, AskKept DEF AskSteps, QueueSteps, ringVars
<1>6. CASE WaitCheck(t)
  BY <1>1, <1>6, AskKept
     DEF WaitCheck, At, GoTo, AskSteps, QueueSteps, Steps, ringVars, Threads
<1>7. CASE WaitSchedule(t)
  BY <1>1, <1>7, AskKept
     DEF WaitSchedule, At, GoTo, AskSteps, QueueSteps, Steps, ringVars, Threads
<1>8. CASE WaitDone(t)
  <2>1. /\ pc[t] = "wait_done" /\ pc' = [pc EXCEPT ![t] = Waited(t)] /\ halt' = halt
        /\ waitq' = [waitq EXCEPT ![WaitQ(t)] = waitq[WaitQ(t)] \ {t}]
        /\ UNCHANGED <<runnable, driverVars, call, ringVars, watchVars, store, workload>>
    BY <1>1, <1>8 DEF WaitDone, At, GoTo
  <2>2. /\ waitq' \in [{"xb_waitq", "req_wq"} -> SUBSET Threads]
        /\ waitq'["xb_waitq"] \subseteq waitq["xb_waitq"] /\ waitq'["req_wq"] \subseteq waitq["req_wq"]
        /\ t \in Clients => t \notin waitq'["req_wq"]
    BY <1>1, <1>2, <2>1
  <2>3. /\ pc' \in [Threads -> Steps]
        /\ t \in Clients => pc'[t] = "alloc"
        /\ \A u \in Clients \ {t} : pc'[u] = pc[u]
    BY <1>1, <1>3, <2>1 DEF Steps, AskSteps, Threads
  <2>4. \A u \in Clients : u \in waitq'["req_wq"] => pc'[u] \in QueueSteps
    BY <1>1, <2>2, <2>3
  <2>5. \A u \in Clients :
          \/ pc'[u] = pc[u] /\ (u \in runnable' <=> u \in runnable)
          \/ pc[u] \in AskSteps /\ pc'[u] \in AskSteps
    BY <2>1, <2>3 DEF AskSteps
  <2>6. waitq'["xb_waitq"] \subseteq {XenbusThread}
    BY <1>1, <2>2
  <2>7. prod' \in Nat /\ event' \in BOOLEAN /\ UNCHANGED <<req, rsp>>
    BY <1>1, <2>1 DEF ringVars
  <2>8. runnable' \in SUBSET Threads /\ halt' \in {"none", "block", "ring_wait", "ring"}
    BY <1>1, <2>1
  <2>9. UNCHANGED <<driverVars, call, req, rsp, watchVars, store, workload>>
    BY <2>1, <2>7
  <2>10. pc' \in [Threads -> Steps] /\ waitq' \in [{"xb_waitq", "req_wq"} -> SUBSET Threads]
    BY <2>2, <2>3
  <2> QED BY <2>4, <2>5, <2>6, <2>7, <2>8, <2>9, <2>10, AskKept
<1>9. CASE preempt_schedule(t)
  BY <1>1, <1>9, AskKept
     DEF preempt_schedule, At, GoTo, AskSteps, QueueSteps, Steps, ringVars, Threads
<1> QED BY <1>4, <1>5, <1>6, <1>7, <1>8, <1>9 DEF WaitStep

\* Asking for an id: the client waits for one or takes one, and one is there to take.
LEMMA AllocateKept ==
  ASSUME XenbusInv, NEW t \in Clients, allocate_xenbus_id(t)
  PROVE  XenbusInv'
<1>1. /\ At(t, "alloc") /\ t \in Threads /\ t # XenbusThread
      /\ UNCHANGED <<waitq, ringVars, watchVars, store, workload>>
  BY DEF allocate_xenbus_id, Threads
<1>2. CASE nr_live_reqs >= NR_REQS /\ GoTo(t, "wait") /\ UNCHANGED <<runnable, driverVars, call, halt>>
  <2>1. /\ pc[t] = "alloc" /\ pc' = [pc EXCEPT ![t] = "wait"] /\ pc \in [Threads -> Steps]
        /\ t \notin waitq["req_wq"] /\ \A u \in Clients : u \in waitq["req_wq"] => pc[u] \in QueueSteps
        /\ waitq["xb_waitq"] \subseteq {XenbusThread}
        /\ waitq \in [{"xb_waitq", "req_wq"} -> SUBSET Threads]
        /\ runnable \in SUBSET Threads /\ prod \in Nat /\ event \in BOOLEAN
        /\ halt \in {"none", "block", "ring_wait", "ring"}
    BY <1>1, <1>2 DEF At, GoTo, XenbusInv, XTypeOK, XSteps, QueueSteps
  <2>2. /\ pc' \in [Threads -> Steps] /\ pc'[t] = "wait" /\ \A u \in Clients \ {t} : pc'[u] = pc[u]
    BY <1>1, <2>1 DEF Steps, AskSteps, Threads
  <2> QED BY <1>1, <1>2, <2>1, <2>2, AskKept DEF AskSteps, ringVars
<1>3. CASE nr_live_reqs < NR_REQS
  <2>1. \E i \in Ids : ~req_info[i].in_use
    <3> SUFFICES ASSUME \A i \in Ids : req_info[i].in_use PROVE FALSE
      OBVIOUS
    <3>1. Used = Ids
      BY DEF Used
    <3>2. Cardinality(Ids) = NR_REQS
      BY FS_Interval DEF Ids
    <3> QED BY <1>3, <3>1, <3>2 DEF XenbusInv, XIds
  <2>2. TakeId(t, FreeId) /\ block(t) /\ GoTo(t, "xb_write")
    BY <1>3, <2>1 DEF allocate_xenbus_id, XenbusInv, XTypeOK
  <2> QED BY <1>1, <1>3, <2>1, <2>2, TakeIdKept
<1> QED BY <1>2, <1>3 DEF allocate_xenbus_id

\* The initial states.
LEMMA XenbusStart == Init => XenbusInv
<1> SUFFICES ASSUME Init PROVE XenbusInv
  OBVIOUS
<1>0. /\ NoReply \in Replies /\ 0 \in Ids /\ Watcher \in Threads /\ Watcher # XenbusThread
      /\ NoWatch.thread = XenbusThread /\ NoWatch.prod = 0 /\ NoWatch.cons = 0 /\ NoWatch \in TheWatch
      /\ NoWatch.listed = FALSE
  BY DEF NoReply, Replies, Threads, Ids, NoWatch, TheWatch
<1>1. \A t \in Clients : pc[t] = "idle" /\ t # XenbusThread
  BY DEF Init, Threads
<1>2. Holders = {} /\ Used = {}
  BY <1>1 DEF Init, Holders, HoldSteps, Used
<1>3. Len(req) = 0 /\ Len(rsp.msgs) = 0 /\ Len(read) = 0
  BY DEF Init
<1>4. Quiet
  BY <1>3 DEF Init, Quiet
<1>t. XTypeOK
  <2>1. req_info \in [Ids -> Infos]
    BY <1>0 DEF Init, Infos
  <2>2. call \in [Clients -> Calleds]
    BY <1>0 DEF Init, Calleds
  <2>3. pc \in [Threads -> Steps]
    BY DEF Init, Steps, AskSteps
  <2>4. waitq \in [{"xb_waitq", "req_wq"} -> SUBSET Threads]
    BY DEF Init
  <2>5. req \in Seq(Requests) /\ rsp \in Responses /\ read \in Seq(Nat)
    BY DEF Init, Responses
  <2>6. store \in Stores
    BY DEF Init, Stores
  <2> QED BY <1>0, <2>1, <2>2, <2>3, <2>4, <2>5, <2>6 DEF Init, XTypeOK
<1>s. XSteps
  BY <1>1 DEF Init, XSteps, AskSteps, HoldSteps
<1>i. XIds
  BY <1>2, FS_EmptySet DEF Init, XIds
<1>m. XMail
  BY <1>2, <1>3 DEF Init, XMail, ReplyIsMine
<1>w. XWatch
  BY <1>0, <1>1, <1>3 DEF Init, XWatch
<1>e. XEvents
  BY <1>1, <1>3, <1>4 DEF Init, XEvents, Unanswered
<1> QED BY <1>t, <1>s, <1>i, <1>m, <1>w, <1>e DEF XenbusInv

\* Every step keeps the invariant.
LEMMA XenbusStep == XenbusInv /\ [Next]_vars => XenbusInv'
<1> SUFFICES ASSUME XenbusInv, [Next]_vars PROVE XenbusInv'
  OBVIOUS
<1>1. ASSUME NEW t \in Clients, ClientStep(t) PROVE XenbusInv'
  <2>1. t \in Threads
    BY DEF Threads
  <2>2. CASE WaitStep(t)
    BY <2>1, <2>2, WaitKept
  <2>3. CASE allocate_xenbus_id(t)
    BY <2>3, AllocateKept
  <2>4. CASE xb_write(t)
    <3>1. /\ pc[t] \in SendSteps /\ halt' \in {"none", "block", "ring_wait", "ring"}
          /\ UNCHANGED <<runnable, waitq, driverVars, call, rsp, prod, event, watchVars, workload>>
      BY <2>4 DEF xb_write, At, SendSteps, XenbusInv, XTypeOK
    <3>2. CASE Send(t)
      BY <3>1, <3>2, SendKept
    <3>3. CASE GoTo(t, "xb_wait") /\ UNCHANGED <<req, store>>
      <4>1. runnable = runnable \ {t}
        BY <3>1 DEF XenbusInv, XMail, Holders, SendSteps, HoldSteps
      <4> QED BY <3>1, <3>3, <4>1, XbWaitKept DEF GoTo, SendSteps, ringVars
    <3> QED BY <2>4, <3>2, <3>3 DEF xb_write
  <2>5. CASE XbWait(t)
    <3>1. /\ pc[t] = "xb_wait" /\ pc[t] \in SendSteps /\ runnable = runnable \ {t}
          /\ pc = [pc EXCEPT ![t] = "xb_wait"] /\ halt \in {"none", "block", "ring_wait", "ring"}
      BY <2>1, <2>5 DEF XbWait, At, SendSteps, XenbusInv, XMail, Holders, HoldSteps, XTypeOK
    <3>2. CASE ~Full /\ GoTo(t, "xb_write_waited") /\ UNCHANGED <<runnable, halt>>
      BY <2>5, <3>1, <3>2, XbWaitKept DEF XbWait, GoTo, SendSteps
    <3>3. CASE Full /\ BlockOr(t, "ring_wait") /\ UNCHANGED pc
      BY <2>5, <3>1, <3>3, XbWaitKept DEF XbWait, BlockOr, SendSteps
    <3> QED BY <2>5, <3>2, <3>3 DEF XbWait
  <2>6. CASE XbWriteWaited(t)
    <3>1. /\ pc[t] \in SendSteps /\ halt' \in {"none", "block", "ring_wait", "ring"} /\ Send(t)
          /\ UNCHANGED <<runnable, waitq, driverVars, call, rsp, prod, event, watchVars, workload>>
      BY <2>6 DEF XbWriteWaited, At, SendSteps, XenbusInv, XTypeOK
    <3> QED BY <3>1, SendKept
  <2>7. CASE xenbus_msg_reply(t)
    BY <2>7, MsgReplyKept
  <2>8. CASE WatchAnswered(t)
    <3>1. t = Watcher /\ pc[t] = "watch" /\ (~call[t].rep.ok => Quiet)
      BY <2>8 DEF WatchAnswered, At, XenbusInv, XSteps, XEvents
    <3> QED BY <2>8, <3>1, UnlistKept DEF WatchAnswered, GoTo
  <2>9. CASE WatchRemoved(t)
    <3>1. t = Watcher /\ pc[t] = "unwatch" /\ Quiet
      BY <2>9 DEF WatchRemoved, At, XenbusInv, XSteps, XEvents
    <3> QED BY <2>9, <3>1, UnlistKept DEF WatchRemoved, GoTo
  <2>10. CASE ReadWatchAgain(t)
    <3>1. t = Watcher /\ pc[t] = "read_watch" /\ watch.listed
      BY <2>10 DEF ReadWatchAgain, At, XenbusInv, XSteps, XWatch
    <3> QED BY <2>10, <3>1, ReadWatchKept DEF ReadWatchAgain
  <2> QED BY <1>1, <2>2, <2>3, <2>4, <2>5, <2>6, <2>7, <2>8, <2>9, <2>10 DEF ClientStep
<1>2. ASSUME NEW t \in Clients, xenbus_read(t) PROVE XenbusInv'
  BY <1>2, StartKept DEF xenbus_read, watchVars, Ops
<1>3. CASE xenbus_watch_path(Watcher)
  BY <1>3, StartKept DEF xenbus_watch_path, Ops
<1>4. CASE xenbus_rm_watch(Watcher)
  BY <1>4, StartKept DEF xenbus_rm_watch, watchVars, Ops
<1>5. CASE xenbus_read_watch(Watcher)
  BY <1>5, ReadWatchKept DEF xenbus_read_watch, Calls, At
<1>6. CASE xenbus_thread_func
  <2>1. /\ halt = "none" /\ prod' = rsp.rsp_prod /\ pc[XenbusThread] = "drain"
        /\ UNCHANGED <<waitq, nr_live_reqs, probe, call, req, event, read, store, workload>>
    BY <1>6 DEF xenbus_thread_func, At
  <2>2. CASE ~Complete /\ GoTo(XenbusThread, "wait") /\ UNCHANGED <<runnable, req_info, rsp, watch, halt>>
    <3>1. /\ pc' \in [Threads -> Steps] /\ \A u \in Clients : pc'[u] = pc[u]
          /\ runnable \in SUBSET Threads /\ waitq \in [{"xb_waitq", "req_wq"} -> SUBSET Threads]
          /\ prod' \in Nat /\ event \in BOOLEAN /\ halt \in {"none", "block", "ring_wait", "ring"}
          /\ \A u \in Clients : u \in waitq["req_wq"] => pc[u] \in QueueSteps
          /\ waitq["xb_waitq"] \subseteq {XenbusThread}
      <4>1. rsp.rsp_prod \in Nat
        BY DEF XenbusInv, XTypeOK, Responses
      <4>2. pc' \in [Threads -> Steps] /\ \A u \in Clients : pc'[u] = pc[u]
        BY <2>2 DEF GoTo, XenbusInv, XTypeOK, Steps, AskSteps, Threads
      <4> QED BY <2>1, <4>1, <4>2 DEF XenbusInv, XTypeOK, XSteps
    <3> QED BY <2>1, <2>2, <3>1, AskKept DEF driverVars, watchVars
  <2>3. CASE /\ Complete /\ Head(rsp.msgs).op = "event" /\ WatchEvent(Head(rsp.msgs))
             /\ rsp' = Consumed /\ UNCHANGED <<pc, req_info>>
    BY <2>1, <2>3, WatchEventKept
  <2>4. CASE /\ Complete /\ Head(rsp.msgs).op # "event" /\ Reply(Head(rsp.msgs))
             /\ rsp' = Consumed /\ UNCHANGED <<pc, watch>>
    BY <2>1, <2>4, ReplyKept
  <2> QED BY <1>6, <2>2, <2>3, <2>4 DEF xenbus_thread_func
<1>7. CASE WaitStep(XenbusThread)
  BY <1>7, WaitKept DEF Threads
<1>8. ASSUME NEW t \in Threads, preempt_schedule(t) PROVE XenbusInv'
  BY <1>8, WaitKept
<1>9. CASE xenbus_evtchn_handler
  <2>1. /\ waitq["xb_waitq"] \subseteq {XenbusThread} /\ pc \in [Threads -> Steps]
        /\ \A u \in Clients : u \in waitq["req_wq"] => pc[u] \in QueueSteps
        /\ runnable' \in SUBSET Threads /\ waitq \in [{"xb_waitq", "req_wq"} -> SUBSET Threads]
        /\ prod \in Nat /\ event' \in BOOLEAN /\ halt \in {"none", "block", "ring_wait", "ring"}
        /\ \A u \in Clients : u \in runnable' <=> u \in runnable
        /\ UNCHANGED <<pc, waitq, driverVars, call, req, rsp, prod, watchVars, store, workload, halt>>
    BY <1>9 DEF xenbus_evtchn_handler, wake_up, XenbusInv, XTypeOK, XSteps, Threads
  <2> QED BY <2>1, AskKept
<1>10. CASE StoreStep
  BY <1>10, StoreTakesKept, StoreAnswersKept, StoreCompletesKept DEF StoreStep
<1>11. CASE StoreNotifies
  BY <1>11, StoreNotifiesKept
<1>13. CASE StoreSleeps
  BY <1>13, AsleepKept DEF StoreSleeps
<1>14. CASE StoreWoken
  BY <1>14, AsleepKept DEF StoreWoken
<1>12. CASE UNCHANGED vars
  <2>1. /\ waitq["xb_waitq"] \subseteq {XenbusThread} /\ pc \in [Threads -> Steps]
        /\ \A u \in Clients : u \in waitq["req_wq"] => pc[u] \in QueueSteps
        /\ runnable \in SUBSET Threads /\ waitq \in [{"xb_waitq", "req_wq"} -> SUBSET Threads]
        /\ prod \in Nat /\ event \in BOOLEAN /\ halt \in {"none", "block", "ring_wait", "ring"}
    BY DEF XenbusInv, XTypeOK, XSteps
  <2> QED BY <1>12, <2>1, AskKept DEF vars, ringVars
<1> QED BY <1>1, <1>2, <1>3, <1>4, <1>5, <1>6, <1>7, <1>8, <1>9, <1>10, <1>11, <1>12, <1>13, <1>14 DEF Next

\* The inductive invariant always holds.
LEMMA XenbusAlways == Spec => []XenbusInv
  BY XenbusStart, XenbusStep, PTL DEF Spec

\* A thread about to call block(), or on its way there, is runnable.
AwakeSteps == {"idle", "alloc", "wait", "wait_block", "wait_done", "drain", "watch", "unwatch"}
XAwake == \A t \in Threads : pc[t] \in AwakeSteps => t \in runnable

\* So block() finds its thread runnable, but for the writer's in XbWait.
LEMMA AwakeStep ==
  ASSUME XenbusInv, XAwake, halt # "block", [Next]_vars
  PROVE  XAwake' /\ halt' # "block"
<1> USE DEF XAwake
<1>0. pc \in [Threads -> Steps] /\ Clients \subseteq Threads /\ Watcher \in Clients
      /\ XenbusThread \in Threads
  BY DEF XenbusInv, XTypeOK, Threads
<1>w. ASSUME NEW t \in Threads, WaitStep(t) \/ preempt_schedule(t) PROVE XAwake' /\ halt' # "block"
  <2>1. CASE wait_event(t)
    BY <1>0, <2>1 DEF wait_event, At, GoTo, AwakeSteps
  <2>2. CASE WaitBlock(t)
    BY <1>0, <2>2 DEF WaitBlock, At, GoTo, AwakeSteps, block, BlockOr
  <2>3. CASE WaitCheck(t)
    BY <1>0, <2>3 DEF WaitCheck, At, GoTo, AwakeSteps
  <2>4. CASE WaitSchedule(t)
    BY <1>0, <2>4 DEF WaitSchedule, At, GoTo, AwakeSteps
  <2>5. CASE WaitDone(t)
    BY <1>0, <2>5 DEF WaitDone, At, GoTo, AwakeSteps
  <2>6. CASE preempt_schedule(t)
    BY <1>0, <2>6 DEF preempt_schedule, At, GoTo, AwakeSteps
  <2> QED BY <1>w, <2>1, <2>2, <2>3, <2>4, <2>5, <2>6 DEF WaitStep
<1>r. ASSUME NEW t \in Clients, At(t, "idle") \/ (At(t, "read_watch") /\ t \in runnable), ReadWatch(t)
      PROVE  XAwake' /\ halt' # "block"
  BY <1>0, <1>r DEF ReadWatch, At, GoTo, AwakeSteps, block, BlockOr
<1>1. ASSUME NEW t \in Clients, ClientStep(t) PROVE XAwake' /\ halt' # "block"
  <2>1. CASE WaitStep(t)
    BY <1>0, <1>w, <2>1
  <2>2. CASE allocate_xenbus_id(t)
    <3>1. CASE nr_live_reqs >= NR_REQS /\ GoTo(t, "wait") /\ UNCHANGED <<runnable, driverVars, call, halt>>
      BY <1>0, <2>2, <3>1 DEF allocate_xenbus_id, At, GoTo, AwakeSteps
    <3>2. CASE TakeId(t, FreeId) /\ block(t) /\ GoTo(t, "xb_write")
      BY <1>0, <2>2, <3>2 DEF allocate_xenbus_id, At, GoTo, AwakeSteps, block, BlockOr
    <3>3. CASE halt' = "probe" /\ UNCHANGED <<pc, runnable, driverVars, call>>
      BY <3>3
    <3> QED BY <2>2, <3>1, <3>2, <3>3 DEF allocate_xenbus_id
  <2>3. CASE xb_write(t)
    BY <1>0, <2>3 DEF xb_write, Send, At, GoTo, AwakeSteps
  <2>4. CASE XbWait(t)
    <3>1. CASE ~Full /\ GoTo(t, "xb_write_waited") /\ UNCHANGED <<runnable, halt>>
      BY <1>0, <3>1 DEF GoTo, AwakeSteps
    <3>2. CASE Full /\ BlockOr(t, "ring_wait") /\ UNCHANGED pc
      BY <1>0, <2>4, <3>2 DEF XbWait, At, BlockOr, AwakeSteps
    <3> QED BY <2>4, <3>1, <3>2 DEF XbWait
  <2>5. CASE XbWriteWaited(t)
    BY <1>0, <2>5 DEF XbWriteWaited, Send, At, GoTo, AwakeSteps
  <2>6. CASE xenbus_msg_reply(t)
    <3>1. t \in runnable /\ pc' = [pc EXCEPT ![t] = AfterReply(t)] /\ runnable \subseteq runnable'
          /\ halt' \in {halt, "reply"}
      BY <2>6 DEF xenbus_msg_reply, release_xenbus_id, wake_up, At, GoTo
    <3> QED BY <1>0, <3>1
  <2>7. CASE WatchAnswered(t)
    BY <1>0, <2>7 DEF WatchAnswered, At, GoTo, AwakeSteps
  <2>8. CASE WatchRemoved(t)
    BY <1>0, <2>8 DEF WatchRemoved, At, GoTo, AwakeSteps
  <2>9. CASE ReadWatchAgain(t)
    BY <1>r, <2>9 DEF ReadWatchAgain
  <2> QED BY <1>1, <2>1, <2>2, <2>3, <2>4, <2>5, <2>6, <2>7, <2>8, <2>9 DEF ClientStep
<1>2. ASSUME NEW t \in Clients, xenbus_read(t) \/ xenbus_watch_path(t) \/ xenbus_rm_watch(t)
      PROVE  XAwake' /\ halt' # "block"
  BY <1>0, <1>2 DEF xenbus_read, xenbus_watch_path, xenbus_rm_watch, Calls, At, GoTo, AwakeSteps
<1>3. CASE xenbus_read_watch(Watcher)
  BY <1>0, <1>r, <1>3 DEF xenbus_read_watch, Calls
<1>4. CASE xenbus_thread_func
  <2>1. CASE ~Complete /\ GoTo(XenbusThread, "wait") /\ UNCHANGED <<runnable, req_info, rsp, watch, halt>>
    BY <1>0, <1>4, <2>1 DEF xenbus_thread_func, At, GoTo, AwakeSteps
  <2>2. CASE UNCHANGED pc /\ WatchEvent(Head(rsp.msgs))
    BY <2>2 DEF WatchEvent
  <2>3. CASE UNCHANGED pc /\ Reply(Head(rsp.msgs))
    BY <2>3 DEF Reply, wake_up
  <2> QED BY <1>4, <2>1, <2>2, <2>3 DEF xenbus_thread_func
<1>5. CASE xenbus_evtchn_handler
  BY <1>5 DEF xenbus_evtchn_handler, wake_up
<1>6. CASE StoreStep \/ StoreNotifies \/ StoreSleeps \/ StoreWoken
  BY <1>6 DEF StoreStep, StoreTakes, StoreAnswers, StoreNotifies, StoreCompletes, StoreWrites,
              StoreSleeps, StoreWoken
<1>7. CASE UNCHANGED vars
  BY <1>7 DEF vars
<1> QED BY <1>0, <1>1, <1>2, <1>3, <1>4, <1>5, <1>6, <1>7, <1>w DEF Next

\* Of the BUG()s of xenbus.c and block(), those of a writer that finds the request ring
\* full are the only ones ever reached (xb_write), and none of the replies that are taken
\* is missing (xenbus_msg_reply, xenbus_thread_func).
THEOREM OnlyRingFullEver == Spec => []OnlyRingFullBugs
<1>1. Init => XAwake /\ halt # "block"
  BY DEF Init, XAwake
<1>2. XenbusInv /\ XAwake /\ halt # "block" /\ [Next]_vars => (XAwake /\ halt # "block")'
  BY AwakeStep
<1>3. XenbusInv /\ XAwake /\ halt # "block" => OnlyRingFullBugs
  BY DEF XenbusInv, XTypeOK, OnlyRingFullBugs
<1> QED BY <1>1, <1>2, <1>3, XenbusAlways, PTL DEF Spec

\* What a client takes is the answer to its own request, whatever the order of the
\* answers, and the ids in use are those of the clients that wait (allocate_xenbus_id,
\* release_xenbus_id).
THEOREM RepliesAlwaysMatched == Spec => []RepliesAreMatched
<1>1. XenbusInv => RepliesAreMatched
  <2> SUFFICES ASSUME XenbusInv PROVE ReplyIsMine /\ IdsBalance
    BY DEF RepliesAreMatched
  <2>1. ReplyIsMine
    BY DEF XenbusInv, XMail
  <2>2. {call[t].id : t \in Holders} = Used
    BY DEF XenbusInv, XIds, XTypeOK, Calleds, Used, Holders
  <2>3. IdsBalance
    BY <2>2 DEF XenbusInv, XIds, IdsBalance, Holders, Used, HoldSteps
  <2> QED BY <2>1, <2>3
<1> QED BY <1>1, XenbusAlways, PTL

\* The paths of a watch are read in the order the store sent them, none lost and none
\* twice, and a reader that sleeps is woken by the next one (xenbus_thread_func,
\* xenbus_read_watch).
THEOREM WatchEventsAlwaysArrive == Spec => []WatchEventsArrive
<1>1. XenbusInv => WatchEventsArrive
  BY DEF XenbusInv, XWatch, WatchEventsArrive, PathsInOrder, ReaderIsWoken
<1> QED BY <1>1, XenbusAlways, PTL
=============================================================================
