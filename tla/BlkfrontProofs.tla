--------------------------- MODULE BlkfrontProofs ---------------------------
(***************************************************************************)
(* Proofs about the block front end (Blkfront), for any number of callers,  *)
(* any ring, any requests and a backend that takes and answers them at any  *)
(* step: the ring is sound, buffers are lent, and the abstract disk is      *)
(* implemented.                                                            *)
(*                                                                         *)
(* The ring's indices, which wrap, stand for counters that do not, and the  *)
(* linked free list for a stack of ids.  The ids in flight lie in order     *)
(* between the counters; with the free ones they are all the ids, so the    *)
(* ring has room for a request whenever an id is free.                      *)
(***************************************************************************)
EXTENDS Blkfront, TLAPS, FiniteSetTheorems

-----------------------------------------------------------------------------
(* Remainders *)

\* Division with remainder.
LEMMA Division ==
  ASSUME NEW n \in Int, NEW m \in Nat, m > 0
  PROVE  /\ n % m \in 0..(m - 1) /\ n \div m \in Int
         /\ n = (m * (n \div m)) + (n % m)
  OBVIOUS

\* Quotient and remainder are unique.
LEMMA Remainder ==
  ASSUME NEW m \in Nat, m > 0, NEW q \in Int, NEW n \in Int, NEW r \in 0..(m - 1), n = (m * q) + r
  PROVE  n % m = r
<1> DEFINE p == n \div m
           s == n % m
<1>1. s \in 0..(m - 1) /\ p \in Int /\ n = (m * p) + s
  BY Division
<1> HIDE DEF p, s
<1>2. (m * p) + s = (m * q) + r
  BY <1>1
<1>3. CASE q < p
  <2>1. m * (q + 1) <= m * p
    BY <1>1, <1>3
  <2>2. m * (q + 1) = (m * q) + m
    OBVIOUS
  <2>3. PICK a \in Int, b \in Int : a = m * p /\ b = m * q
    BY <1>1
  <2> QED BY <1>1, <1>2, <2>1, <2>2, <2>3
<1>4. CASE p < q
  <2>1. m * (p + 1) <= m * q
    BY <1>1, <1>4
  <2>2. m * (p + 1) = (m * p) + m
    BY <1>1
  <2>3. PICK a \in Int, b \in Int : a = m * p /\ b = m * q
    BY <1>1
  <2> QED BY <1>1, <1>2, <2>1, <2>2, <2>3
<1>5. CASE p = q
  <2>1. PICK a \in Int : a = m * p
    BY <1>1
  <2> QED BY <1>1, <1>2, <1>5, <2>1 DEF s
<1> QED BY <1>1, <1>3, <1>4, <1>5

\* The difference of two remainders, and equal remainders.
LEMMA RemainderOfDifference ==
  ASSUME NEW m \in Nat, m > 0, NEW a \in Int, NEW b \in Int, b <= a, a < b + m
  PROVE  ((a % m) - (b % m)) % m = a - b /\ (a % m = b % m => a = b)
<1>1. PICK q \in Int, r \in 0..(m - 1) : a = (m * q) + r /\ r = a % m
  BY Division
<1>2. PICK p \in Int, s \in 0..(m - 1) : b = (m * p) + s /\ s = b % m
  BY Division
<1>3. m * (p - q) = (m * p) - (m * q)
  OBVIOUS
<1>4. PICK x \in Int, y \in Int : x = m * q /\ y = m * p
  OBVIOUS
<1>5. r - s = (m * (p - q)) + (a - b)
  BY <1>1, <1>2, <1>3, <1>4
<1>6. (r - s) % m = a - b
  BY <1>5, Remainder
<1>7. 0 % m = 0
  <2>1. 0 = (m * 0) + 0
    OBVIOUS
  <2> QED BY <2>1, Remainder
<1>8. ASSUME r = s PROVE a = b
  <2>1. r - s = 0
    BY <1>8
  <2> QED BY <1>6, <1>7, <2>1
<1> QED BY <1>1, <1>2, <1>6, <1>8

\* Numbers that differ by a multiple have the same remainder.
LEMMA Shift ==
  ASSUME NEW n \in Nat, n > 0, NEW a \in Int, NEW r \in Int, NEW i \in Int,
         \E u \in Int : a = (n * u) + r
  PROVE  (r + i) % n = (a + i) % n
<1>1. PICK u \in Int : a = (n * u) + r
  OBVIOUS
<1>2. PICK c \in Int : c = r + i
  OBVIOUS
<1>3. PICK p \in Int, s \in 0..(n - 1) : c = (n * p) + s /\ s = c % n
  BY Division
<1>4. PICK d \in Int : d = a + i
  OBVIOUS
<1>5. n * (u + p) = (n * u) + (n * p)
  OBVIOUS
<1>6. PICK x \in Int, y \in Int : x = n * u /\ y = n * p
  OBVIOUS
<1>7. d = (n * (u + p)) + s
  BY <1>1, <1>2, <1>3, <1>4, <1>5, <1>6
<1>8. u + p \in Int
  OBVIOUS
<1>9. d % n = s
  BY <1>7, <1>8, Remainder
<1> QED BY <1>2, <1>3, <1>4, <1>9

\* Adding to a remainder.
LEMMA RemainderOfSum ==
  ASSUME NEW n \in Nat, n > 0, NEW a \in Int, NEW i \in Int
  PROVE  ((a % n) + i) % n = (a + i) % n
<1>1. PICK q \in Int, r \in 0..(n - 1) : a = (n * q) + r /\ r = a % n
  BY Division
<1>2. \E u \in Int : a = (n * u) + r
  BY <1>1
<1>3. r \in Int
  OBVIOUS
<1>4. (r + i) % n = (a + i) % n
  BY <1>2, <1>3, Shift, ZenonT(60)
<1> QED BY <1>1, <1>4

\* Adding to a remainder of twice as much.
LEMMA RemainderOfTwice ==
  ASSUME NEW n \in Nat, n > 0, NEW m \in Nat, m = n + n, NEW a \in Int, NEW i \in Int
  PROVE  ((a % m) + i) % n = (a + i) % n
<1>1. PICK q \in Int, r \in 0..(m - 1) : a = (m * q) + r /\ r = a % m
  BY Division
<1>2. m * q = n * (2 * q) /\ 2 * q \in Int
  OBVIOUS
<1>3. \E u \in Int : a = (n * u) + r
  BY <1>1, <1>2
<1>4. r \in Int
  OBVIOUS
<1>5. (r + i) % n = (a + i) % n
  BY <1>3, <1>4, Shift, ZenonT(60)
<1> QED BY <1>1, <1>5


-----------------------------------------------------------------------------
(* The inductive invariant *)

\* What the indices, the slots and the linked list stand for, without their wraps.
\* rsp, cons, last: the responses the front end has reported, taken and seen;
\* answered, taken, asked: the requests answered, taken and put on the ring;
\* order: the ids in flight by position; free, stack: the free ids;
\* page: the reference of the ring's page, 0 for none.
Ghosts ==
  [rsp : Nat, cons : Nat, last : Nat, answered : Nat, taken : Nat, asked : Nat,
   order : [Nat -> Ids], free : Nat, stack : [Nat -> Ids], page : Refs \cup {0}]

Wrap(n) == n % (2 * BLK_RING_SIZE)

Entries == [id : Ids, thread : Threads \cup {NoThread}, grefs : SUBSET Refs, sectors : Int, ok : BOOLEAN]
Kinds == [op : {"read", "write"}, size : Nat \ {0}, bounce : BOOLEAN]
Works == [ring : Nat \ {0, 1}, calls : [Threads -> Int], early : BOOLEAN, kind : [Threads -> Kinds]]
Rings == [req_prod_pvt : Int, rsp_cons : Int, req_prod : Int, rsp_prod : Int,
          req_event : Int, rsp_event : Int, slots : [Ids -> Entries]]
Shadows == [thread : Threads \cup {NoThread}, grefs : SUBSET Refs, free : BOOLEAN]
States == {"BLK_EMPTY", "BLK_SUBMITTED", "BLK_DONE_SUCCESS", "BLK_DONE_ERROR"}
Answers == [status : {"none", "ok", "error"}, sectors : Int]
Handlers == [pc : {"idle", "loop", "callback", "ask", "recheck"}, cons : Int, prod : Int,
             thread : Threads \cup {NoThread}]
Backends == [req_cons : Int, taken : SUBSET Entries, pc : {"awake", "asleep", "check"},
             answer : [Threads -> Answers]]
CallSteps == {"idle", "ready", "ready_wait", "notify", "io_wait", "return"}
InitSteps == {"explore", "watch", "connect", "post_connect", "all", "wait", "initialised"}

BTypeOK ==
  /\ workload \in Works /\ state \in {"ST_UNKNOWN", "ST_READY"} /\ ring \in Rings
  /\ freelist \in [Ids -> Ids] /\ shadows \in [Ids -> Shadows]
  /\ gnttab \in [Refs -> {"free", "granted", "in_use"}]
  /\ pc \in [Threads -> CallSteps] /\ req \in [Threads -> [state : States, bounce : BOOLEAN]]
  /\ done \in [Threads -> {0, 1}] /\ init \in InitSteps /\ handler \in Handlers
  /\ backend \in Backends /\ halt \in {"none", "no_grant"}

\* dev->lock is held by the thread that publishes a request or by the handler.
BLock ==
  /\ \A t \in Threads : pc[t] = "notify" <=> lock = t
  /\ lock = Handler <=> handler.pc # "idle"

\* The indices are the counters, in their order.
BIndices(g) ==
  /\ g.rsp <= g.cons /\ g.cons <= g.answered /\ g.answered <= g.taken /\ g.taken <= g.asked
  /\ g.asked < g.rsp + BLK_RING_SIZE
  /\ ring.req_prod_pvt = Wrap(g.asked) /\ ring.req_prod = Wrap(g.asked)
  /\ ring.rsp_prod = Wrap(g.answered) /\ ring.rsp_cons = Wrap(g.rsp)
  /\ backend.req_cons = Wrap(g.taken)
BHandler(g) ==
  /\ handler.pc \in {"idle", "ask", "recheck"} => g.cons = g.rsp
  /\ handler.pc \in {"loop", "ask", "recheck"} => handler.cons = Wrap(g.cons)
  /\ handler.pc = "callback" => g.rsp < g.cons /\ handler.cons = Wrap(g.cons - 1)
  /\ handler.pc \in {"loop", "callback"} =>
       handler.prod = Wrap(g.last) /\ g.cons <= g.last /\ g.last <= g.answered

\* The positions of the ids in flight, and the id at one.
Window(g) == g.cons..(g.asked - 1)
Shadow(g, i) == shadows[g.order[i]]
Owner(g, i) == Shadow(g, i).thread

\* The free list, before and after its initialisation.
FreeId(g, i) ==
  /\ g.stack[i] # 0 /\ freelist[g.stack[i]] = g.stack[i - 1] /\ shadows[g.stack[i]].free
  /\ \A j \in 1..g.free : g.stack[i] = g.stack[j] => i = j
ListedId(g, id) ==
  (\E i \in 1..g.free : g.stack[i] = id) \/ (\E i \in Window(g) : g.order[i] = id)
BIds(g) ==
  /\ g.stack[0] = 0 /\ freelist[0] = g.stack[g.free]
  /\ \A i \in 1..g.free : FreeId(g, i)
  /\ init \in {"explore", "watch"} => g.free = 0 /\ freelist = [id \in Ids |-> 0]
  /\ init \notin {"explore", "watch"} =>
       (g.asked - g.cons) + g.free = BLK_RING_SIZE - 1 /\ \A id \in Ids \ {0} : ListedId(g, id)
  /\ state = "ST_READY" => init \in {"all", "wait", "initialised"}
  /\ state # "ST_READY" => g.cons = g.asked /\ \A id \in Ids : shadows[id].free

\* The request of an id as it is put on the ring.
Asked(id) ==
  [NoEntry EXCEPT !.id = id, !.thread = shadows[id].thread, !.grefs = shadows[id].grefs,
                  !.sectors = Sectors(workload.kind[shadows[id].thread].size)]

\* The request of an id in flight is that of one caller, who waits for it, and has
\* references of its own.
Requested(g, i) ==
  /\ g.order[i] # 0 /\ ~Shadow(g, i).free /\ Owner(g, i) \in Threads
  /\ pc[Owner(g, i)] \in {"notify", "io_wait"} /\ done[Owner(g, i)] = 0
  /\ req[Owner(g, i)].state = "BLK_SUBMITTED"
  /\ Cardinality(Shadow(g, i).grefs) = num_pages(workload.kind[Owner(g, i)].size)
  /\ g.page \notin Shadow(g, i).grefs
Apart(g, i, j) ==
  g.order[i] # g.order[j] /\ Owner(g, i) # Owner(g, j) /\ Shadow(g, i).grefs \cap Shadow(g, j).grefs = {}
BRequests(g) ==
  /\ \A i \in Window(g) : Requested(g, i)
  /\ \A i, j \in Window(g) : i # j => Apart(g, i, j)

\* A request is on the ring, taken by the backend, or answered.
GrantsAre(g, i, how) == \A r \in Shadow(g, i).grefs : gnttab[r] = how
IsAnswered(g, i) ==
  /\ ring.slots[i % BLK_RING_SIZE].id = g.order[i]
  /\ backend.answer[Owner(g, i)].status = IF ring.slots[i % BLK_RING_SIZE].ok THEN "ok" ELSE "error"
  /\ GrantsAre(g, i, "granted")
IsTaken(g, i) == backend.answer[Owner(g, i)].status = "none" /\ GrantsAre(g, i, "in_use")
IsAsked(g, i) ==
  /\ ring.slots[i % BLK_RING_SIZE] = Asked(g.order[i])
  /\ backend.answer[Owner(g, i)].status = "none" /\ GrantsAre(g, i, "granted")
BProgress(g) ==
  /\ \A i \in g.cons..(g.answered - 1) : IsAnswered(g, i)
  /\ \A i \in g.answered..(g.taken - 1) : IsTaken(g, i)
  /\ \A i \in g.taken..(g.asked - 1) : IsAsked(g, i)
  /\ backend.taken = {Asked(g.order[i]) : i \in g.answered..(g.taken - 1)}

\* Whatever is granted is the ring's page or belongs to a request in flight.
Granted(g, r) == gnttab[r] # "free" => r = g.page \/ \E i \in Window(g) : r \in Shadow(g, i).grefs
BGrants(g) ==
  /\ \A r \in Refs : Granted(g, r)
  /\ g.page # 0 => gnttab[g.page] = "in_use"
  /\ init \in {"explore", "watch", "connect"} => g.page = 0
  /\ state = "ST_READY" \/ init = "post_connect" => g.page # 0

\* The caller's request and the backend's answer agree.
Matches(t) ==
  \/ backend.answer[t].status = "ok" /\ req[t].state = "BLK_DONE_SUCCESS"
  \/ backend.answer[t].status = "error" /\ req[t].state = "BLK_DONE_ERROR"

\* Callers and their answers.
Caller(g, t) ==
  /\ pc[t] \in {"idle", "ready", "ready_wait"} => backend.answer[t].status = "none"
  /\ pc[t] \in {"ready", "ready_wait"} => req[t].state = "BLK_EMPTY"
  /\ pc[t] = "return" =>
       Matches(t) \/ (backend.answer[t].status = "none" /\ req[t].state = "BLK_EMPTY")
  /\ pc[t] = "notify" => \E i \in Window(g) : Owner(g, i) = t
  /\ pc[t] = "io_wait" => Matches(t) \/ \E i \in Window(g) : Owner(g, i) = t
  /\ backend.answer[t].status # "none" =>
       backend.answer[t].sectors = Sectors(workload.kind[t].size)
BCallers(g) ==
  /\ \A t \in Threads : Caller(g, t)
  /\ handler.pc = "callback" =>
       /\ handler.thread \in Threads /\ pc[handler.thread] = "io_wait" /\ done[handler.thread] = 0
       /\ \A i \in Window(g) : Owner(g, i) # handler.thread

Holds(g) ==
  BIndices(g) /\ BHandler(g) /\ BIds(g) /\ BRequests(g) /\ BProgress(g) /\ BGrants(g) /\ BCallers(g)

\* The inductive invariant.
BlkInv == BTypeOK /\ BLock /\ \E g \in Ghosts : Holds(g)

-----------------------------------------------------------------------------
(* Indices and slots *)

USE ThreadsAssumption, SizesAssumption

\* There is room for two requests.
LEMMA RingSize ==
  ASSUME BTypeOK
  PROVE  /\ BLK_RING_SIZE \in Nat /\ BLK_RING_SIZE >= 2
         /\ 2 * BLK_RING_SIZE \in Nat /\ 2 * BLK_RING_SIZE > 0
<1>1. workload.ring \in Nat \ {0, 1}
  BY DEF BTypeOK, Works
<1>2. workload.ring \in Nat /\ workload.ring >= 2
  BY <1>1
<1> QED BY <1>2 DEF BLK_RING_SIZE

\* Wrapped counters are incremented, compared and subtracted like counters.
LEMMA Counters ==
  ASSUME BTypeOK, NEW a \in Nat, NEW b \in Nat
  PROVE  /\ BLK_RING_SIZE \in Nat /\ BLK_RING_SIZE >= 2
         /\ Wrap(a) \in Nat /\ Plus1(Wrap(a)) = Wrap(a + 1)
         /\ Slot(Wrap(a)) = a % BLK_RING_SIZE /\ a % BLK_RING_SIZE \in Ids
         /\ \A i \in Nat : Slot(Wrap(a) + i) = (a + i) % BLK_RING_SIZE
         /\ b <= a /\ a < b + 2 * BLK_RING_SIZE =>
              Sub(Wrap(a), Wrap(b)) = a - b /\ (Wrap(a) = Wrap(b) => a = b)
         /\ b <= a /\ a < b + BLK_RING_SIZE /\ a % BLK_RING_SIZE = b % BLK_RING_SIZE => a = b
<1>1. PICK n \in Nat : n = BLK_RING_SIZE /\ n >= 2
  BY RingSize
<1>2. PICK m \in Nat : m = 2 * n /\ m > 0
  <2>1. 2 * n \in Nat /\ 2 * n > 0
    BY <1>1
  <2> QED BY <2>1
<1>3. Wrap(a) = a % m /\ Wrap(b) = b % m /\ Wrap(a + 1) = (a + 1) % m
  BY <1>1, <1>2 DEF Wrap
<1>4. a % m \in 0..(m - 1) /\ b % m \in 0..(m - 1)
  BY <1>2, Division
<1>5. a % n \in 0..(n - 1)
  BY <1>1, Division
<1>6. ((a % m) + 1) % m = (a + 1) % m
  <2>1. a \in Int /\ 1 \in Int /\ m > 0
    BY <1>2
  <2> QED BY <2>1, RemainderOfSum
<1>7. \A i \in Nat : ((a % m) + i) % n = (a + i) % n
  <2> TAKE i \in Nat
  <2>1. a \in Int /\ i \in Int /\ n > 0 /\ m = n + n
    BY <1>1, <1>2
  <2> QED BY <2>1, RemainderOfTwice
<1>8. (a % m) % n = a % n
  <2>1. ((a % m) + 0) % n = (a + 0) % n
    BY <1>7
  <2>2. (a % m) + 0 = a % m /\ a + 0 = a
    BY <1>4
  <2> QED BY <2>1, <2>2
<1>9. ASSUME b <= a, a < b + m
      PROVE  ((a % m) - (b % m)) % m = a - b /\ (a % m = b % m => a = b)
  <2>1. a \in Int /\ b \in Int /\ m > 0
    BY <1>2
  <2> QED BY <1>9, <2>1, RemainderOfDifference, ZenonT(60)
<1>10. ASSUME b <= a, a < b + n, a % n = b % n PROVE a = b
  <2>1. a \in Int /\ b \in Int /\ n > 0
    BY <1>1
  <2> QED BY <1>10, <2>1, RemainderOfDifference, ZenonT(60)
<1>11. Wrap(a) \in Nat /\ Plus1(Wrap(a)) = Wrap(a + 1)
  BY <1>1, <1>2, <1>3, <1>4, <1>6 DEF Plus1
<1>12. Slot(Wrap(a)) = a % BLK_RING_SIZE /\ a % BLK_RING_SIZE \in Ids
  BY <1>1, <1>3, <1>5, <1>8 DEF Slot, Ids
<1>13. \A i \in Nat : Slot(Wrap(a) + i) = (a + i) % BLK_RING_SIZE
  BY <1>1, <1>3, <1>7 DEF Slot
<1>14. b <= a /\ a < b + 2 * BLK_RING_SIZE =>
         Sub(Wrap(a), Wrap(b)) = a - b /\ (Wrap(a) = Wrap(b) => a = b)
  BY <1>1, <1>2, <1>3, <1>9 DEF Sub
<1> QED BY <1>1, <1>10, <1>11, <1>12, <1>13, <1>14

\* The ghosts and their positions.
LEMMA GhostTypes ==
  ASSUME BTypeOK, NEW g \in Ghosts
  PROVE  /\ g.rsp \in Nat /\ g.cons \in Nat /\ g.last \in Nat /\ g.answered \in Nat
         /\ g.taken \in Nat /\ g.asked \in Nat /\ g.free \in Nat /\ g.page \in Refs \cup {0}
         /\ g.order \in [Nat -> Ids] /\ g.stack \in [Nat -> Ids]
         /\ 0 \in Ids /\ 0 \notin Refs
         /\ \A i \in Window(g) : i \in Nat /\ g.order[i] \in Ids /\ Shadow(g, i) \in Shadows
<1>1. /\ g.rsp \in Nat /\ g.cons \in Nat /\ g.last \in Nat /\ g.answered \in Nat
      /\ g.taken \in Nat /\ g.asked \in Nat /\ g.free \in Nat /\ g.page \in Refs \cup {0}
      /\ g.order \in [Nat -> Ids] /\ g.stack \in [Nat -> Ids]
  BY DEF Ghosts
<1>2. 0 \in Ids /\ 0 \notin Refs
  BY DEF BTypeOK, Works, Ids, BLK_RING_SIZE, Refs
<1>3. \A i \in Window(g) : i \in Nat /\ g.order[i] \in Ids
  BY <1>1 DEF Window
<1> QED BY <1>1, <1>2, <1>3 DEF BTypeOK, Shadow

-----------------------------------------------------------------------------
(* What stays when a part of the state stays *)

SameWork == workload'.ring = workload.ring /\ workload'.kind = workload.kind

\* The types depend on the ring and the kinds of the calls only.
LEMMA SameTypes ==
  ASSUME SameWork
  PROVE  /\ Ids' = Ids /\ Rings' = Rings /\ Backends' = Backends /\ Shadows' = Shadows
         /\ Handlers' = Handlers /\ Works' = Works
<1>1. Ids' = Ids
  BY DEF SameWork, Ids, BLK_RING_SIZE
<1>2. Entries' = Entries
  BY <1>1 DEF Entries, Refs
<1> QED BY <1>1, <1>2 DEF Rings, Backends, Shadows, Handlers, Works, Answers, Refs, Kinds

\* Each part of the invariant stays when what it speaks of stays.
LEMMA Same ==
  ASSUME NEW g \in Ghosts, BTypeOK, Holds(g), SameWork
  PROVE  /\ Ids' = Ids /\ Ghosts' = Ghosts /\ BLK_RING_SIZE' = BLK_RING_SIZE
         /\ /\ ring'.req_prod_pvt = ring.req_prod_pvt /\ ring'.req_prod = ring.req_prod
            /\ ring'.rsp_prod = ring.rsp_prod /\ ring'.rsp_cons = ring.rsp_cons
            /\ backend'.req_cons = backend.req_cons
            => BIndices(g)'
         /\ UNCHANGED handler => BHandler(g)'
         /\ UNCHANGED <<freelist, shadows, init, state>> => BIds(g)'
         /\ UNCHANGED <<shadows, pc, done, req>> => BRequests(g)'
         /\ /\ UNCHANGED <<shadows, gnttab>> /\ ring'.slots = ring.slots
            /\ backend'.answer = backend.answer /\ backend'.taken = backend.taken
            => BProgress(g)'
         /\ UNCHANGED <<shadows, gnttab, init, state>> => BGrants(g)'
         /\ UNCHANGED <<shadows, pc, req, done, handler>> /\ backend'.answer = backend.answer
            => BCallers(g)'
<1> USE DEF Holds
<1>1. BLK_RING_SIZE' = BLK_RING_SIZE
  BY DEF SameWork, BLK_RING_SIZE
<1>2. Ids' = Ids
  BY <1>1 DEF Ids
<1>3. Ghosts' = Ghosts
  BY <1>2 DEF Ghosts, Refs
<1>4. \A n : Wrap(n)' = Wrap(n)
  BY <1>1 DEF Wrap
<1>5. /\ ring'.req_prod_pvt = ring.req_prod_pvt /\ ring'.req_prod = ring.req_prod
      /\ ring'.rsp_prod = ring.rsp_prod /\ ring'.rsp_cons = ring.rsp_cons
      /\ backend'.req_cons = backend.req_cons
      => BIndices(g)'
  BY <1>1 DEF BIndices, Wrap
<1>6. UNCHANGED handler => BHandler(g)'
  BY <1>1 DEF BHandler, Wrap
<1>7. UNCHANGED <<freelist, shadows, init, state>> => BIds(g)'
  BY <1>1, <1>2 DEF BIds, FreeId, ListedId, Window
<1>8. UNCHANGED <<shadows, pc, done, req>> => BRequests(g)'
  BY <1>1 DEF BRequests, Requested, Apart, Owner, Shadow, Window, SameWork
<1>9. ASSUME UNCHANGED <<shadows, gnttab>>, ring'.slots = ring.slots,
             backend'.answer = backend.answer, backend'.taken = backend.taken
      PROVE  BProgress(g)'
  <2>1. \A i : Shadow(g, i)' = Shadow(g, i) /\ Owner(g, i)' = Owner(g, i)
    BY <1>9 DEF Shadow, Owner
  <2>2. \A id : Asked(id)' = Asked(id)
    BY <1>9 DEF Asked, SameWork
  <2>3. {Asked(g.order[i]) : i \in g.answered..(g.taken - 1)}' = {Asked(g.order[i]) : i \in g.answered..(g.taken - 1)}
    BY <2>2
  <2>4. \A i : IsAnswered(g, i) => IsAnswered(g, i)'
    BY <1>1, <1>9, <2>1 DEF IsAnswered, GrantsAre
  <2>5. \A i : IsTaken(g, i) => IsTaken(g, i)'
    BY <1>9, <2>1 DEF IsTaken, GrantsAre
  <2>6. \A i : IsAsked(g, i) => IsAsked(g, i)'
    BY <1>1, <1>9, <2>1, <2>2 DEF IsAsked, GrantsAre
  <2> QED BY <1>9, <2>3, <2>4, <2>5, <2>6 DEF BProgress
<1>10. UNCHANGED <<shadows, gnttab, init, state>> => BGrants(g)'
  BY DEF BGrants, Granted, Window, Shadow
<1>11. ASSUME UNCHANGED <<shadows, pc, req, done, handler>>, backend'.answer = backend.answer
       PROVE  BCallers(g)'
  BY <1>11 DEF BCallers, Caller, Matches, Owner, Shadow, Window, SameWork
<1> QED BY <1>1, <1>2, <1>3, <1>5, <1>6, <1>7, <1>8, <1>9, <1>10, <1>11

\* The invariant of the next state, from its parts.
LEMMA InvFrom ==
  ASSUME NEW g \in Ghosts', BTypeOK', BLock', BIndices(g)', BHandler(g)', BIds(g)', BRequests(g)',
         BProgress(g)', BGrants(g)', BCallers(g)'
  PROVE  BlkInv'
  BY DEF BlkInv, Holds

-----------------------------------------------------------------------------
(* Callers outside dev->lock *)

\* Nothing happens to callers but t.
Elsewhere(t) ==
  \A u \in Threads \ {t} :
    /\ pc'[u] = pc[u] /\ req'[u] = req[u] /\ done'[u] = done[u]
    /\ backend'.answer[u] = backend.answer[u]

\* No request is t's, and none of t's is being completed.
Unowned(g, t) ==
  /\ \A i \in Window(g) : Owner(g, i) # t
  /\ handler.pc = "callback" => handler.thread # t

\* What a caller without a request leaves alone; a call without an id writes to the
\* request no id stands for.
Apart0(t) ==
  /\ UNCHANGED <<state, lock, ring, freelist, gnttab, init, handler>>
  /\ backend'.req_cons = backend.req_cons /\ backend'.taken = backend.taken
  /\ \A id \in Ids \ {0} : shadows'[id] = shadows[id]
  /\ state = "ST_READY" \/ shadows' = shadows
  /\ Elsewhere(t)

\* A caller without a request moves.
LEMMA CallerMoves ==
  ASSUME NEW g \in Ghosts, BTypeOK, BLock, Holds(g), NEW t \in Threads, SameWork, BTypeOK',
         Apart0(t), Unowned(g, t), pc[t] # "notify", pc'[t] # "notify", Caller(g, t)'
  PROVE  BlkInv'
<1> USE DEF Holds
<1>1. Ids' = Ids /\ Ghosts' = Ghosts /\ BLK_RING_SIZE' = BLK_RING_SIZE /\ g \in Ghosts'
  BY Same
<1>2. BIndices(g)' /\ BHandler(g)'
  BY Same DEF Apart0
<1>3. Window(g)' = Window(g)
  BY DEF Window
<1>4. \A i \in Window(g) : Shadow(g, i)' = Shadow(g, i) /\ Owner(g, i)' = Owner(g, i)
  BY GhostTypes DEF BRequests, Requested, Apart0, Shadow, Owner
<1>5. \A i \in Window(g) : Owner(g, i) \in Threads \ {t}
  BY DEF BRequests, Requested, Unowned
<1>6. BLock'
  BY DEF BLock, Apart0, Elsewhere
<1>7. BIds(g)'
  <2>1. \A i \in 1..g.free : FreeId(g, i)'
    <3> TAKE i \in 1..g.free
    <3>1. g.stack[i] \in Ids \ {0}
      BY GhostTypes DEF BIds, FreeId
    <3> QED BY <3>1 DEF BIds, FreeId, Apart0
  <2>2. \A id \in Ids : ListedId(g, id) => ListedId(g, id)'
    BY <1>3 DEF ListedId
  <2>3. state' = "ST_READY" \/ \A id \in Ids : shadows'[id].free <=> shadows[id].free
    BY DEF Apart0
  <2> QED BY <1>1, <2>1, <2>2, <2>3 DEF BIds, Apart0
<1>8. BRequests(g)'
  <2>1. \A i \in Window(g) : Requested(g, i)'
    <3> TAKE i \in Window(g)
    <3>1. Requested(g, i) /\ Owner(g, i) \in Threads \ {t}
      BY <1>5 DEF BRequests
    <3>2. workload'.kind = workload.kind
      BY DEF SameWork
    <3> QED BY <1>4, <3>1, <3>2 DEF Requested, Apart0, Elsewhere
  <2>2. \A i, j \in Window(g) : Apart(g, i, j) => Apart(g, i, j)'
    BY <1>4 DEF Apart
  <2> QED BY <1>3, <2>1, <2>2 DEF BRequests
<1>9. BProgress(g)'
  <2>1. \A i \in Window(g) : g.order[i] \in Ids \ {0}
    BY GhostTypes DEF BRequests, Requested
  <2>2. \A i \in Window(g) : Asked(g.order[i])' = Asked(g.order[i])
    BY <2>1 DEF Asked, Apart0, SameWork
  <2>3. g.cons <= g.answered /\ g.answered <= g.taken /\ g.taken <= g.asked
    BY DEF BIndices
  <2>4. g.answered..(g.taken - 1) \subseteq Window(g)
    BY <2>3, GhostTypes DEF Window
  <2>5. {Asked(g.order[i]) : i \in g.answered..(g.taken - 1)}' = {Asked(g.order[i]) : i \in g.answered..(g.taken - 1)}
    BY <2>2, <2>4
  <2>6. \A i \in g.cons..(g.answered - 1) : IsAnswered(g, i)'
    <3> TAKE i \in g.cons..(g.answered - 1)
    <3>1. i \in Window(g)
      BY <2>3, GhostTypes DEF Window
    <3> QED BY <1>1, <1>4, <1>5, <3>1 DEF BProgress, IsAnswered, GrantsAre, Apart0, Elsewhere
  <2>7. \A i \in g.answered..(g.taken - 1) : IsTaken(g, i)'
    <3> TAKE i \in g.answered..(g.taken - 1)
    <3> QED BY <1>4, <1>5, <2>4 DEF BProgress, IsTaken, GrantsAre, Apart0, Elsewhere
  <2>8. \A i \in g.taken..(g.asked - 1) : IsAsked(g, i)'
    <3> TAKE i \in g.taken..(g.asked - 1)
    <3>1. i \in Window(g)
      BY <2>3, GhostTypes DEF Window
    <3> QED BY <1>1, <1>4, <1>5, <2>2, <3>1 DEF BProgress, IsAsked, GrantsAre, Apart0, Elsewhere
  <2> QED BY <2>5, <2>6, <2>7, <2>8 DEF BProgress, Apart0
<1>10. BGrants(g)'
  <2>1. \A r \in Refs : Granted(g, r) => Granted(g, r)'
    BY <1>3, <1>4 DEF Granted, Apart0
  <2> QED BY <2>1 DEF BGrants, Apart0
<1>11. BCallers(g)'
  <2>1. \A u \in Threads : Caller(g, u)'
    <3> TAKE u \in Threads
    <3>1. CASE u # t
      <4>1. \A i \in Window(g) : Owner(g, i) = u => Owner(g, i)' = u
        BY <1>4
      <4> QED BY <1>3, <3>1, <4>1 DEF BCallers, Caller, Matches, Elsewhere, Apart0, SameWork
    <3> QED BY <3>1
  <2> QED BY <1>3, <1>4, <2>1 DEF BCallers, Apart0, Elsewhere, Unowned
<1> QED BY <1>1, <1>2, <1>6, <1>7, <1>8, <1>9, <1>10, <1>11, InvFrom

\* Where t's next step is that of a caller without a request.
LEMMA IdleUnowned ==
  ASSUME NEW g \in Ghosts, Holds(g), NEW t \in Threads, pc[t] \notin {"notify", "io_wait"}
  PROVE  Unowned(g, t)
  BY DEF Holds, BRequests, Requested, BCallers, Unowned

\* A caller enters with an empty request.
LEMMA BlkReadKept ==
  ASSUME BlkInv, NEW t \in Threads, blk_read(t)
  PROVE  BlkInv'
<1>1. PICK g \in Ghosts : Holds(g)
  BY DEF BlkInv
<1>2. pc[t] = "idle" /\ pc' = [pc EXCEPT ![t] = "ready"]
  BY DEF blk_read, At, GoTo
<1>3. workload' \in Works /\ SameWork
  BY SMTT(30) DEF blk_read, BlkInv, BTypeOK, Works, SameWork
<1>4. BTypeOK'
  <2>1. req' \in [Threads -> [state : States, bounce : BOOLEAN]]
    BY DEF blk_read, BlkInv, BTypeOK, States, Works, Kinds
  <2> QED BY <1>2, <1>3, <2>1, SameTypes DEF blk_read, BlkInv, BTypeOK, CallSteps, waitVars, reqVars, Refs
<1>5. Apart0(t)
  BY <1>2 DEF blk_read, Apart0, Elsewhere, BlkInv, BTypeOK, reqVars, waitVars
<1>6. Caller(g, t)'
  BY <1>1, <1>2, <1>3 DEF blk_read, Holds, BCallers, Caller, BlkInv, BTypeOK
<1> QED BY <1>1, <1>2, <1>3, <1>4, <1>5, <1>6, IdleUnowned, CallerMoves DEF BlkInv, BTypeOK

\* A caller finds the device not ready.
LEMMA DeviceReadyKept ==
  ASSUME BlkInv, NEW t \in Threads, wait_for_device_ready(t)
  PROVE  BlkInv'
<1>1. PICK g \in Ghosts : Holds(g)
  BY DEF BlkInv
<1>2. pc[t] = "ready" /\ pc' = [pc EXCEPT ![t] = "ready_wait"]
  BY DEF wait_for_device_ready, At, GoTo
<1>3. SameWork
  BY DEF wait_for_device_ready, SameWork
<1>4. BTypeOK'
  BY <1>2, <1>3, SameTypes DEF wait_for_device_ready, BlkInv, BTypeOK, CallSteps, waitVars, reqVars, Refs
<1>5. Apart0(t)
  BY <1>2 DEF wait_for_device_ready, Apart0, Elsewhere, BlkInv, BTypeOK, reqVars, waitVars
<1>6. Caller(g, t)'
  BY <1>1, <1>2 DEF wait_for_device_ready, Holds, BCallers, Caller, BlkInv, BTypeOK
<1> QED BY <1>1, <1>2, <1>3, <1>4, <1>5, <1>6, IdleUnowned, CallerMoves DEF BlkInv, BTypeOK

\* A caller waits for the device.
LEMMA ReadyWaitKept ==
  ASSUME BlkInv, NEW t \in Threads, ReadyWait(t)
  PROVE  BlkInv'
<1>1. PICK g \in Ghosts : Holds(g)
  BY DEF BlkInv
<1>2. pc[t] = "ready_wait" /\ (pc' = [pc EXCEPT ![t] = "ready"] \/ pc' = pc)
  BY DEF ReadyWait, WaitFor, At, GoTo
<1>3. SameWork
  BY DEF ReadyWait, SameWork
<1>4. BTypeOK'
  BY <1>2, <1>3, SameTypes DEF ReadyWait, BlkInv, BTypeOK, CallSteps, reqVars, Refs
<1>5. Apart0(t)
  BY <1>2 DEF ReadyWait, Apart0, Elsewhere, BlkInv, BTypeOK, reqVars
<1>6. Caller(g, t)'
  BY <1>1, <1>2 DEF ReadyWait, Holds, BCallers, Caller, BlkInv, BTypeOK
<1> QED BY <1>1, <1>2, <1>3, <1>4, <1>5, <1>6, IdleUnowned, CallerMoves DEF BlkInv, BTypeOK

\* A call without an id fails and leaves every other request alone.
LEMMA NoIdKept ==
  ASSUME BlkInv, NEW t \in Threads, blk_do_io(t), NoId(t)
  PROVE  BlkInv'
<1>1. PICK g \in Ghosts : Holds(g)
  BY DEF BlkInv
<1>2. pc[t] = "ready" /\ pc' = [pc EXCEPT ![t] = "return"] /\ state = "ST_READY"
  BY DEF blk_do_io, NoId, At, GoTo
<1>3. SameWork
  BY DEF blk_do_io, SameWork
<1>4. shadows' \in [Ids -> Shadows] /\ \A id \in Ids \ {0} : shadows'[id] = shadows[id]
  <2>1. 0 \in Ids
    BY <1>1, GhostTypes DEF BlkInv
  <2>2. [shadows[0] EXCEPT !.free = FALSE] \in Shadows
    <3>1. shadows[0] \in Shadows
      BY <2>1 DEF BlkInv, BTypeOK
    <3> QED BY <3>1 DEF Shadows
  <2> QED BY <2>1, <2>2 DEF NoId, BlkInv, BTypeOK
<1>5. BTypeOK'
  BY <1>2, <1>3, SameTypes, <1>4 DEF blk_do_io, NoId, BlkInv, BTypeOK, CallSteps, Refs
<1>6. Apart0(t)
  BY <1>2, <1>4 DEF blk_do_io, NoId, Apart0, Elsewhere, BlkInv, BTypeOK
<1>7. Caller(g, t)'
  BY <1>1, <1>2 DEF blk_do_io, NoId, Holds, BCallers, Caller, BlkInv, BTypeOK
<1> QED BY <1>1, <1>2, <1>3, <1>5, <1>6, <1>7, IdleUnowned, CallerMoves DEF BlkInv, BTypeOK

\* A call that finds too few references stops the system.
LEMMA NoGrantKept ==
  ASSUME BlkInv, NEW t \in Threads, blk_do_io(t), NoGrant(t)
  PROVE  BlkInv'
<1>1. PICK g \in Ghosts : Holds(g)
  BY DEF BlkInv
<1>2. pc[t] = "ready" /\ pc' = pc
  BY DEF blk_do_io, NoGrant, At
<1>3. SameWork
  BY DEF blk_do_io, SameWork
<1>4. BTypeOK'
  BY <1>2, <1>3, SameTypes DEF blk_do_io, NoGrant, BlkInv, BTypeOK, CallSteps, Refs
<1>5. Apart0(t)
  BY <1>2 DEF blk_do_io, NoGrant, Apart0, Elsewhere, BlkInv, BTypeOK
<1>6. Caller(g, t)'
  BY <1>1, <1>2 DEF blk_do_io, NoGrant, Holds, BCallers, Caller, BlkInv, BTypeOK
<1> QED BY <1>1, <1>2, <1>3, <1>4, <1>5, <1>6, IdleUnowned, CallerMoves DEF BlkInv, BTypeOK

\* A call returns, and the answer to it is forgotten.
LEMMA ReturnKept ==
  ASSUME BlkInv, NEW t \in Threads, Return(t)
  PROVE  BlkInv'
<1>1. PICK g \in Ghosts : Holds(g)
  BY DEF BlkInv
<1>2. pc[t] = "return" /\ pc' = [pc EXCEPT ![t] = "idle"]
  BY DEF Return, At, GoTo
<1>3. SameWork
  BY DEF Return, SameWork
<1>4. req' \in [Threads -> [state : States, bounce : BOOLEAN]]
  BY DEF Return, BlkInv, BTypeOK, States
<1>5. /\ backend' \in Backends /\ backend'.req_cons = backend.req_cons /\ backend'.taken = backend.taken
      /\ backend'.answer = [backend.answer EXCEPT ![t] = NoAnswer]
  <2>1. NoAnswer \in Answers
    BY DEF NoAnswer, Answers
  <2>2. PICK a \in [Threads -> Answers] : a = [backend.answer EXCEPT ![t] = NoAnswer]
    BY <2>1 DEF BlkInv, BTypeOK, Backends
  <2>3. backend' = [backend EXCEPT !.answer = a]
    BY <2>2 DEF Return
  <2>4. backend' \in Backends
    BY <2>3, Zenon DEF BlkInv, BTypeOK, Backends
  <2> QED BY <2>2, <2>3, <2>4 DEF BlkInv, BTypeOK, Backends
<1>6. BTypeOK'
  BY <1>2, <1>3, SameTypes, <1>4, <1>5 DEF Return, BlkInv, BTypeOK, CallSteps, waitVars, reqVars, Refs
<1>7. Apart0(t)
  BY <1>2, <1>5 DEF Return, Apart0, Elsewhere, BlkInv, BTypeOK, reqVars, waitVars, Backends
<1>8. Caller(g, t)'
  BY <1>1, <1>2, <1>5 DEF Return, Holds, BCallers, Caller, BlkInv, BTypeOK, NoAnswer, Backends
<1> QED BY <1>1, <1>2, <1>3, <1>6, <1>7, <1>8, IdleUnowned, CallerMoves DEF BlkInv, BTypeOK

\* A caller waits until its own request is completed.
LEMMA WaitKept ==
  ASSUME BlkInv, NEW t \in Threads, wait_for_completion(t)
  PROVE  BlkInv'
<1>1. PICK g \in Ghosts : Holds(g)
  BY DEF BlkInv
<1>2. SameWork /\ pc[t] = "io_wait"
  BY DEF wait_for_completion, SameWork, At
<1>3. CASE done[t] > 0
  <2>1. pc' = [pc EXCEPT ![t] = "return"] /\ done[t] = 1
    BY <1>3 DEF wait_for_completion, WaitFor, GoTo, BlkInv, BTypeOK
  <2>2. BTypeOK'
    BY <1>2, <2>1, SameTypes DEF wait_for_completion, BlkInv, BTypeOK, CallSteps, reqVars, Refs
  <2>3. Apart0(t)
    BY <2>1 DEF wait_for_completion, Apart0, Elsewhere, BlkInv, BTypeOK, reqVars
  <2>4. Unowned(g, t)
    BY <1>1, <2>1 DEF Holds, BRequests, Requested, BCallers, Unowned
  <2>5. Matches(t)
    BY <1>1, <1>2, <2>4 DEF Holds, BCallers, Caller, Unowned
  <2>6. Caller(g, t)'
    BY <1>1, <1>2, <2>1, <2>5 DEF wait_for_completion, Holds, BCallers, Caller, Matches, BlkInv, BTypeOK,
       reqVars, SameWork
  <2> QED BY <1>1, <1>2, <2>1, <2>2, <2>3, <2>4, <2>6, CallerMoves DEF BlkInv, BTypeOK
<1>4. CASE done[t] = 0
  <2>1. pc' = pc /\ done' = done
    BY <1>4 DEF wait_for_completion, WaitFor, BlkInv, BTypeOK
  <2>2. BTypeOK' /\ BLock'
    BY <1>2, <2>1, SameTypes DEF wait_for_completion, BlkInv, BTypeOK, reqVars, Refs, BLock
  <2> QED BY <1>1, <1>2, <2>1, <2>2, Same, InvFrom DEF wait_for_completion, BlkInv, reqVars
<1> QED BY <1>3, <1>4 DEF BlkInv, BTypeOK

-----------------------------------------------------------------------------
(* The end of blk_do_io, and blkfront_thread *)

\* A request is notified and dev->lock released, so the caller only waits.
LEMMA CheckNotifyKept ==
  ASSUME BlkInv, NEW t \in Threads, CheckNotify(t)
  PROVE  BlkInv'
<1>1. PICK g \in Ghosts : Holds(g)
  BY DEF BlkInv
<1>2. SameWork /\ pc[t] = "notify" /\ pc' = [pc EXCEPT ![t] = "io_wait"] /\ lock = t /\ lock' = NoThread
  BY DEF CheckNotify, SameWork, At, GoTo, BlkInv, BLock
<1>3. /\ backend' \in Backends /\ backend'.req_cons = backend.req_cons
      /\ backend'.taken = backend.taken /\ backend'.answer = backend.answer
  BY DEF CheckNotify, BlkInv, BTypeOK, Backends
<1>4. BTypeOK'
  BY <1>2, <1>3, SameTypes DEF CheckNotify, BlkInv, BTypeOK, CallSteps, waitVars, reqVars, Refs
<1>5. BLock'
  BY <1>2 DEF CheckNotify, BlkInv, BTypeOK, BLock
<1>6. BRequests(g)'
  <2>1. \A i \in Window(g) : Requested(g, i)'
    <3> TAKE i \in Window(g)
    <3>1. Requested(g, i)
      BY <1>1 DEF Holds, BRequests
    <3> QED BY <1>2, <3>1 DEF CheckNotify, Requested, Owner, Shadow, BlkInv, BTypeOK, waitVars, reqVars,
          SameWork
  <2>2. \A i, j \in Window(g) : i # j => Apart(g, i, j)'
    BY <1>1 DEF CheckNotify, Holds, BRequests, Apart, Owner, Shadow, reqVars
  <2> QED BY <2>1, <2>2 DEF BRequests, Window
<1>7. BCallers(g)'
  <2>1. \E i \in Window(g) : Owner(g, i) = t
    BY <1>1, <1>2 DEF Holds, BCallers, Caller
  <2>2. \A i : Owner(g, i)' = Owner(g, i)
    BY DEF CheckNotify, Owner, Shadow, reqVars
  <2>3. Window(g)' = Window(g)
    BY DEF Window
  <2>4. \A u \in Threads : Caller(g, u)'
    <3> TAKE u \in Threads
    <3>1. Caller(g, u)
      BY <1>1 DEF Holds, BCallers
    <3>2. (\E i \in Window(g) : Owner(g, i) = u) => \E i \in Window(g)' : Owner(g, i)' = u
      BY <2>2, <2>3
    <3>3. Matches(u) => Matches(u)'
      BY <1>3 DEF CheckNotify, Matches
    <3>4. CASE u = t
      BY <1>2, <1>3, <2>1, <3>1, <3>2, <3>4 DEF CheckNotify, Caller, BlkInv, BTypeOK, SameWork
    <3>5. CASE u # t
      BY <1>2, <1>3, <3>1, <3>2, <3>3, <3>5 DEF CheckNotify, Caller, BlkInv, BTypeOK, SameWork
    <3> QED BY <3>4, <3>5
  <2> QED BY <1>1, <1>2, <2>2, <2>3, <2>4 DEF CheckNotify, Holds, BCallers, BlkInv, BTypeOK, waitVars
<1>8. ring' = ring /\ handler' = handler /\ UNCHANGED <<freelist, shadows, gnttab, init, state>>
  BY DEF CheckNotify, reqVars
<1> QED BY <1>1, <1>2, <1>3, <1>4, <1>5, <1>6, <1>7, <1>8, Same, InvFrom DEF BlkInv

\* Steps of blkfront_thread that only wake callers or set the device's state.
LEMMA InitWaitsKept ==
  ASSUME BlkInv, ExploreAgain \/ AllReady \/ blkfront_thread
  PROVE  BlkInv'
<1>1. PICK g \in Ghosts : Holds(g)
  BY DEF BlkInv
<1>2. /\ SameWork /\ init' \in InitSteps
      /\ init \in {"watch", "all", "wait"}
      /\ init' = IF init = "watch" THEN "explore" ELSE IF init = "all" THEN "wait" ELSE "initialised"
      /\ UNCHANGED <<state, lock, ring, freelist, shadows, gnttab, pc, req, done, handler, backend, halt, workload>>
  BY DEF ExploreAgain, AllReady, blkfront_thread, InitAt, SameWork, InitSteps, reqVars, complete_all
<1>3. BTypeOK'
  BY <1>2, SameTypes DEF BlkInv, BTypeOK, Refs
<1>4. BLock'
  BY <1>2 DEF BlkInv, BLock
<1>5. BIds(g)'
  <2>1. BLK_RING_SIZE' = BLK_RING_SIZE /\ Ids' = Ids /\ BIds(g)
    BY <1>1, <1>2, SameTypes DEF SameWork, BLK_RING_SIZE, Holds
  <2>2. \A i : FreeId(g, i)' = FreeId(g, i)
    BY <1>2 DEF FreeId
  <2>3. \A id : ListedId(g, id)' = ListedId(g, id)
    BY DEF ListedId, Window
  <2> QED BY <1>2, <2>1, <2>2, <2>3 DEF BIds
<1>6. BGrants(g)'
  <2>1. \A r : Granted(g, r)' = Granted(g, r)
    BY <1>2 DEF Granted, Shadow, Window
  <2> QED BY <1>1, <1>2, <2>1 DEF Holds, BGrants, Refs
<1> QED BY <1>1, <1>2, <1>3, <1>4, <1>5, <1>6, Same, InvFrom DEF BlkInv

\* The device becomes ready with its page granted.
LEMMA PostConnectKept ==
  ASSUME BlkInv, post_connect
  PROVE  BlkInv'
<1>1. PICK g \in Ghosts : Holds(g)
  BY DEF BlkInv
<1>2. /\ SameWork /\ init = "post_connect" /\ init' = "all" /\ state' = "ST_READY"
      /\ UNCHANGED <<lock, ring, freelist, shadows, gnttab, pc, req, done, handler, backend, halt, workload>>
  BY DEF post_connect, InitAt, SameWork, reqVars, waitVars
<1>3. BTypeOK'
  BY <1>2, SameTypes DEF BlkInv, BTypeOK, Refs, InitSteps
<1>4. BLock'
  BY <1>2 DEF BlkInv, BLock
<1>5. BIds(g)'
  <2>1. BLK_RING_SIZE' = BLK_RING_SIZE /\ Ids' = Ids /\ BIds(g)
    BY <1>1, <1>2, SameTypes DEF SameWork, BLK_RING_SIZE, Holds
  <2>2. \A i : FreeId(g, i)' = FreeId(g, i)
    BY <1>2 DEF FreeId
  <2>3. \A id : ListedId(g, id)' = ListedId(g, id)
    BY DEF ListedId, Window
  <2> QED BY <1>2, <2>1, <2>2, <2>3 DEF BIds
<1>6. BGrants(g)'
  <2>1. \A r : Granted(g, r)' = Granted(g, r)
    BY <1>2 DEF Granted, Shadow, Window
  <2> QED BY <1>1, <1>2, <2>1 DEF Holds, BGrants, Refs
<1> QED BY <1>1, <1>2, <1>3, <1>4, <1>5, <1>6, Same, InvFrom DEF BlkInv

\* The ids are put on the free list, once (init_buffers).
LEMMA ExploreKept ==
  ASSUME BlkInv, blk_explore
  PROVE  BlkInv'
<1>1. PICK g \in Ghosts : Holds(g)
  BY DEF BlkInv
<1>2. /\ SameWork /\ init = "explore"
      /\ \/ init' = "watch" /\ freelist' = freelist
         \/ init' \in {"all", "connect"} /\ freelist' = init_buffers
      /\ UNCHANGED <<state, lock, ring, shadows, gnttab, pc, req, done, handler, backend, halt, workload>>
  BY DEF blk_explore, InitAt, SameWork, waitVars
<1>3. BLK_RING_SIZE \in Nat /\ BLK_RING_SIZE >= 2 /\ Ids' = Ids /\ BLK_RING_SIZE' = BLK_RING_SIZE
  BY <1>1, <1>2, Counters, Same DEF BlkInv
<1>4. init_buffers \in [Ids -> Ids]
  BY <1>3 DEF init_buffers, Ids
<1>5. BTypeOK'
  BY <1>2, <1>4, SameTypes DEF BlkInv, BTypeOK, Refs, InitSteps
<1>6. BLock'
  BY <1>2 DEF BlkInv, BLock
<1>7. g.free = 0 /\ g.cons = g.asked /\ state # "ST_READY" /\ (\A id \in Ids : shadows[id].free)
      /\ freelist = [id \in Ids |-> 0] /\ g.page = 0
  BY <1>1, <1>2 DEF Holds, BIds, BGrants
<1>8. CASE init' = "watch" /\ freelist' = freelist
  <2>1. BIds(g)'
    <3>1. BIds(g)
      BY <1>1 DEF Holds
    <3>2. \A i : FreeId(g, i)' = FreeId(g, i)
      BY <1>2, <1>8 DEF FreeId
    <3> QED BY <1>2, <1>3, <1>7, <1>8, <3>1, <3>2 DEF BIds
  <2>2. BGrants(g)'
    <3>1. \A r : Granted(g, r)' = Granted(g, r)
      BY <1>2 DEF Granted, Shadow, Window
    <3> QED BY <1>1, <1>2, <1>8, <3>1 DEF Holds, BGrants, Refs
  <2> QED BY <1>1, <1>2, <1>5, <1>6, <2>1, <2>2, Same, InvFrom DEF BlkInv
<1>9. CASE init' \in {"all", "connect"} /\ freelist' = init_buffers
  <2>1. PICK h \in Ghosts :
          /\ h.rsp = g.rsp /\ h.cons = g.cons /\ h.last = g.last /\ h.answered = g.answered
          /\ h.taken = g.taken /\ h.asked = g.asked /\ h.order = g.order /\ h.page = g.page
          /\ h.free = BLK_RING_SIZE - 1 /\ h.stack = [i \in Nat |-> IF i \in Ids THEN i ELSE 0]
    <3> DEFINE h == [g EXCEPT !.free = BLK_RING_SIZE - 1, !.stack = [i \in Nat |-> IF i \in Ids THEN i ELSE 0]]
    <3>1. [i \in Nat |-> IF i \in Ids THEN i ELSE 0] \in [Nat -> Ids]
      BY <1>3 DEF Ids
    <3>2. BLK_RING_SIZE - 1 \in Nat
      BY <1>3
    <3>3. h \in Ghosts
      BY <3>1, <3>2 DEF Ghosts
    <3> QED BY <3>3 DEF Ghosts
  <2>2. h \in Ghosts'
    BY <1>1, <1>2, <2>1, Same DEF BlkInv
  <2>3. Window(h)' = {} /\ Window(g) = {}
    BY <1>7, <2>1 DEF Window, Ghosts
  <2>4. BIds(h)'
    <3>1. \A i \in 1..h.free : i \in Ids \ {0} /\ h.stack[i] = i /\ h.stack[i - 1] = i - 1 /\ freelist'[i] = i - 1
      BY <1>3, <1>9, <2>1 DEF Ids, init_buffers
    <3>2. \A i \in 1..h.free : FreeId(h, i)'
      BY <1>2, <1>7, <3>1 DEF FreeId
    <3>3. h.stack[0] = 0 /\ freelist'[0] = h.stack[h.free]
      BY <1>3, <1>9, <2>1 DEF Ids, init_buffers
    <3>4. \A id \in Ids \ {0} : ListedId(h, id)'
      BY <1>3, <2>1, <3>1 DEF ListedId, Ids
    <3>5. (h.asked - h.cons) + h.free = BLK_RING_SIZE - 1
      BY <1>3, <1>7, <2>1 DEF Ghosts
    <3> QED BY <1>2, <1>3, <1>7, <1>9, <2>1, <3>2, <3>3, <3>4, <3>5 DEF BIds
  <2>5. BIndices(h)' /\ BHandler(h)'
    <3>1. BIndices(g)' /\ BHandler(g)'
      BY <1>1, <1>2, Same DEF BlkInv
    <3> QED BY <2>1, <3>1 DEF BIndices, BHandler, Wrap
  <2>6. BRequests(h)'
    BY <2>3 DEF BRequests
  <2>7. BProgress(h)'
    <3>1. BProgress(g)'
      BY <1>1, <1>2, Same DEF BlkInv
    <3>2. \A i : Shadow(g, i)' = Shadow(h, i)' /\ Owner(g, i)' = Owner(h, i)'
      BY <2>1 DEF Shadow, Owner
    <3> QED BY <2>1, <3>1, <3>2 DEF BProgress, IsAnswered, IsTaken, IsAsked, GrantsAre
  <2>8. BGrants(h)'
    BY <1>1, <1>2, <1>7, <1>9, <2>1, <2>3 DEF Holds, BGrants, Granted, Refs
  <2>9. BCallers(h)'
    <3>1. BCallers(g)'
      BY <1>1, <1>2, Same DEF BlkInv
    <3>2. Window(g)' = {}
      BY <2>3 DEF Window
    <3> QED BY <2>3, <3>1, <3>2 DEF BCallers, Caller
  <2> QED BY <1>1, <1>2, <1>5, <1>6, <2>2, <2>4, <2>5, <2>6, <2>7, <2>8, <2>9, Same, InvFrom DEF BlkInv
<1> QED BY <1>2, <1>8, <1>9

-----------------------------------------------------------------------------
(* The event handler between responses, and the backend between requests *)

\* What does not depend on the responses reported and seen.
LEMMA GhostParts ==
  ASSUME NEW g, NEW h, h.cons = g.cons, h.answered = g.answered, h.taken = g.taken, h.asked = g.asked,
         h.order = g.order, h.free = g.free, h.stack = g.stack, h.page = g.page
  PROVE  /\ BIds(g)' => BIds(h)'
         /\ BRequests(g)' => BRequests(h)'
         /\ BProgress(g)' => BProgress(h)'
         /\ BGrants(g)' => BGrants(h)'
         /\ BCallers(g)' => BCallers(h)'
<1>1. \A i : Shadow(g, i)' = Shadow(h, i)' /\ Owner(g, i)' = Owner(h, i)'
  BY DEF Shadow, Owner
<1>2. Window(g)' = Window(h)' /\ Window(g)' = Window(g)
  BY DEF Window
<1>3. BIds(g)' => BIds(h)'
  BY <1>2 DEF BIds, FreeId, ListedId
<1>4. BRequests(g)' => BRequests(h)'
  BY <1>1, <1>2 DEF BRequests, Requested, Apart
<1>5. BProgress(g)' => BProgress(h)'
  BY <1>1 DEF BProgress, IsAnswered, IsTaken, IsAsked, GrantsAre
<1>6. BGrants(g)' => BGrants(h)'
  BY <1>1, <1>2 DEF BGrants, Granted
<1>7. BCallers(g)' => BCallers(h)'
  BY <1>1, <1>2 DEF BCallers, Caller
<1> QED BY <1>3, <1>4, <1>5, <1>6, <1>7

\* The ghosts when the handler has reported the first c responses and seen the first n.
Seen(g, c, n) == [g EXCEPT !.rsp = c, !.last = n]

IsSeen(h, g, c, n) ==
  /\ h.rsp = c /\ h.last = n
  /\ h.cons = g.cons /\ h.answered = g.answered /\ h.taken = g.taken /\ h.asked = g.asked
  /\ h.order = g.order /\ h.free = g.free /\ h.stack = g.stack /\ h.page = g.page

\* They are ghosts.
LEMMA SeenGhost ==
  ASSUME NEW g \in Ghosts, NEW c \in Nat, NEW n \in Nat
  PROVE  Seen(g, c, n) \in Ghosts /\ IsSeen(Seen(g, c, n), g, c, n)
<1>1. Seen(g, c, n) \in Ghosts
  BY DEF Ghosts, Seen
<1> QED BY <1>1 DEF Ghosts, Seen, IsSeen

\* The event handler begins.
LEMMA HandlerBegins ==
  ASSUME BlkInv, __blk_front_handler
  PROVE  BlkInv'
<1>1. PICK g \in Ghosts : Holds(g)
  BY DEF BlkInv
<1>2. /\ SameWork /\ handler.pc = "idle" /\ lock = NoThread
      /\ UNCHANGED <<state, ring, freelist, shadows, gnttab, pc, req, done, init, backend, workload, halt>>
  BY DEF __blk_front_handler, SameWork, reqVars, waitVars
<1>3. CASE UNCHANGED <<lock, handler>>
  <2>1. BTypeOK' /\ BLock'
    BY <1>2, <1>3, SameTypes DEF BlkInv, BTypeOK, BLock, Refs
  <2> QED BY <1>1, <1>2, <1>3, <2>1, Same, InvFrom DEF BlkInv
<1>4. CASE lock' = Handler /\ handler' = [handler EXCEPT !.pc = "loop", !.cons = ring.rsp_cons, !.prod = ring.rsp_prod]
  <2>1. PICK h \in Ghosts :
          h = Seen(g, g.rsp, g.answered) /\ IsSeen(h, g, g.rsp, g.answered)
    <3>1. g.rsp \in Nat /\ g.answered \in Nat 
      BY GhostTypes DEF BlkInv
    <3> QED BY <3>1, SeenGhost
  <2>2. h \in Ghosts' /\ BLK_RING_SIZE' = BLK_RING_SIZE
    BY <1>1, <1>2, <2>1, Same DEF BlkInv
  <2>3. /\ handler' \in Handlers /\ handler'.pc = "loop" /\ handler'.cons = ring.rsp_cons
        /\ handler'.prod = ring.rsp_prod
    <3>1. ring.rsp_cons \in Int /\ ring.rsp_prod \in Int
      BY DEF BlkInv, BTypeOK, Rings
    <3> QED BY <1>4, <3>1 DEF BlkInv, BTypeOK, Handlers
  <2>4. BTypeOK' /\ BLock'
    BY <1>2, <1>4, <2>3, SameTypes DEF BlkInv, BTypeOK, BLock, Refs
  <2>5. BIndices(h)'
    <3>1. BIndices(g)'
      BY <1>1, <1>2, Same DEF BlkInv
    <3> QED BY <2>1, <3>1 DEF BIndices, Wrap, IsSeen
  <2>6. BHandler(h)'
    <3>1. \A n : Wrap(n)' = Wrap(n)
      BY <2>2 DEF Wrap
    <3>2. g.answered \in Nat
      BY GhostTypes DEF BlkInv
    <3> QED BY <1>1, <1>2, <2>1, <2>3, <3>1, <3>2 DEF Holds, BHandler, BIndices, IsSeen
  <2>7. BIds(g)' /\ BRequests(g)' /\ BProgress(g)' /\ BGrants(g)'
    BY <1>1, <1>2, Same DEF BlkInv
  <2>8. BCallers(g)'
    <3>1. \A u \in Threads : Caller(g, u)'
      <4> TAKE u \in Threads
      <4>1. Caller(g, u)
        BY <1>1 DEF Holds, BCallers
      <4> QED BY <1>2, <4>1 DEF Caller, Matches, Owner, Shadow, Window
    <3> QED BY <2>3, <3>1 DEF BCallers
  <2> QED BY <2>1, <2>2, <2>4, <2>5, <2>6, <2>7, <2>8, GhostParts, InvFrom DEF IsSeen
<1> QED BY <1>3, <1>4 DEF __blk_front_handler

\* The handler has taken the responses it has seen.
LEMMA EndOfLoopKept ==
  ASSUME BlkInv, EndOfLoop
  PROVE  BlkInv'
<1>1. PICK g \in Ghosts : Holds(g)
  BY DEF BlkInv
<1>2. /\ SameWork /\ handler.pc = "loop" /\ handler.cons = handler.prod
      /\ UNCHANGED <<state, freelist, shadows, gnttab, pc, req, done, init, backend, workload, halt>>
  BY DEF EndOfLoop, HandlerAt, SameWork, reqVars, waitVars
<1>3. handler \in Handlers /\ ring \in Rings /\ lock = Handler
  BY <1>2 DEF BlkInv, BTypeOK, BLock
<1>4. /\ ring' \in Rings /\ ring'.rsp_cons = handler.cons
      /\ ring'.req_prod_pvt = ring.req_prod_pvt /\ ring'.req_prod = ring.req_prod
      /\ ring'.rsp_prod = ring.rsp_prod /\ ring'.slots = ring.slots
  <2>1. PICK e \in Int : ring' = [ring EXCEPT !.rsp_cons = handler.cons, !.rsp_event = e]
    <3>1. Plus1(handler.cons) \in Int /\ ring.rsp_event \in Int
      <4>1. 2 * BLK_RING_SIZE \in Nat /\ 2 * BLK_RING_SIZE > 0
        BY RingSize DEF BlkInv
      <4>2. handler.cons + 1 \in Int
        BY <1>3 DEF Handlers
      <4> QED BY <1>3, <4>1, <4>2, Division DEF Plus1, Rings
    <3> QED BY <3>1 DEF EndOfLoop
  <2>2. handler.cons \in Int
    BY <1>3 DEF Handlers
  <2>3. ring' \in Rings
    BY <1>3, <2>1, <2>2, Zenon DEF Rings
  <2> QED BY <1>3, <2>1, <2>3 DEF Rings
<1>5. /\ g.rsp \in Nat /\ g.cons \in Nat /\ g.last \in Nat /\ g.answered \in Nat /\ g.taken \in Nat
      /\ g.asked \in Nat /\ BLK_RING_SIZE \in Nat /\ BTypeOK
  BY GhostTypes, RingSize DEF BlkInv
<1>6. /\ g.rsp <= g.cons /\ g.cons <= g.answered /\ g.answered <= g.taken /\ g.taken <= g.asked
      /\ g.asked < g.rsp + BLK_RING_SIZE /\ g.cons <= g.last /\ g.last <= g.answered
      /\ handler.cons = Wrap(g.cons) /\ handler.prod = Wrap(g.last) /\ ring.rsp_prod = Wrap(g.answered)
  BY <1>1, <1>2 DEF Holds, BIndices, BHandler
<1>7. PICK h \in Ghosts :
        h = Seen(g, g.cons, g.answered) /\ IsSeen(h, g, g.cons, g.answered)
  BY <1>5, SeenGhost
<1>8. h \in Ghosts' /\ BLK_RING_SIZE' = BLK_RING_SIZE
  BY <1>1, <1>2, <1>7, Same DEF BlkInv
<1>9. /\ handler' \in Handlers
      /\ \/ handler'.pc = "idle" /\ lock' = NoThread
         \/ /\ handler'.pc = "loop" /\ lock' = lock
            /\ handler'.cons = handler.cons /\ handler'.prod = ring.rsp_prod
         \/ handler'.pc = "ask" /\ lock' = lock /\ handler'.cons = handler.cons
  <2>1. ring.rsp_prod \in Int
    BY <1>3 DEF Rings
  <2>2. CASE handler' = HandlerEnds /\ lock' = NoThread
    <3>1. 0 \in Int
      OBVIOUS
    <3>2. handler' \in Handlers
      BY <1>3, <2>2, <3>1, Zenon DEF HandlerEnds, Handlers
    <3> QED BY <1>3, <2>2, <3>2 DEF HandlerEnds, Handlers
  <2>3. CASE handler' = [handler EXCEPT !.prod = ring.rsp_prod] /\ lock' = lock
    BY <1>2, <1>3, <2>1, <2>3 DEF Handlers
  <2>4. CASE handler' = [handler EXCEPT !.pc = "ask"] /\ lock' = lock
    BY <1>3, <2>4 DEF Handlers
  <2> QED BY <2>2, <2>3, <2>4 DEF EndOfLoop
<1>10. BTypeOK'
  BY <1>2, <1>4, <1>9, SameTypes DEF BlkInv, BTypeOK, Refs
<1>11. BLock'
  BY <1>2, <1>3, <1>9 DEF BlkInv, BLock
<1>12. BIndices(h)'
  BY <1>1, <1>2, <1>4, <1>5, <1>6, <1>7, <1>8 DEF Holds, BIndices, Wrap, IsSeen
<1>13. BHandler(h)'
  <2>1. \A n : Wrap(n)' = Wrap(n)
    BY <1>8 DEF Wrap
  <2> QED BY <1>5, <1>6, <1>7, <1>9, <2>1 DEF BHandler, IsSeen
<1>14. BIds(g)' /\ BRequests(g)' /\ BProgress(g)' /\ BGrants(g)'
  BY <1>1, <1>2, <1>4, Same DEF BlkInv
<1>15. BCallers(g)'
  <2>1. \A u \in Threads : Caller(g, u)'
    <3> TAKE u \in Threads
    <3>1. Caller(g, u)
      BY <1>1 DEF Holds, BCallers
    <3> QED BY <1>2, <3>1 DEF Caller, Matches, Owner, Shadow, Window
  <2> QED BY <1>9, <2>1 DEF BCallers
<1> QED BY <1>7, <1>8, <1>10, <1>11, <1>12, <1>13, <1>14, <1>15, GhostParts, InvFrom DEF IsSeen

\* The handler looks again after asking for an event.
LEMMA FinalCheckKept ==
  ASSUME BlkInv, RING_FINAL_CHECK
  PROVE  BlkInv'
<1>1. PICK g \in Ghosts : Holds(g)
  BY DEF BlkInv
<1>2. /\ SameWork /\ handler.pc = "recheck"
      /\ UNCHANGED <<state, ring, freelist, shadows, gnttab, pc, req, done, init, backend, workload, halt>>
  BY DEF RING_FINAL_CHECK, HandlerAt, SameWork, reqVars, waitVars
<1>3. handler \in Handlers /\ ring \in Rings /\ lock = Handler
  BY <1>2 DEF BlkInv, BTypeOK, BLock
<1>4. g.rsp \in Nat /\ g.answered \in Nat /\ BTypeOK
  BY GhostTypes DEF BlkInv
<1>5. PICK h \in Ghosts :
        h = Seen(g, g.rsp, g.answered) /\ IsSeen(h, g, g.rsp, g.answered)
  BY <1>4, SeenGhost
<1>6. h \in Ghosts' /\ BLK_RING_SIZE' = BLK_RING_SIZE
  BY <1>1, <1>2, <1>5, Same DEF BlkInv
<1>7. /\ handler' \in Handlers
      /\ \/ handler'.pc = "idle" /\ lock' = NoThread
         \/ /\ handler'.pc = "loop" /\ lock' = lock
            /\ handler'.cons = handler.cons /\ handler'.prod = ring.rsp_prod
  <2>1. ring.rsp_prod \in Int
    BY <1>3 DEF Rings
  <2>2. CASE handler' = HandlerEnds /\ lock' = NoThread
    <3>1. 0 \in Int
      OBVIOUS
    <3>2. handler' \in Handlers
      BY <1>3, <2>2, <3>1, Zenon DEF HandlerEnds, Handlers
    <3> QED BY <1>3, <2>2, <3>2 DEF HandlerEnds, Handlers
  <2>3. CASE handler' = [handler EXCEPT !.pc = "loop", !.prod = ring.rsp_prod] /\ lock' = lock
    BY <1>3, <2>1, <2>3 DEF Handlers
  <2> QED BY <2>2, <2>3 DEF RING_FINAL_CHECK
<1>8. BTypeOK'
  BY <1>2, <1>7, SameTypes DEF BlkInv, BTypeOK, Refs
<1>9. BLock'
  BY <1>2, <1>3, <1>7 DEF BlkInv, BLock
<1>10. BIndices(h)'
  <2>1. BIndices(g)'
    BY <1>1, <1>2, Same DEF BlkInv
  <2> QED BY <1>5, <2>1 DEF BIndices, Wrap, IsSeen
<1>11. BHandler(h)'
  <2>1. \A n : Wrap(n)' = Wrap(n)
    BY <1>6 DEF Wrap
  <2> QED BY <1>1, <1>2, <1>4, <1>5, <1>7, <2>1 DEF Holds, BIndices, BHandler, IsSeen
<1>12. BIds(g)' /\ BRequests(g)' /\ BProgress(g)' /\ BGrants(g)'
  BY <1>1, <1>2, Same DEF BlkInv
<1>13. BCallers(g)'
  <2>1. \A u \in Threads : Caller(g, u)'
    <3> TAKE u \in Threads
    <3>1. Caller(g, u)
      BY <1>1 DEF Holds, BCallers
    <3> QED BY <1>2, <3>1 DEF Caller, Matches, Owner, Shadow, Window
  <2> QED BY <1>7, <2>1 DEF BCallers
<1> QED BY <1>5, <1>6, <1>8, <1>9, <1>10, <1>11, <1>12, <1>13, GhostParts, InvFrom DEF IsSeen

\* The handler, or the backend, asks for an event, or the backend goes to sleep.
LEMMA AskEventKept ==
  ASSUME BlkInv, AskEvent
  PROVE  BlkInv'
<1>1. PICK g \in Ghosts : Holds(g)
  BY DEF BlkInv
<1>2. /\ SameWork /\ handler.pc = "ask" /\ handler' = [handler EXCEPT !.pc = "recheck"]
      /\ UNCHANGED <<state, lock, freelist, shadows, gnttab, pc, req, done, init, backend, workload, halt>>
  BY DEF AskEvent, HandlerAt, SameWork, reqVars, waitVars
<1>3. handler \in Handlers /\ ring \in Rings
  BY DEF BlkInv, BTypeOK
<1>4. /\ ring' \in Rings /\ ring'.rsp_cons = ring.rsp_cons
      /\ ring'.req_prod_pvt = ring.req_prod_pvt /\ ring'.req_prod = ring.req_prod
      /\ ring'.rsp_prod = ring.rsp_prod /\ ring'.slots = ring.slots
  <2>1. Plus1(ring.rsp_cons) \in Int
    <3>1. 2 * BLK_RING_SIZE \in Nat /\ 2 * BLK_RING_SIZE > 0
      BY RingSize DEF BlkInv
    <3>2. ring.rsp_cons + 1 \in Int
      BY <1>3 DEF Rings
    <3> QED BY <3>1, <3>2, Division DEF Plus1
  <2>2. PICK e \in Int : ring' = [ring EXCEPT !.rsp_event = e]
    BY <2>1 DEF AskEvent
  <2> QED BY <1>3, <2>2 DEF Rings
<1>5. handler' \in Handlers /\ handler'.pc = "recheck" /\ handler'.cons = handler.cons
  BY <1>2, <1>3 DEF Handlers
<1>6. BTypeOK' /\ BLock'
  BY <1>2, <1>4, <1>5, SameTypes DEF BlkInv, BTypeOK, BLock, Refs
<1>7. BHandler(g)'
  BY <1>1, <1>2, <1>5, Same DEF BlkInv, Holds, BHandler, Wrap
<1>8. BCallers(g)'
  <2>1. \A u \in Threads : Caller(g, u)'
    <3> TAKE u \in Threads
    <3>1. Caller(g, u)
      BY <1>1 DEF Holds, BCallers
    <3> QED BY <1>2, <3>1 DEF Caller, Matches, Owner, Shadow, Window
  <2> QED BY <1>5, <2>1 DEF BCallers
<1> QED BY <1>1, <1>2, <1>4, <1>6, <1>7, <1>8, Same, InvFrom DEF BlkInv

\* The backend asks for an event or goes to sleep.
LEMMA BackendWaitsKept ==
  ASSUME BlkInv, BackendAsks \/ BackendSleeps
  PROVE  BlkInv'
<1>1. PICK g \in Ghosts : Holds(g)
  BY DEF BlkInv
<1>2. /\ SameWork
      /\ UNCHANGED <<state, lock, freelist, shadows, gnttab, pc, req, done, init, handler, workload, halt>>
  BY DEF BackendAsks, BackendSleeps, SameWork, reqVars, waitVars
<1>3. backend \in Backends /\ ring \in Rings
  BY DEF BlkInv, BTypeOK
<1>4. /\ ring' \in Rings /\ ring'.rsp_cons = ring.rsp_cons
      /\ ring'.req_prod_pvt = ring.req_prod_pvt /\ ring'.req_prod = ring.req_prod
      /\ ring'.rsp_prod = ring.rsp_prod /\ ring'.slots = ring.slots
  <2>1. Plus1(backend.req_cons) \in Int
    <3>1. 2 * BLK_RING_SIZE \in Nat /\ 2 * BLK_RING_SIZE > 0
      BY RingSize DEF BlkInv
    <3>2. backend.req_cons + 1 \in Int
      BY <1>3 DEF Backends
    <3> QED BY <3>1, <3>2, Division DEF Plus1
  <2>2. ring' = ring \/ \E e \in Int : ring' = [ring EXCEPT !.req_event = e]
    BY <2>1 DEF BackendAsks, BackendSleeps
  <2> QED BY <1>3, <2>2 DEF Rings
<1>5. /\ backend' \in Backends /\ backend'.req_cons = backend.req_cons
      /\ backend'.taken = backend.taken /\ backend'.answer = backend.answer
  <2>1. PICK s \in {"awake", "asleep", "check"} : backend' = [backend EXCEPT !.pc = s]
    BY DEF BackendAsks, BackendSleeps
  <2>2. backend' \in Backends
    BY <1>3, <2>1, Zenon DEF Backends
  <2> QED BY <1>3, <2>1, <2>2 DEF Backends
<1>6. BTypeOK' /\ BLock'
  BY <1>2, <1>4, <1>5, SameTypes DEF BlkInv, BTypeOK, BLock, Refs
<1> QED BY <1>1, <1>2, <1>4, <1>5, <1>6, Same, InvFrom DEF BlkInv

-----------------------------------------------------------------------------
(* Completion and connection *)

\* The caller whose request is done is woken.
LEMMA CompleteKept ==
  ASSUME BlkInv, complete_callback
  PROVE  BlkInv'
<1>1. PICK g \in Ghosts : Holds(g)
  BY DEF BlkInv
<1> DEFINE t == handler.thread
<1>2. /\ t \in Threads /\ pc[t] = "io_wait" /\ done[t] = 0 /\ handler.pc = "callback"
      /\ \A i \in Window(g) : Owner(g, i) # t
  BY <1>1 DEF complete_callback, HandlerAt, Holds, BCallers
<1>3. /\ SameWork /\ done' = [done EXCEPT ![t] = 1] /\ lock' = lock
      /\ handler' = [handler EXCEPT !.pc = "loop", !.cons = Plus1(handler.cons), !.thread = NoThread]
      /\ UNCHANGED <<state, ring, freelist, shadows, gnttab, pc, req, init, backend, workload, halt>>
  BY <1>2 DEF complete_callback, complete, SameWork, reqVars
<1>4. handler \in Handlers /\ BTypeOK /\ g.cons \in Nat /\ g.rsp \in Nat
  BY GhostTypes DEF BlkInv, BTypeOK
<1>5. g.rsp < g.cons /\ handler.cons = Wrap(g.cons - 1)
  BY <1>1, <1>2 DEF Holds, BHandler
<1>6. Plus1(handler.cons) = Wrap(g.cons) /\ Wrap(g.cons) \in Nat
  <2>1. PICK a \in Nat : a = g.cons - 1 /\ a + 1 = g.cons
    BY <1>4, <1>5
  <2>2. handler.cons = Wrap(a) /\ Plus1(Wrap(a)) = Wrap(a + 1)
    BY <1>4, <1>5, <2>1, Counters
  <2> QED BY <1>4, <2>1, <2>2, Counters
<1>7. /\ handler' \in Handlers /\ handler'.pc = "loop" /\ handler'.cons = Wrap(g.cons)
      /\ handler'.prod = handler.prod
  <2>1. "loop" \in {"idle", "loop", "callback", "ask", "recheck"} /\ Wrap(g.cons) \in Int
    BY <1>6
  <2>2. handler' = [handler EXCEPT !.pc = "loop", !.cons = Wrap(g.cons), !.thread = NoThread]
    BY <1>3, <1>6
  <2>3. handler' \in Handlers
    BY <1>4, <2>1, <2>2, Zenon DEF Handlers
  <2> QED BY <1>4, <2>2, <2>3 DEF Handlers
<1> HIDE DEF t
<1>8. BTypeOK'
  BY <1>2, <1>3, <1>7, SameTypes DEF BlkInv, BTypeOK, Refs
<1>9. BLock'
  BY <1>2, <1>3, <1>7 DEF BlkInv, BLock
<1>10. BHandler(g)'
  BY <1>1, <1>2, <1>3, <1>7 DEF Holds, BHandler, Wrap, BLK_RING_SIZE
<1>11. BRequests(g)'
  <2>1. \A i \in Window(g) : Requested(g, i)'
    <3> TAKE i \in Window(g)
    <3>1. Requested(g, i) /\ Owner(g, i) # t
      BY <1>1, <1>2 DEF Holds, BRequests
    <3> QED BY <1>2, <1>3, <1>4, <3>1 DEF Requested, Owner, Shadow, BTypeOK
  <2>2. \A i, j \in Window(g) : i # j => Apart(g, i, j)'
    BY <1>1, <1>3 DEF Holds, BRequests, Apart, Owner, Shadow
  <2> QED BY <2>1, <2>2 DEF BRequests, Window
<1>12. BCallers(g)'
  <2>1. \A u \in Threads : Caller(g, u)'
    <3> TAKE u \in Threads
    <3>1. Caller(g, u)
      BY <1>1 DEF Holds, BCallers
    <3> QED BY <1>3, <3>1 DEF Caller, Matches, Owner, Shadow, Window
  <2> QED BY <1>7, <2>1 DEF BCallers
<1> QED BY <1>1, <1>3, <1>8, <1>9, <1>10, <1>11, <1>12, Same, InvFrom DEF BlkInv

\* The free references can be counted.
LEMMA FreeCount == IsFiniteSet(FreeRefs) /\ Cardinality(FreeRefs) \in Nat
<1>1. NR_GRANT_ENTRIES \in Int
  OBVIOUS
<1>2. IsFiniteSet(Refs)
  BY <1>1, FS_Interval DEF Refs
<1>3. FreeRefs \subseteq Refs
  BY DEF FreeRefs
<1> QED BY <1>2, <1>3, FS_Subset, FS_CardinalityType

\* As many references as there are free can be taken.
LEMMA FreeEntries ==
  ASSUME NEW n \in Nat, n <= Cardinality(FreeRefs)
  PROVE  get_free_entries(n) \subseteq FreeRefs /\ Cardinality(get_free_entries(n)) = n
<1>1. IsFiniteSet(FreeRefs) /\ Cardinality(FreeRefs) \in Nat
  BY FreeCount
<1>2. PICK c \in Nat : c = Cardinality(FreeRefs)
  BY <1>1
<1>3. PICK f : f \in Bijection(1..c, FreeRefs)
  BY <1>1, <1>2, FS_CardinalityType DEF ExistsBijection
<1>4. /\ f \in [1..c -> FreeRefs] /\ 1..n \subseteq 1..c
      /\ \A i, j \in 1..c : f[i] = f[j] => i = j
  BY <1>2, <1>3 DEF Bijection, Injection, IsInjective
<1>5. PICK s \in SUBSET FreeRefs : s = {f[i] : i \in 1..n}
  <2>1. \A i \in 1..n : f[i] \in FreeRefs
    BY <1>4
  <2>2. {f[i] : i \in 1..n} \subseteq FreeRefs
    BY <2>1
  <2> QED BY <2>2
<1>6. PICK h : h = [i \in 1..n |-> f[i]]
  OBVIOUS
<1>7. h \in Bijection(1..n, s)
  BY <1>4, <1>5, <1>6 DEF Bijection, Injection, Surjection, IsInjective
<1>8. Cardinality(s) = n
  BY <1>7, FS_CountingElements DEF ExistsBijection
<1> QED BY <1>5, <1>8 DEF get_free_entries

\* The ring is granted a page and the backend is told.
LEMMA ConnectKept ==
  ASSUME BlkInv, Connect
  PROVE  BlkInv'
<1>1. PICK g \in Ghosts : Holds(g)
  BY DEF BlkInv
<1>2. /\ SameWork /\ init = "connect"
      /\ UNCHANGED <<state, lock, ring, freelist, shadows, pc, req, done, handler, backend, workload, halt>>
  BY DEF Connect, InitAt, SameWork, waitVars
<1>3. g.page = 0 /\ g.cons = g.asked /\ state # "ST_READY" /\ Window(g) = {}
  <2>1. g.page = 0 /\ g.cons = g.asked /\ state # "ST_READY"
    BY <1>1, <1>2 DEF Holds, BIds, BGrants
  <2> QED BY <2>1, GhostTypes DEF BlkInv, Window
<1>4. init' \in {"all", "post_connect"}
  BY DEF Connect
<1>5. BIds(g)'
  <2>1. BLK_RING_SIZE' = BLK_RING_SIZE /\ Ids' = Ids /\ BIds(g)
    BY <1>1, <1>2, SameTypes DEF SameWork, BLK_RING_SIZE, Holds
  <2>2. \A i : FreeId(g, i)' = FreeId(g, i)
    BY <1>2 DEF FreeId
  <2>3. \A id : ListedId(g, id)' = ListedId(g, id)
    BY DEF ListedId, Window
  <2> QED BY <1>2, <1>3, <1>4, <2>1, <2>2, <2>3 DEF BIds
<1>6. BLock' /\ BIndices(g)' /\ BHandler(g)' /\ BRequests(g)' /\ BCallers(g)'
  BY <1>1, <1>2, Same DEF BlkInv, BLock
<1>7. \A i : Window(g)' = {} /\ g.cons..(g.asked - 1) = {}
  BY <1>3 DEF Window
<1>8. CASE gnttab' = gnttab /\ init' = "all"
  <2>1. BTypeOK'
    BY <1>2, <1>8, SameTypes DEF BlkInv, BTypeOK, Refs, InitSteps
  <2>2. BProgress(g)'
    BY <1>1, <1>2, <1>8, Same DEF BlkInv
  <2>3. BGrants(g)'
    BY <1>1, <1>2, <1>3, <1>7, <1>8 DEF Holds, BGrants, Granted, Refs, Window
  <2> QED BY <1>1, <1>2, <1>5, <1>6, <2>1, <2>2, <2>3, Same, InvFrom DEF BlkInv
<1>9. ASSUME NEW r \in get_free_entries(1), gnttab' = [gnttab EXCEPT ![r] = "in_use"]
      PROVE  BlkInv'
  <2>1. r \in Refs
    <3>1. \A x \in Refs : gnttab[x] = "free"
      BY <1>1, <1>3, GhostTypes DEF BlkInv, Holds, BGrants, Granted
    <3>2. {1} \in SUBSET FreeRefs
      BY <3>1 DEF FreeRefs, Refs
    <3>3. Cardinality({1}) = 1
      BY FS_Singleton
    <3>4. get_free_entries(1) \in SUBSET FreeRefs
      BY <3>2, <3>3 DEF get_free_entries
    <3> QED BY <3>4 DEF FreeRefs
  <2>2. PICK h \in Ghosts :
          /\ h = [g EXCEPT !.page = r] /\ h.page = r /\ h.rsp = g.rsp /\ h.last = g.last
          /\ h.cons = g.cons /\ h.answered = g.answered /\ h.taken = g.taken /\ h.asked = g.asked
          /\ h.order = g.order /\ h.free = g.free /\ h.stack = g.stack
    <3>1. [g EXCEPT !.page = r] \in Ghosts
      BY <2>1 DEF Ghosts
    <3> QED BY <3>1 DEF Ghosts
  <2>3. h \in Ghosts'
    BY <1>1, <1>2, <2>2, Same DEF BlkInv
  <2>4. BTypeOK'
    BY <1>2, <1>4, <1>9, <2>1, SameTypes DEF BlkInv, BTypeOK, Refs, InitSteps
  <2>5. BIndices(h)' /\ BHandler(h)'
    BY <1>6, <2>2 DEF BIndices, BHandler
  <2>6. Window(h)' = {}
    BY <1>3, <2>2 DEF Window
  <2>7. BIds(h)'
    BY <1>5, <2>2 DEF BIds, FreeId, ListedId, Window
  <2>8. BRequests(h)'
    BY <2>6 DEF BRequests
  <2>9. BProgress(h)'
    <3>1. /\ g.cons = g.answered /\ g.answered = g.taken /\ g.taken = g.asked
          /\ g.asked \in Nat
      BY <1>1, <1>3, GhostTypes DEF BlkInv, Holds, BIndices
    <3>2. /\ h.cons..(h.answered - 1) = {} /\ h.answered..(h.taken - 1) = {}
          /\ h.taken..(h.asked - 1) = {}
      BY <2>2, <3>1
    <3>3. backend.taken = {}
      BY <1>1, <2>2, <3>2 DEF Holds, BProgress
    <3> QED BY <1>2, <3>2, <3>3 DEF BProgress
  <2>10. BGrants(h)'
    <3>1. \A x \in Refs : Granted(h, x)'
      BY <1>1, <1>3, <1>9, <2>1, <2>2, GhostTypes DEF BlkInv, BTypeOK, Holds, BGrants, Granted
    <3> QED BY <1>2, <1>3, <1>4, <1>9, <2>1, <2>2, <3>1 DEF BGrants, Refs, BlkInv, BTypeOK
  <2>11. BCallers(h)'
    BY <1>6, <2>2 DEF BCallers, Caller, Owner, Shadow, Window
  <2> QED BY <1>6, <2>3, <2>4, <2>5, <2>7, <2>8, <2>9, <2>10, <2>11, InvFrom
<1> QED BY <1>8, <1>9 DEF Connect

-----------------------------------------------------------------------------
(* Requests: put on the ring, taken, answered, and their responses taken *)

\* Sizes of requests.
LEMMA Pages ==
  ASSUME NEW size \in Nat \ {0}
  PROVE  num_pages(size) \in Nat \ {0} /\ end_sector(size) \in Int /\ Sectors(size) \in Int
<1>1. PICK n \in Nat, m \in Nat : n = size + SECTORS_PER_PAGE - 1 /\ m = SECTORS_PER_PAGE /\ m > 0 /\ n >= m
  OBVIOUS
<1>2. PICK q \in Int, r \in 0..(m - 1) : q = n \div m /\ n = (m * q) + r
  BY <1>1, Division
<1>3. q > 0
  <2>1. CASE q <= 0
    <3>1. m * q <= 0
      BY <1>1, <2>1
    <3>2. PICK x \in Int : x = m * q
      BY <1>2
    <3> QED BY <1>1, <1>2, <3>1, <3>2
  <2> QED BY <2>1
<1>4. num_pages(size) = q
  BY <1>1, <1>2 DEF num_pages
<1>5. \A a \in Int : SECTORS_PER_PAGE * a \in Int
  OBVIOUS
<1> QED BY <1>3, <1>4, <1>5 DEF end_sector, Sectors

\* The positions in flight have slots of their own, and so has the next one.
LEMMA Positions ==
  ASSUME BTypeOK, NEW g \in Ghosts, Holds(g)
  PROVE  /\ g.rsp \in Nat /\ g.cons \in Nat /\ g.last \in Nat /\ g.answered \in Nat
         /\ g.taken \in Nat /\ g.asked \in Nat /\ g.free \in Nat
         /\ BLK_RING_SIZE \in Nat /\ BLK_RING_SIZE >= 2
         /\ g.rsp <= g.cons /\ g.cons <= g.answered /\ g.answered <= g.taken /\ g.taken <= g.asked
         /\ g.asked < g.rsp + BLK_RING_SIZE
         /\ Window(g) = (g.cons..(g.answered - 1)) \cup (g.answered..(g.taken - 1)) \cup (g.taken..(g.asked - 1))
         /\ \A i, j \in g.cons..g.asked : i % BLK_RING_SIZE = j % BLK_RING_SIZE => i = j
         /\ \A i \in g.cons..g.asked : i % BLK_RING_SIZE \in Ids
<1>1. /\ g.rsp \in Nat /\ g.cons \in Nat /\ g.last \in Nat /\ g.answered \in Nat
      /\ g.taken \in Nat /\ g.asked \in Nat /\ g.free \in Nat
      /\ BLK_RING_SIZE \in Nat /\ BLK_RING_SIZE >= 2
  BY GhostTypes, RingSize
<1>2. /\ g.rsp <= g.cons /\ g.cons <= g.answered /\ g.answered <= g.taken /\ g.taken <= g.asked
      /\ g.asked < g.rsp + BLK_RING_SIZE
  BY DEF Holds, BIndices
<1>3. Window(g) = (g.cons..(g.answered - 1)) \cup (g.answered..(g.taken - 1)) \cup (g.taken..(g.asked - 1))
  BY <1>1, <1>2 DEF Window
<1>4. \A i, j \in g.cons..g.asked : i % BLK_RING_SIZE = j % BLK_RING_SIZE => i = j
  <2>1. \A i, j \in g.cons..g.asked : i \in Nat /\ j \in Nat /\ i < j + BLK_RING_SIZE
    BY <1>1, <1>2
  <2>2. \A i, j \in g.cons..g.asked :
          j <= i /\ i % BLK_RING_SIZE = j % BLK_RING_SIZE => i = j
    <3> TAKE i, j \in g.cons..g.asked
    <3> QED BY <2>1, Counters
  <2>3. \A i, j \in g.cons..g.asked : j <= i \/ i <= j
    BY <2>1
  <2> QED BY <2>2, <2>3
<1>5. \A i \in g.cons..g.asked : i % BLK_RING_SIZE \in Ids
  <2>1. \A i \in g.cons..g.asked : i \in Nat
    BY <1>1
  <2> QED BY <2>1, Counters
<1> QED BY <1>1, <1>2, <1>3, <1>4, <1>5

\* What is granted for a request in flight is not free.
LEMMA InFlightGranted ==
  ASSUME BTypeOK, NEW g \in Ghosts, Holds(g), NEW i \in Window(g)
  PROVE  /\ Requested(g, i) /\ (IsAnswered(g, i) \/ IsTaken(g, i) \/ IsAsked(g, i))
         /\ \A r \in Shadow(g, i).grefs : r \in Refs /\ gnttab[r] # "free"
<1>1. IsAnswered(g, i) \/ IsTaken(g, i) \/ IsAsked(g, i)
  BY Positions DEF Holds, BProgress
<1>2. Shadow(g, i).grefs \subseteq Refs
  BY GhostTypes DEF Shadows
<1>3. Requested(g, i)
  BY DEF Holds, BRequests
<1> QED BY <1>1, <1>2, <1>3 DEF IsAnswered, IsTaken, IsAsked, GrantsAre

\* The ghosts when an id is put on the ring.
Submitted(g, id) ==
  [g EXCEPT !.order = [g.order EXCEPT ![g.asked] = id], !.asked = g.asked + 1, !.free = g.free - 1]

IsSubmitted(h, g, id) ==
  /\ h.rsp = g.rsp /\ h.cons = g.cons /\ h.last = g.last /\ h.answered = g.answered /\ h.taken = g.taken
  /\ h.asked = g.asked + 1 /\ h.free = g.free - 1 /\ h.stack = g.stack /\ h.page = g.page
  /\ h.order = [g.order EXCEPT ![g.asked] = id]

\* They are ghosts.
LEMMA SubmittedGhost ==
  ASSUME NEW g \in Ghosts, NEW id \in Ids, g.free > 0
  PROVE  Submitted(g, id) \in Ghosts /\ IsSubmitted(Submitted(g, id), g, id)
<1>1. g.asked \in Nat /\ g.free \in Nat /\ g.order \in [Nat -> Ids]
  BY DEF Ghosts
<1>2. g.asked + 1 \in Nat /\ g.free - 1 \in Nat /\ [g.order EXCEPT ![g.asked] = id] \in [Nat -> Ids]
  BY <1>1
<1>3. Submitted(g, id) \in Ghosts
  BY <1>2, Zenon DEF Ghosts, Submitted
<1> QED BY <1>3 DEF Ghosts, Submitted, IsSubmitted

\* A request is put on the ring.
LEMMA SubmitKept ==
  ASSUME BlkInv, NEW t \in Threads, blk_do_io(t), get_freelist_id # 0,
         ~(Cardinality(FreeRefs) < num_pages(workload.kind[t].size)), Submit(t, get_freelist_id)
  PROVE  BlkInv'
<1>1. PICK g \in Ghosts : Holds(g)
  BY DEF BlkInv
<1>2. /\ SameWork /\ pc[t] = "ready" /\ pc' = [pc EXCEPT ![t] = "notify"] /\ lock = NoThread /\ lock' = t
      /\ state = "ST_READY" /\ done' = [done EXCEPT ![t] = 0]
      /\ req' = [req EXCEPT ![t].state = "BLK_SUBMITTED"]
      /\ UNCHANGED <<state, init, handler, backend, workload, halt>>
  BY DEF blk_do_io, Submit, SameWork, At, GoTo
<1>3. BTypeOK /\ BLock /\ handler.pc = "idle"
  BY <1>2 DEF BlkInv, BLock
<1>4. g.cons = g.rsp /\ init \in {"all", "wait", "initialised"}
      /\ (g.asked - g.cons) + g.free = BLK_RING_SIZE - 1
  BY <1>1, <1>2, <1>3 DEF Holds, BHandler, BIds
<1>5. /\ g.asked \in Nat /\ g.free \in Nat /\ g.cons \in Nat /\ BLK_RING_SIZE \in Nat
      /\ g.cons <= g.asked /\ g.asked \in g.cons..g.asked
      /\ g.stack \in [Nat -> Ids] /\ g.order \in [Nat -> Ids]
  BY <1>1, <1>3, Positions, GhostTypes
\* The id.
<1>6. g.free > 0 /\ g.free \in 1..g.free /\ freelist[0] = g.stack[g.free] /\ freelist[0] # 0
  BY <1>1, <1>5 DEF Holds, BIds, get_freelist_id
<1>7. PICK id \in Ids \ {0} : id = freelist[0] /\ id = g.stack[g.free]
  BY <1>5, <1>6
<1>8. /\ freelist[id] = g.stack[g.free - 1] /\ shadows[id].free
      /\ \A j \in 1..g.free : id = g.stack[j] => j = g.free
  BY <1>1, <1>5, <1>6, <1>7 DEF Holds, BIds, FreeId
<1>9. \A i \in Window(g) : g.order[i] # id /\ g.order[i] \in Ids
  BY <1>1, <1>3, <1>8, GhostTypes DEF Holds, BRequests, Requested, Shadow
\* The references.
<1>10. workload.kind[t].size \in Nat \ {0}
  BY <1>3 DEF BTypeOK, Works, Kinds
<1>11. PICK s \in SUBSET Refs :
         /\ s = get_free_entries(num_pages(workload.kind[t].size))
         /\ Cardinality(s) = num_pages(workload.kind[t].size) /\ \A r \in s : gnttab[r] = "free"
  <2>1. num_pages(workload.kind[t].size) \in Nat
    BY <1>10, Pages
  <2>2. num_pages(workload.kind[t].size) <= Cardinality(FreeRefs)
    BY <2>1, FreeCount
  <2> QED BY <2>1, <2>2, FreeEntries DEF FreeRefs
<1>12. \A i \in Window(g) : Shadow(g, i).grefs \cap s = {}
  BY <1>1, <1>3, <1>11, InFlightGranted
<1>13. g.page \notin s /\ g.page # 0 /\ gnttab[g.page] = "in_use"
  BY <1>1, <1>2, <1>11 DEF Holds, BGrants
\* The ghosts.
<1>14. PICK h \in Ghosts : h = Submitted(g, id) /\ IsSubmitted(h, g, id)
  BY <1>6, SubmittedGhost
<1>15. h \in Ghosts' /\ BLK_RING_SIZE' = BLK_RING_SIZE /\ Ids' = Ids
  BY <1>1, <1>2, <1>3, <1>14, Same
<1>16. /\ \A i \in Window(h) : i \in Window(g) \/ i = g.asked
       /\ \A i \in Window(g) : i \in Window(h) /\ h.order[i] = g.order[i] /\ i # g.asked
       /\ g.asked \in Window(h) /\ h.order[g.asked] = id
       /\ Window(h)' = Window(h)
  BY <1>5, <1>14 DEF IsSubmitted, Window
\* The next state.
<1>17. /\ freelist' = [freelist EXCEPT ![0] = freelist[id]]
       /\ shadows' = [shadows EXCEPT ![id] = [thread |-> t, grefs |-> s, free |-> FALSE]]
       /\ gnttab' = [r \in Refs |-> IF r \in s THEN "granted" ELSE gnttab[r]]
  BY <1>7, <1>11 DEF Submit, Taken, get_freelist_id
<1>18. PICK e \in Entries :
         e = [NoEntry EXCEPT !.id = id, !.thread = t, !.grefs = s, !.sectors = Sectors(workload.kind[t].size)]
  <2>1. Sectors(workload.kind[t].size) \in Int /\ 0 \in Ids /\ FALSE \in BOOLEAN
    BY <1>1, <1>3, <1>10, Pages, GhostTypes
  <2>2. NoEntry \in Entries
    BY <2>1 DEF NoEntry, Entries
  <2>3. [NoEntry EXCEPT !.id = id, !.thread = t, !.grefs = s, !.sectors = Sectors(workload.kind[t].size)] \in Entries
    BY <2>1, <2>2, Zenon DEF Entries
  <2> QED BY <2>3
<1>19. /\ ring' \in Rings /\ ring'.rsp_prod = ring.rsp_prod /\ ring'.rsp_cons = ring.rsp_cons
       /\ ring'.req_prod_pvt = Wrap(g.asked + 1) /\ ring'.req_prod = Wrap(g.asked + 1)
       /\ ring'.slots = [ring.slots EXCEPT ![g.asked % BLK_RING_SIZE] = e]
  <2>1. /\ Slot(ring.req_prod_pvt) = g.asked % BLK_RING_SIZE /\ Plus1(ring.req_prod_pvt) = Wrap(g.asked + 1)
        /\ Wrap(g.asked + 1) \in Int
    <3>1. ring.req_prod_pvt = Wrap(g.asked) /\ g.asked + 1 \in Nat
      BY <1>1, <1>5 DEF Holds, BIndices
    <3> QED BY <1>3, <1>5, <3>1, Counters
  <2>2. PICK sl \in [Ids -> Entries] : sl = [ring.slots EXCEPT ![g.asked % BLK_RING_SIZE] = e]
    BY <1>3 DEF BTypeOK, Rings
  <2>3. ring' = [ring EXCEPT !.slots = sl, !.req_prod_pvt = Wrap(g.asked + 1), !.req_prod = Wrap(g.asked + 1)]
    <3>1. ring' = [ring EXCEPT !.slots[Slot(ring.req_prod_pvt)] = e,
                     !.req_prod_pvt = Plus1(ring.req_prod_pvt), !.req_prod = Plus1(ring.req_prod_pvt)]
      BY <1>7, <1>11, <1>18 DEF Submit, get_freelist_id
    <3> QED BY <2>1, <2>2, <3>1
  <2>4. ring' \in Rings
    BY <1>3, <2>1, <2>3, Zenon DEF BTypeOK, Rings
  <2> QED BY <1>3, <2>2, <2>3, <2>4 DEF BTypeOK, Rings
<1>20. /\ \A x \in Ids \ {id} : shadows'[x] = shadows[x]
       /\ shadows'[id].thread = t /\ shadows'[id].grefs = s /\ ~shadows'[id].free
       /\ shadows' \in [Ids -> Shadows]
  <2>1. [thread |-> t, grefs |-> s, free |-> FALSE] \in Shadows
    BY DEF Shadows
  <2> QED BY <1>3, <1>7, <1>17, <2>1 DEF BTypeOK
<1>21. \A i \in Window(g) : Shadow(h, i)' = Shadow(g, i) /\ Owner(h, i)' = Owner(g, i) /\ Owner(g, i) \in Threads \ {t}
  <2>1. \A i \in Window(g) : Owner(g, i) \in Threads \ {t}
    BY <1>1, <1>2 DEF Holds, BRequests, Requested
  <2> QED BY <1>9, <1>16, <1>20, <2>1 DEF Shadow, Owner
<1>22. Shadow(h, g.asked)' = shadows'[id] /\ Owner(h, g.asked)' = t
  BY <1>16, <1>20 DEF Shadow, Owner
<1>23. BTypeOK'
  <2>1. req' \in [Threads -> [state : States, bounce : BOOLEAN]]
    BY <1>2, <1>3 DEF BTypeOK, States
  <2>2. freelist' \in [Ids -> Ids]
    BY <1>3, <1>7, <1>17 DEF BTypeOK
  <2>3. gnttab' \in [Refs -> {"free", "granted", "in_use"}]
    BY <1>3, <1>17 DEF BTypeOK
  <2>4. pc' \in [Threads -> CallSteps] /\ done' \in [Threads -> {0, 1}]
    BY <1>2, <1>3 DEF BTypeOK, CallSteps
  <2> QED BY <1>2, <1>3, <1>19, <1>20, <2>1, <2>2, <2>3, <2>4, SameTypes DEF BTypeOK, Refs
<1>24. BLock'
  BY <1>2, <1>3 DEF BLock, BTypeOK
<1>25. BIndices(h)'
  <2>1. \A n : Wrap(n)' = Wrap(n)
    BY <1>15 DEF Wrap
  <2>2. BIndices(g)
    BY <1>1 DEF Holds
  <2>3. /\ h.rsp = g.rsp /\ h.cons = g.cons /\ h.answered = g.answered /\ h.taken = g.taken
        /\ h.asked = g.asked + 1 /\ g.taken \in Nat
    BY <1>1, <1>3, <1>14, Positions DEF IsSubmitted
  <2>4. h.taken <= h.asked /\ h.asked < h.rsp + BLK_RING_SIZE
    BY <1>4, <1>5, <1>6, <2>2, <2>3 DEF BIndices
  <2> QED BY <1>2, <1>15, <1>19, <2>1, <2>2, <2>3, <2>4 DEF BIndices
<1>26. BHandler(h)'
  <2>1. BHandler(g)'
    BY <1>1, <1>2, <1>3, Same
  <2> QED BY <1>14, <2>1 DEF BHandler, IsSubmitted
<1>27. BIds(h)'
  <2>1. \A i \in 1..h.free : FreeId(h, i)'
    <3> TAKE i \in 1..h.free
    <3>1. i \in 1..g.free /\ i # g.free
      BY <1>5, <1>14 DEF IsSubmitted
    <3>2. FreeId(g, i) /\ g.stack[i] \in Ids \ {0, id}
      BY <1>1, <1>5, <1>8, <3>1 DEF Holds, BIds, FreeId
    <3>3. \A j \in 1..h.free : j \in 1..g.free
      BY <1>5, <1>14 DEF IsSubmitted
    <3> QED BY <1>3, <1>14, <1>17, <1>20, <3>2, <3>3 DEF FreeId, IsSubmitted, BTypeOK
  <2>2. \A x \in Ids \ {0} : ListedId(h, x)'
    <3> TAKE x \in Ids \ {0}
    <3>1. ListedId(g, x)
      BY <1>1, <1>4 DEF Holds, BIds
    <3>2. ASSUME NEW i \in 1..g.free, g.stack[i] = x PROVE ListedId(h, x)'
      <4>1. CASE i = g.free
        BY <1>7, <1>16, <3>2, <4>1 DEF ListedId
      <4>2. CASE i # g.free
        <5>1. i \in 1..h.free /\ h.stack[i] = x
          BY <1>5, <1>14, <3>2, <4>2 DEF IsSubmitted
        <5> QED BY <5>1 DEF ListedId
      <4> QED BY <4>1, <4>2
    <3>3. ASSUME NEW i \in Window(g), g.order[i] = x PROVE ListedId(h, x)'
      BY <1>16, <3>3 DEF ListedId
    <3> QED BY <3>1, <3>2, <3>3 DEF ListedId
  <2>3. h.stack[0] = 0 /\ freelist'[0] = h.stack[h.free]
    <3>1. 0 \in Ids
      BY <1>3, GhostTypes
    <3> QED BY <1>1, <1>3, <1>8, <1>14, <1>17, <3>1 DEF Holds, BIds, IsSubmitted, BTypeOK
  <2>4. (h.asked - h.cons) + h.free = BLK_RING_SIZE - 1
    BY <1>4, <1>5, <1>14 DEF IsSubmitted
  <2> QED BY <1>2, <1>4, <1>15, <2>1, <2>2, <2>3, <2>4 DEF BIds
<1>28. BRequests(h)'
  <2>1. \A i \in Window(g) : Requested(h, i)'
    <3> TAKE i \in Window(g)
    <3>1. Requested(g, i)
      BY <1>1 DEF Holds, BRequests
    <3>2. workload'.kind = workload.kind /\ h.page = g.page
      BY <1>2, <1>14 DEF IsSubmitted
    <3> QED BY <1>2, <1>16, <1>21, <3>1, <3>2 DEF Requested
  <2>2. Requested(h, g.asked)'
    <3>1. /\ h.order[g.asked] # 0 /\ ~Shadow(h, g.asked)'.free /\ Shadow(h, g.asked)'.grefs = s
          /\ Owner(h, g.asked)' = t
      BY <1>7, <1>16, <1>20, <1>22
    <3>2. pc'[t] = "notify" /\ done'[t] = 0 /\ req'[t].state = "BLK_SUBMITTED"
      BY <1>2, <1>3 DEF BTypeOK
    <3>3. h.page \notin s /\ Cardinality(s) = num_pages(workload'.kind[t].size)
      BY <1>2, <1>11, <1>13, <1>14 DEF IsSubmitted
    <3> QED BY <3>1, <3>2, <3>3 DEF Requested
  <2>3. \A i, j \in Window(g) : i # j => Apart(h, i, j)'
    <3> TAKE i, j \in Window(g)
    <3>1. i # j => Apart(g, i, j)
      BY <1>1 DEF Holds, BRequests
    <3> QED BY <1>16, <1>21, <3>1 DEF Apart
  <2>4. \A i \in Window(g) : Apart(h, i, g.asked)' /\ Apart(h, g.asked, i)'
    BY <1>9, <1>12, <1>16, <1>20, <1>21, <1>22 DEF Apart
  <2> QED BY <1>16, <2>1, <2>2, <2>3, <2>4 DEF BRequests
<1>29. BProgress(h)'
  <2>1. \A i \in Window(g) : Asked(h.order[i])' = Asked(g.order[i])
    BY <1>2, <1>9, <1>16, <1>20 DEF Asked
  <2>2. /\ Window(g) = (g.cons..(g.answered - 1)) \cup (g.answered..(g.taken - 1)) \cup (g.taken..(g.asked - 1))
        /\ h.cons = g.cons /\ h.answered = g.answered /\ h.taken = g.taken /\ g.taken \in Nat /\ g.taken <= g.asked
        /\ h.taken..(h.asked - 1) = (g.taken..(g.asked - 1)) \cup {g.asked}
    <3>1. h.cons = g.cons /\ h.answered = g.answered /\ h.taken = g.taken /\ h.asked = g.asked + 1
      BY <1>14 DEF IsSubmitted
    <3>2. g.taken \in Nat /\ g.taken <= g.asked
      BY <1>1, <1>3, Positions
    <3>3. h.taken..(h.asked - 1) = (g.taken..(g.asked - 1)) \cup {g.asked}
      BY <1>5, <3>1, <3>2
    <3> QED BY <1>1, <1>3, <3>1, <3>2, <3>3, Positions
  <2>3. \A i \in Window(g) : ring'.slots[i % BLK_RING_SIZE] = ring.slots[i % BLK_RING_SIZE]
    <3> TAKE i \in Window(g)
    <3>1. i \in g.cons..g.asked /\ i # g.asked
      BY <1>5 DEF Window
    <3>2. i % BLK_RING_SIZE # g.asked % BLK_RING_SIZE /\ i % BLK_RING_SIZE \in Ids
      BY <1>1, <1>3, <1>5, <3>1, Positions
    <3> QED BY <1>3, <1>19, <3>2 DEF BTypeOK, Rings
  <2>4. \A how : \A i \in Window(g) : GrantsAre(g, i, how) => GrantsAre(h, i, how)'
    <3> TAKE how
    <3> TAKE i \in Window(g)
    <3>1. Shadow(g, i).grefs \subseteq Refs
      BY <1>3, GhostTypes DEF Shadows
    <3> QED BY <1>12, <1>17, <1>21, <3>1 DEF GrantsAre
  <2>5. \A i \in g.cons..(g.answered - 1) : IsAnswered(h, i)'
    <3> TAKE i \in g.cons..(g.answered - 1)
    <3>1. i \in Window(g) /\ IsAnswered(g, i)
      BY <1>1, <2>2 DEF Holds, BProgress
    <3> QED BY <1>2, <1>15, <1>16, <1>21, <2>3, <2>4, <3>1 DEF IsAnswered
  <2>6. \A i \in g.answered..(g.taken - 1) : IsTaken(h, i)'
    <3> TAKE i \in g.answered..(g.taken - 1)
    <3>1. i \in Window(g) /\ IsTaken(g, i)
      BY <1>1, <2>2 DEF Holds, BProgress
    <3> QED BY <1>2, <1>21, <2>4, <3>1 DEF IsTaken
  <2>7. \A i \in g.taken..(g.asked - 1) : IsAsked(h, i)'
    <3> TAKE i \in g.taken..(g.asked - 1)
    <3>1. i \in Window(g) /\ IsAsked(g, i)
      BY <1>1, <2>2 DEF Holds, BProgress
    <3> QED BY <1>2, <1>15, <1>21, <2>1, <2>3, <2>4, <3>1 DEF IsAsked
  <2>8. IsAsked(h, g.asked)'
    <3>1. g.asked % BLK_RING_SIZE \in Ids
      BY <1>1, <1>3, <1>5, Positions
    <3>2. ring'.slots[g.asked % BLK_RING_SIZE] = e
      BY <1>3, <1>19, <3>1 DEF BTypeOK, Rings
    <3>3. Asked(id)' = e
      BY <1>2, <1>18, <1>20 DEF Asked
    <3>4. backend.answer[t].status = "none"
      BY <1>1, <1>2 DEF Holds, BCallers, Caller
    <3>5. GrantsAre(h, g.asked, "granted")'
      BY <1>17, <1>20, <1>22 DEF GrantsAre
    <3> QED BY <1>2, <1>15, <1>16, <1>22, <3>2, <3>3, <3>4, <3>5 DEF IsAsked
  <2>9. backend'.taken = {Asked(h.order[i])' : i \in g.answered..(g.taken - 1)}
    <3>1. backend'.taken = {Asked(g.order[i]) : i \in g.answered..(g.taken - 1)}
      BY <1>1, <1>2 DEF Holds, BProgress
    <3> QED BY <2>1, <2>2, <3>1
  <2> QED BY <2>2, <2>5, <2>6, <2>7, <2>8, <2>9 DEF BProgress
<1>30. BGrants(h)'
  <2>1. \A r \in Refs : Granted(h, r)'
    <3> TAKE r \in Refs
    <3>1. CASE r \in s
      BY <1>16, <1>20, <1>22, <3>1 DEF Granted
    <3>2. CASE r \notin s
      <4>1. gnttab'[r] = gnttab[r] /\ Granted(g, r)
        BY <1>1, <1>17, <3>2 DEF Holds, BGrants
      <4>2. (\E i \in Window(g) : r \in Shadow(g, i).grefs) => \E i \in Window(h) : r \in Shadow(h, i)'.grefs
        BY <1>16, <1>21
      <4> QED BY <1>14, <1>16, <4>1, <4>2 DEF Granted, IsSubmitted
    <3> QED BY <3>1, <3>2
  <2>2. gnttab'[g.page] = "in_use"
    BY <1>13, <1>14, <1>17 DEF Ghosts
  <2> QED BY <1>2, <1>4, <1>13, <1>14, <2>1, <2>2 DEF BGrants, Refs, IsSubmitted
<1>31. BCallers(h)'
  <2>1. \A u \in Threads : Caller(h, u)'
    <3> TAKE u \in Threads
    <3>1. Caller(g, u)
      BY <1>1 DEF Holds, BCallers
    <3>2. CASE u = t
      <4>1. backend'.answer[t].status = "none" /\ pc'[t] = "notify"
        BY <1>2, <1>3, <3>1, <3>2 DEF Caller, BTypeOK
      <4>2. \E i \in Window(h)' : Owner(h, i)' = t
        BY <1>16, <1>22
      <4> QED BY <3>2, <4>1, <4>2 DEF Caller
    <3>3. CASE u # t
      <4>1. (\E i \in Window(g) : Owner(g, i) = u) => \E i \in Window(h)' : Owner(h, i)' = u
        BY <1>16, <1>21
      <4>2. pc'[u] = pc[u] /\ req'[u] = req[u] /\ Matches(u)' = Matches(u)
        BY <1>2, <1>3, <3>3 DEF BTypeOK, Matches
      <4> QED BY <1>2, <3>1, <4>1, <4>2 DEF Caller
    <3> QED BY <3>2, <3>3
  <2> QED BY <1>2, <1>3, <2>1 DEF BCallers
<1> QED BY <1>15, <1>23, <1>24, <1>25, <1>26, <1>27, <1>28, <1>29, <1>30, <1>31, InvFrom

\* The ghosts when the response of an id is taken.
Responded(g, id) ==
  [g EXCEPT !.cons = g.cons + 1, !.free = g.free + 1, !.stack = [g.stack EXCEPT ![g.free + 1] = id]]

IsResponded(h, g, id) ==
  /\ h.rsp = g.rsp /\ h.cons = g.cons + 1 /\ h.last = g.last /\ h.answered = g.answered /\ h.taken = g.taken
  /\ h.asked = g.asked /\ h.free = g.free + 1 /\ h.page = g.page /\ h.order = g.order
  /\ h.stack = [g.stack EXCEPT ![g.free + 1] = id]

\* They are ghosts.
LEMMA RespondedGhost ==
  ASSUME NEW g \in Ghosts, NEW id \in Ids
  PROVE  Responded(g, id) \in Ghosts /\ IsResponded(Responded(g, id), g, id)
<1>1. g.cons \in Nat /\ g.free \in Nat /\ g.stack \in [Nat -> Ids]
  BY DEF Ghosts
<1>2. g.cons + 1 \in Nat /\ g.free + 1 \in Nat /\ [g.stack EXCEPT ![g.free + 1] = id] \in [Nat -> Ids]
  BY <1>1
<1>3. Responded(g, id) \in Ghosts
  BY <1>2, Zenon DEF Ghosts, Responded
<1> QED BY <1>3 DEF Ghosts, Responded, IsResponded

\* The next response is that of a caller who waits.
LEMMA NextResponse ==
  ASSUME BTypeOK, BLock, NEW g \in Ghosts, Holds(g), handler.pc = "loop", handler.cons # handler.prod
  PROVE  /\ g.cons \in g.cons..(g.answered - 1) /\ g.cons \in Window(g) /\ g.cons < g.last
         /\ Slot(handler.cons) = g.cons % BLK_RING_SIZE
         /\ ring.slots[Slot(handler.cons)].id = g.order[g.cons]
         /\ Requested(g, g.cons) /\ IsAnswered(g, g.cons) /\ pc[Owner(g, g.cons)] = "io_wait"
<1>1. /\ g.cons <= g.last /\ g.last <= g.answered /\ handler.cons = Wrap(g.cons) /\ handler.prod = Wrap(g.last)
      /\ g.cons \in Nat /\ g.last \in Nat /\ g.answered \in Nat
  BY Positions DEF Holds, BHandler
<1>2. g.cons < g.last
  BY <1>1
<1>3. g.cons \in g.cons..(g.answered - 1) /\ g.cons \in Window(g)
  <2>1. g.cons \in g.cons..(g.answered - 1)
    BY <1>1, <1>2
  <2> QED BY <2>1, Positions
<1>4. Slot(handler.cons) = g.cons % BLK_RING_SIZE
  BY <1>1, Counters
<1>5. Requested(g, g.cons) /\ IsAnswered(g, g.cons)
  BY <1>3 DEF Holds, BRequests, BProgress
<1>6. pc[Owner(g, g.cons)] # "notify"
  BY <1>5 DEF BLock, Requested
<1> QED BY <1>2, <1>3, <1>4, <1>5, <1>6 DEF IsAnswered, Requested

\* A response is taken.
LEMMA TakeResponseKept ==
  ASSUME BlkInv, TakeResponse
  PROVE  BlkInv'
<1>1. PICK g \in Ghosts : Holds(g)
  BY DEF BlkInv
<1>2. BTypeOK /\ BLock /\ handler.pc = "loop" /\ handler.cons # handler.prod
  <2>1. HandlerAt("loop") /\ handler.cons # handler.prod
    BY Zenon DEF TakeResponse
  <2> QED BY <2>1 DEF BlkInv, HandlerAt
<1>3. /\ g.cons \in g.cons..(g.answered - 1) /\ g.cons \in Window(g) /\ g.cons < g.last
      /\ Slot(handler.cons) = g.cons % BLK_RING_SIZE /\ ring.slots[Slot(handler.cons)].id = g.order[g.cons]
      /\ Requested(g, g.cons) /\ IsAnswered(g, g.cons) /\ pc[Owner(g, g.cons)] = "io_wait"
  BY <1>1, <1>2, NextResponse
<1>4. PICK id \in Ids \ {0} : id = g.order[g.cons] /\ shadows[id] = Shadow(g, g.cons)
  BY <1>1, <1>2, <1>3, GhostTypes DEF Requested, Shadow
<1>5. PICK t \in Threads : t = Owner(g, g.cons) /\ t = shadows[id].thread /\ done[t] = 0 /\ pc[t] = "io_wait"
  BY <1>3, <1>4 DEF Requested, Owner
<1>6. PICK s \in SUBSET Refs : s = shadows[id].grefs
  BY <1>2 DEF BTypeOK, Shadows
<1>7. \A r \in s : gnttab[r] = "granted"
  BY <1>3, <1>4, <1>6 DEF IsAnswered, GrantsAre
<1>8. PICK ok \in BOOLEAN : ok = ring.slots[Slot(handler.cons)].ok
  <2>1. Slot(handler.cons) \in Ids
    <3>1. g.cons \in g.cons..g.asked
      BY <1>1, <1>2, <1>3, Positions
    <3> QED BY <1>1, <1>2, <1>3, <3>1, Positions
  <2> QED BY <1>2, <2>1 DEF BTypeOK, Rings, Entries
<1>9. backend.answer[t].status = IF ok THEN "ok" ELSE "error"
  BY <1>3, <1>5, <1>8 DEF IsAnswered
\* The next state.
<1>10. /\ SameWork
       /\ gnttab' = [r \in Refs |-> IF r \in s THEN "free" ELSE gnttab[r]]
       /\ freelist' = [freelist EXCEPT ![id] = freelist[0], ![0] = id]
       /\ shadows' = [shadows EXCEPT ![id] = NoRequest]
       /\ req' = [req EXCEPT ![t].state = IF ok THEN "BLK_DONE_SUCCESS" ELSE "BLK_DONE_ERROR"]
       /\ handler' = [handler EXCEPT !.pc = "callback", !.thread = t]
       /\ ring' = [ring EXCEPT !.slots[g.cons % BLK_RING_SIZE] = NoEntry]
       /\ UNCHANGED <<state, lock, pc, done, init, backend, workload, halt>>
  <2>1. ~(shadows[id].free \/ t = NoThread \/ req[t].state # "BLK_SUBMITTED")
    BY <1>3, <1>4, <1>5 DEF Requested
  <2>2. ring.slots[Slot(handler.cons)].id = id
    BY <1>3, <1>4
  <2>3. gnttab' = gnttab_end_access(s) /\ freelist' = add_id_freelist(freelist, id)
    BY <1>5, <1>6, <2>1, <2>2 DEF TakeResponse
  <2>4. gnttab' = [r \in Refs |-> IF r \in s THEN "free" ELSE gnttab[r]]
    BY <1>7, <2>3 DEF gnttab_end_access
  <2> QED BY <1>3, <1>5, <1>8, <2>1, <2>2, <2>3, <2>4 DEF TakeResponse, add_id_freelist, waitVars, SameWork
\* The ghosts.
<1>11. PICK h \in Ghosts : h = Responded(g, id) /\ IsResponded(h, g, id)
  BY RespondedGhost
<1>12. h \in Ghosts' /\ BLK_RING_SIZE' = BLK_RING_SIZE /\ Ids' = Ids
  BY <1>1, <1>2, <1>10, <1>11, Same
<1>13. /\ g.asked \in Nat /\ g.free \in Nat /\ g.cons \in Nat /\ g.answered \in Nat /\ g.taken \in Nat
       /\ BLK_RING_SIZE \in Nat /\ g.stack \in [Nat -> Ids] /\ g.order \in [Nat -> Ids]
       /\ g.rsp \in Nat /\ g.rsp <= g.cons /\ g.answered <= g.taken /\ g.taken <= g.asked
       /\ g.last \in Nat /\ 0 \in Ids
  BY <1>1, <1>2, Positions, GhostTypes
<1>14. /\ \A i \in Window(h) : i \in Window(g) /\ i # g.cons
       /\ \A i \in Window(g) : i = g.cons \/ i \in Window(h)
       /\ Window(h)' = Window(h)
  BY <1>11, <1>13 DEF IsResponded, Window
<1>15. ring' \in Rings /\ ring'.slots = [ring.slots EXCEPT ![g.cons % BLK_RING_SIZE] = NoEntry]
       /\ ring'.req_prod_pvt = ring.req_prod_pvt /\ ring'.req_prod = ring.req_prod
       /\ ring'.rsp_prod = ring.rsp_prod /\ ring'.rsp_cons = ring.rsp_cons
  <2>1. NoEntry \in Entries
    BY <1>13 DEF NoEntry, Entries
  <2>2. PICK sl \in [Ids -> Entries] : sl = [ring.slots EXCEPT ![g.cons % BLK_RING_SIZE] = NoEntry]
    BY <1>2, <2>1 DEF BTypeOK, Rings
  <2>3. ring' = [ring EXCEPT !.slots = sl]
    BY <1>10, <2>2
  <2>4. ring' \in Rings
    BY <1>2, <2>3, Zenon DEF BTypeOK, Rings
  <2> QED BY <1>2, <2>2, <2>3, <2>4 DEF BTypeOK, Rings
<1>16. handler' \in Handlers /\ handler'.pc = "callback" /\ handler'.thread = t
       /\ handler'.cons = handler.cons /\ handler'.prod = handler.prod
  BY <1>2, <1>10 DEF BTypeOK, Handlers
<1>17. /\ \A x \in Ids \ {id} : shadows'[x] = shadows[x]
       /\ shadows'[id].free /\ shadows' \in [Ids -> Shadows]
  <2>1. NoRequest \in Shadows /\ NoRequest.free
    BY DEF Shadows, NoRequest
  <2> QED BY <1>2, <1>10, <2>1 DEF BTypeOK
<1>18. \A i \in Window(h) :
         /\ i \in Window(g) /\ g.order[i] \in Ids \ {0, id} /\ Shadow(h, i)' = Shadow(g, i)
         /\ Owner(h, i)' = Owner(g, i) /\ Owner(g, i) \in Threads \ {t} /\ Shadow(g, i).grefs \cap s = {}
  <2> TAKE i \in Window(h)
  <2>1. i \in Window(g) /\ Apart(g, i, g.cons) /\ Requested(g, i)
    BY <1>1, <1>3, <1>14 DEF Holds, BRequests
  <2>2. g.order[i] \in Ids \ {0, id} /\ Owner(g, i) \in Threads \ {t} /\ Shadow(g, i).grefs \cap s = {}
    BY <1>1, <1>2, <1>4, <1>5, <1>6, <2>1, GhostTypes DEF Apart, Requested
  <2> QED BY <1>11, <1>17, <2>1, <2>2 DEF Shadow, Owner, IsResponded
<1>19. BTypeOK'
  <2>1. req' \in [Threads -> [state : States, bounce : BOOLEAN]]
    BY <1>2, <1>10 DEF BTypeOK, States
  <2>2. freelist' \in [Ids -> Ids]
    BY <1>2, <1>10, <1>13 DEF BTypeOK
  <2>3. gnttab' \in [Refs -> {"free", "granted", "in_use"}]
    BY <1>2, <1>10 DEF BTypeOK
  <2>4. SameWork /\ UNCHANGED <<workload, state, pc, done, init, backend, halt>>
    BY <1>10
  <2> QED BY <1>2, <1>15, <1>16, <1>17, <2>1, <2>2, <2>3, <2>4, SameTypes DEF BTypeOK, Refs
<1>20. BLock'
  BY <1>2, <1>10, <1>16 DEF BLock
<1>21. BIndices(h)'
  <2>1. \A n : Wrap(n)' = Wrap(n)
    BY <1>12 DEF Wrap
  <2> QED BY <1>1, <1>3, <1>10, <1>11, <1>12, <1>13, <1>15, <2>1 DEF Holds, BIndices, IsResponded
<1>22. BHandler(h)'
  <2>1. \A n : Wrap(n)' = Wrap(n)
    BY <1>12 DEF Wrap
  <2>2. g.cons + 1 - 1 = g.cons
    BY <1>13
  <2> QED BY <1>1, <1>2, <1>3, <1>11, <1>13, <1>16, <2>1, <2>2 DEF Holds, BHandler, IsResponded
<1>23. BIds(h)'
  <2>1. state = "ST_READY" /\ init \in {"all", "wait", "initialised"}
    <3>1. g.cons # g.asked
      BY <1>3, <1>13 DEF Window
    <3> QED BY <1>1, <1>2, <3>1 DEF Holds, BIds, BTypeOK
  <2>2. /\ h.stack[0] = 0 /\ h.stack[h.free] = id /\ h.free = g.free + 1
        /\ \A i \in 1..g.free : h.stack[i] = g.stack[i] /\ h.stack[i - 1] = g.stack[i - 1]
        /\ h.stack[g.free] = g.stack[g.free]
    BY <1>1, <1>11, <1>13 DEF Holds, BIds, IsResponded
  <2>3. /\ freelist'[0] = id /\ freelist'[id] = g.stack[g.free]
        /\ \A x \in Ids \ {0, id} : freelist'[x] = freelist[x]
    BY <1>1, <1>2, <1>10, <1>13 DEF Holds, BIds, BTypeOK
  <2>4. \A i \in 1..g.free : FreeId(g, i) /\ g.stack[i] \in Ids \ {0, id}
    BY <1>1, <1>3, <1>4, <1>13 DEF Holds, BIds, FreeId, Requested
  <2>5. \A i \in 1..h.free : i = h.free \/ i \in 1..g.free
    BY <1>13, <2>2
  <2>6. \A i \in 1..h.free : FreeId(h, i)'
    <3> TAKE i \in 1..h.free
    <3>1. CASE i = h.free
      <4>1. h.stack[i - 1] = g.stack[g.free]
        BY <1>13, <2>2, <3>1
      <4>2. \A j \in 1..h.free : id = h.stack[j] => j = h.free
        BY <2>2, <2>4, <2>5
      <4> QED BY <1>17, <2>2, <2>3, <3>1, <4>1, <4>2 DEF FreeId
    <3>2. CASE i \in 1..g.free
      <4>1. \A j \in 1..h.free : g.stack[i] = h.stack[j] => i = j
        BY <2>2, <2>4, <2>5, <3>2 DEF FreeId
      <4>2. freelist'[g.stack[i]] = h.stack[i - 1] /\ shadows'[g.stack[i]].free
        BY <1>17, <2>2, <2>3, <2>4, <3>2 DEF FreeId
      <4> QED BY <2>2, <2>4, <3>2, <4>1, <4>2 DEF FreeId
    <3> QED BY <2>5, <3>1, <3>2
  <2>7. \A x \in Ids \ {0} : ListedId(h, x)'
    <3> TAKE x \in Ids \ {0}
    <3>1. ListedId(g, x)
      BY <1>1, <2>1 DEF Holds, BIds
    <3>2. ASSUME NEW i \in 1..g.free, g.stack[i] = x PROVE ListedId(h, x)'
      <4>1. i \in 1..h.free
        BY <1>13, <2>2
      <4> QED BY <2>2, <3>2, <4>1 DEF ListedId
    <3>3. ASSUME NEW i \in Window(g), g.order[i] = x PROVE ListedId(h, x)'
      <4>1. CASE i = g.cons
        <5>1. h.free \in 1..h.free
          BY <1>13, <2>2
        <5> QED BY <1>4, <2>2, <3>3, <4>1, <5>1 DEF ListedId
      <4>2. CASE i # g.cons
        <5>1. i \in Window(h)' /\ h.order[i] = x
          BY <1>11, <1>14, <3>3, <4>2 DEF IsResponded
        <5> QED BY <5>1 DEF ListedId
      <4> QED BY <4>1, <4>2
    <3> QED BY <3>1, <3>2, <3>3 DEF ListedId
  <2>8. (h.asked - h.cons) + h.free = BLK_RING_SIZE - 1
    <3>1. (g.asked - g.cons) + g.free = BLK_RING_SIZE - 1
      BY <1>1, <2>1 DEF Holds, BIds
    <3> QED BY <1>11, <1>13, <3>1 DEF IsResponded
  <2> QED BY <1>10, <1>12, <2>1, <2>2, <2>3, <2>6, <2>7, <2>8 DEF BIds
<1>24. BRequests(h)'
  <2>1. \A i \in Window(h) : Requested(h, i)'
    <3> TAKE i \in Window(h)
    <3>1. Requested(g, i)
      BY <1>1, <1>18 DEF Holds, BRequests
    <3>2. req'[Owner(g, i)] = req[Owner(g, i)] /\ h.page = g.page /\ h.order = g.order
      BY <1>2, <1>10, <1>11, <1>18 DEF BTypeOK, IsResponded
    <3> QED BY <1>10, <1>18, <3>1, <3>2 DEF Requested
  <2>2. \A i, j \in Window(h) : i # j => Apart(h, i, j)'
    <3> TAKE i, j \in Window(h)
    <3>1. i # j => Apart(g, i, j)
      BY <1>1, <1>18 DEF Holds, BRequests
    <3> QED BY <1>11, <1>18, <3>1 DEF Apart, IsResponded
  <2> QED BY <1>14, <2>1, <2>2 DEF BRequests
<1>25. BProgress(h)'
  <2>1. \A i \in Window(h) : Asked(h.order[i])' = Asked(g.order[i])
    <3> TAKE i \in Window(h)
    <3>1. workload' = workload /\ h.order = g.order /\ shadows'[g.order[i]] = shadows[g.order[i]]
      BY <1>10, <1>11, <1>17, <1>18 DEF IsResponded
    <3> QED BY <3>1 DEF Asked
  <2>2. /\ h.answered = g.answered /\ h.taken = g.taken /\ h.asked = g.asked /\ h.order = g.order
        /\ \A i \in h.cons..(h.answered - 1) : i \in Window(h) /\ i \in g.cons..(g.answered - 1)
        /\ \A i \in h.answered..(h.taken - 1) : i \in Window(h)
        /\ \A i \in h.taken..(h.asked - 1) : i \in Window(h)
    BY <1>3, <1>11, <1>13 DEF IsResponded, Window
  <2>3. \A i \in Window(h) : ring'.slots[i % BLK_RING_SIZE] = ring.slots[i % BLK_RING_SIZE]
    <3> TAKE i \in Window(h)
    <3>1. i \in g.cons..g.asked /\ g.cons \in g.cons..g.asked /\ i # g.cons
      BY <1>3, <1>13, <1>14 DEF Window
    <3>2. i % BLK_RING_SIZE # g.cons % BLK_RING_SIZE /\ i % BLK_RING_SIZE \in Ids
      BY <1>1, <1>2, <3>1, Positions
    <3> QED BY <1>2, <1>15, <3>2 DEF BTypeOK, Rings
  <2>4. \A how : \A i \in Window(h) : GrantsAre(g, i, how) => GrantsAre(h, i, how)'
    <3> TAKE how
    <3> TAKE i \in Window(h)
    <3>1. Shadow(g, i).grefs \subseteq Refs
      BY <1>2, <1>18, GhostTypes DEF Shadows
    <3> QED BY <1>10, <1>18, <3>1 DEF GrantsAre
  <2>5. \A i \in h.cons..(h.answered - 1) : IsAnswered(h, i)'
    <3> TAKE i \in h.cons..(h.answered - 1)
    <3>1. i \in Window(h) /\ IsAnswered(g, i)
      BY <1>1, <2>2 DEF Holds, BProgress
    <3> QED BY <1>10, <1>12, <1>18, <2>2, <2>3, <2>4, <3>1 DEF IsAnswered
  <2>6. \A i \in h.answered..(h.taken - 1) : IsTaken(h, i)'
    <3> TAKE i \in h.answered..(h.taken - 1)
    <3>1. i \in Window(h) /\ IsTaken(g, i)
      BY <1>1, <2>2 DEF Holds, BProgress
    <3> QED BY <1>10, <1>18, <2>4, <3>1 DEF IsTaken
  <2>7. \A i \in h.taken..(h.asked - 1) : IsAsked(h, i)'
    <3> TAKE i \in h.taken..(h.asked - 1)
    <3>1. i \in Window(h) /\ IsAsked(g, i)
      BY <1>1, <2>2 DEF Holds, BProgress
    <3> QED BY <1>10, <1>12, <1>18, <2>1, <2>3, <2>4, <3>1 DEF IsAsked
  <2>8. backend'.taken = {Asked(h.order[i])' : i \in h.answered..(h.taken - 1)}
    <3>1. backend'.taken = {Asked(g.order[i]) : i \in g.answered..(g.taken - 1)}
      BY <1>1, <1>10 DEF Holds, BProgress
    <3> QED BY <2>1, <2>2, <3>1
  <2> QED BY <2>5, <2>6, <2>7, <2>8 DEF BProgress
<1>26. BGrants(h)'
  <2>1. \A r \in Refs : Granted(h, r)'
    <3> TAKE r \in Refs
    <3>1. Granted(g, r)
      BY <1>1 DEF Holds, BGrants
    <3>2. CASE r \in s
      BY <1>10, <3>2 DEF Granted
    <3>3. CASE r \notin s
      <4>1. gnttab'[r] = gnttab[r]
        BY <1>10, <3>3
      <4>2. \A i \in Window(g) : r \in Shadow(g, i).grefs => i \in Window(h)
        BY <1>4, <1>6, <1>14, <3>3
      <4> QED BY <1>11, <1>14, <1>18, <3>1, <4>1, <4>2 DEF Granted, IsResponded
    <3> QED BY <3>2, <3>3
  <2>2. g.page \notin s /\ h.page = g.page
    BY <1>3, <1>4, <1>6, <1>11 DEF Requested, IsResponded
  <2>3. g.page # 0 => gnttab'[g.page] = "in_use"
    <3>1. g.page \in Refs \cup {0}
      BY <1>2, GhostTypes
    <3> QED BY <1>1, <1>10, <2>2, <3>1 DEF Holds, BGrants
  <2> QED BY <1>1, <1>10, <2>1, <2>2, <2>3 DEF Holds, BGrants, Refs
<1>27. BCallers(h)'
  <2>1. \A u \in Threads : Caller(h, u)'
    <3> TAKE u \in Threads
    <3>1. Caller(g, u)
      BY <1>1 DEF Holds, BCallers
    <3>2. CASE u = t
      <4>1. Matches(t)'
        BY <1>2, <1>9, <1>10 DEF Matches, BTypeOK
      <4> QED BY <1>5, <1>10, <3>1, <3>2, <4>1 DEF Caller
    <3>3. CASE u # t
      <4>1. (\E i \in Window(g) : Owner(g, i) = u) => \E i \in Window(h)' : Owner(h, i)' = u
        BY <1>5, <1>14, <1>18, <3>3
      <4>2. req'[u] = req[u] /\ Matches(u)' = Matches(u)
        BY <1>2, <1>10, <3>3 DEF BTypeOK, Matches
      <4> QED BY <1>10, <3>1, <4>1, <4>2 DEF Caller
    <3> QED BY <3>2, <3>3
  <2>2. \A i \in Window(h)' : Owner(h, i)' # t
    BY <1>14, <1>18
  <2> QED BY <1>5, <1>10, <1>16, <2>1, <2>2 DEF BCallers
<1> QED BY <1>12, <1>19, <1>20, <1>21, <1>22, <1>23, <1>24, <1>25, <1>26, <1>27, InvFrom

\* The backend takes the next request.
LEMMA BackendTakesKept ==
  ASSUME BlkInv, BackendTakes
  PROVE  BlkInv'
<1>1. PICK g \in Ghosts : Holds(g)
  BY DEF BlkInv
<1>2. BTypeOK /\ BLock /\ backend \in Backends
  BY DEF BlkInv, BTypeOK
<1>3. /\ g.cons \in Nat /\ g.answered \in Nat /\ g.taken \in Nat /\ g.asked \in Nat
      /\ BLK_RING_SIZE \in Nat /\ g.cons <= g.answered /\ g.answered <= g.taken /\ g.taken <= g.asked
      /\ backend.req_cons = Wrap(g.taken) /\ ring.req_prod = Wrap(g.asked)
      /\ g.order \in [Nat -> Ids] /\ 0 \in Ids
  BY <1>1, <1>2, Positions, GhostTypes DEF Holds, BIndices
<1>4. g.taken < g.asked
  BY <1>3 DEF BackendTakes, Unconsumed
<1>5. /\ g.taken \in g.taken..(g.asked - 1) /\ g.taken \in Window(g) /\ g.taken \in g.cons..g.asked
      /\ Window(g)' = Window(g)
  BY <1>3, <1>4 DEF Window
<1>6. /\ Slot(backend.req_cons) = g.taken % BLK_RING_SIZE /\ Plus1(backend.req_cons) = Wrap(g.taken + 1)
      /\ Wrap(g.taken + 1) \in Int
  <2>1. PICK n \in Nat : n = g.taken + 1
    BY <1>3
  <2>2. Wrap(n) \in Nat
    BY <1>2, Counters
  <2>3. Slot(Wrap(g.taken)) = g.taken % BLK_RING_SIZE /\ Plus1(Wrap(g.taken)) = Wrap(g.taken + 1)
    BY <1>2, <1>3, Counters
  <2> QED BY <1>3, <2>1, <2>2, <2>3
<1>7. Requested(g, g.taken) /\ IsAsked(g, g.taken)
  BY <1>1, <1>5 DEF Holds, BRequests, BProgress
<1>8. PICK s \in SUBSET Refs : s = Shadow(g, g.taken).grefs
  BY <1>1, <1>2, <1>5, GhostTypes DEF Shadows
<1>9. g.taken % BLK_RING_SIZE \in Ids
  BY <1>1, <1>2, <1>5, Positions
<1>10. PICK e \in Entries : e = ring.slots[g.taken % BLK_RING_SIZE] /\ e = Asked(g.order[g.taken]) /\ e.grefs = s
  <2>1. ring.slots[g.taken % BLK_RING_SIZE] \in Entries
    BY <1>2, <1>9 DEF BTypeOK, Rings
  <2>2. Asked(g.order[g.taken]).grefs = s
    BY <1>8 DEF Asked, NoEntry, Shadow
  <2> QED BY <1>7, <2>1, <2>2 DEF IsAsked
<1>11. \A r \in s : gnttab[r] = "granted"
  BY <1>7, <1>8 DEF IsAsked, GrantsAre
\* The next state.
<1>12. /\ SameWork
       /\ gnttab' = [r \in Refs |-> IF r \in s THEN "in_use" ELSE gnttab[r]]
       /\ ring' = [ring EXCEPT !.slots[g.taken % BLK_RING_SIZE] = NoEntry]
       /\ backend' = [backend EXCEPT !.taken = backend.taken \cup {e}, !.req_cons = Wrap(g.taken + 1)]
       /\ UNCHANGED <<state, lock, freelist, shadows, pc, req, done, init, handler, workload, halt>>
  BY <1>6, <1>10 DEF BackendTakes, SameWork, waitVars
<1>13. PICK h \in Ghosts :
         /\ h = [g EXCEPT !.taken = g.taken + 1] /\ h.taken = g.taken + 1
         /\ h.rsp = g.rsp /\ h.cons = g.cons /\ h.last = g.last /\ h.answered = g.answered /\ h.asked = g.asked
         /\ h.order = g.order /\ h.free = g.free /\ h.stack = g.stack /\ h.page = g.page
  <2>1. [g EXCEPT !.taken = g.taken + 1] \in Ghosts
    BY DEF Ghosts
  <2> QED BY <2>1 DEF Ghosts
<1>14. h \in Ghosts' /\ BLK_RING_SIZE' = BLK_RING_SIZE /\ Ids' = Ids
  BY <1>1, <1>2, <1>12, <1>13, Same
<1>15. Window(h)' = Window(g)
  BY <1>13 DEF Window
<1>16. ring' \in Rings /\ ring'.slots = [ring.slots EXCEPT ![g.taken % BLK_RING_SIZE] = NoEntry]
       /\ ring'.req_prod_pvt = ring.req_prod_pvt /\ ring'.req_prod = ring.req_prod
       /\ ring'.rsp_prod = ring.rsp_prod /\ ring'.rsp_cons = ring.rsp_cons
  <2>1. NoEntry \in Entries
    BY <1>3 DEF NoEntry, Entries
  <2>2. PICK sl \in [Ids -> Entries] : sl = [ring.slots EXCEPT ![g.taken % BLK_RING_SIZE] = NoEntry]
    BY <1>2, <2>1 DEF BTypeOK, Rings
  <2>3. ring' = [ring EXCEPT !.slots = sl]
    BY <1>12, <2>2
  <2>4. ring' \in Rings
    BY <1>2, <2>3, Zenon DEF BTypeOK, Rings
  <2> QED BY <1>2, <2>2, <2>3, <2>4 DEF BTypeOK, Rings
<1>17. /\ backend' \in Backends /\ backend'.answer = backend.answer
       /\ backend'.taken = backend.taken \cup {e} /\ backend'.req_cons = Wrap(g.taken + 1)
  <2>1. PICK tk \in SUBSET Entries : tk = backend.taken \cup {e}
    BY <1>2 DEF Backends
  <2>2. backend' = [backend EXCEPT !.taken = tk, !.req_cons = Wrap(g.taken + 1)]
    BY <1>12, <2>1
  <2>3. backend' \in Backends
    BY <1>2, <1>6, <2>2, Zenon DEF Backends
  <2> QED BY <1>2, <2>1, <2>2, <2>3 DEF Backends
<1>18. BTypeOK'
  <2>1. gnttab' \in [Refs -> {"free", "granted", "in_use"}]
    BY <1>2, <1>12 DEF BTypeOK
  <2> QED BY <1>2, <1>12, <1>16, <1>17, <2>1, SameTypes DEF BTypeOK, Refs
<1>19. BLock'
  BY <1>2, <1>12 DEF BLock
<1>20. \A i : Shadow(h, i)' = Shadow(g, i) /\ Owner(h, i)' = Owner(g, i)
  BY <1>12, <1>13 DEF Shadow, Owner
<1>21. \A i \in Window(g) : i = g.taken \/ Shadow(g, i).grefs \cap s = {}
  BY <1>1, <1>5, <1>8 DEF Holds, BRequests, Apart
<1>22. BIndices(h)'
  <2>1. \A n : Wrap(n)' = Wrap(n)
    BY <1>14 DEF Wrap
  <2> QED BY <1>1, <1>3, <1>4, <1>13, <1>14, <1>16, <1>17, <2>1 DEF Holds, BIndices
<1>23. BHandler(h)' /\ BIds(h)' /\ BRequests(h)' /\ BCallers(h)'
  <2>1. BHandler(g)' /\ BIds(g)' /\ BRequests(g)' /\ BCallers(g)'
    BY <1>1, <1>2, <1>12, <1>17, Same
  <2>2. BHandler(h)'
    BY <1>13, <2>1 DEF BHandler
  <2>3. BIds(h)'
    BY <1>5, <1>13, <1>15, <2>1 DEF BIds, FreeId, ListedId
  <2>4. BRequests(h)'
    <3>1. \A i : Shadow(g, i)' = Shadow(h, i)' /\ Owner(g, i)' = Owner(h, i)'
      BY <1>13 DEF Shadow, Owner
    <3> QED BY <1>5, <1>13, <1>15, <2>1, <3>1 DEF BRequests, Requested, Apart
  <2>5. BCallers(h)'
    BY <1>5, <1>13, <1>15, <2>1 DEF BCallers, Caller, Owner, Shadow
  <2> QED BY <2>2, <2>3, <2>4, <2>5
<1>24. BProgress(h)'
  <2>1. \A i : Asked(h.order[i])' = Asked(g.order[i])
    BY <1>12, <1>13 DEF Asked
  <2>2. /\ h.cons = g.cons /\ h.answered = g.answered /\ h.asked = g.asked /\ h.order = g.order
        /\ \A i \in g.cons..(g.answered - 1) : i \in Window(g) /\ i # g.taken
        /\ \A i \in g.answered..(g.taken - 1) : i \in Window(g) /\ i # g.taken
        /\ \A i \in h.taken..(h.asked - 1) : i \in Window(g) /\ i \in g.taken..(g.asked - 1) /\ i # g.taken
        /\ h.answered..(h.taken - 1) = (g.answered..(g.taken - 1)) \cup {g.taken}
    BY <1>3, <1>4, <1>13 DEF Window
  <2>3. \A i \in Window(g) : i # g.taken => ring'.slots[i % BLK_RING_SIZE] = ring.slots[i % BLK_RING_SIZE]
    <3> TAKE i \in Window(g)
    <3>1. i \in g.cons..g.asked
      BY <1>3 DEF Window
    <3>2. i # g.taken => i % BLK_RING_SIZE # g.taken % BLK_RING_SIZE
      BY <1>1, <1>2, <1>5, <3>1, Positions
    <3>3. i % BLK_RING_SIZE \in Ids
      BY <1>1, <1>2, <3>1, Positions
    <3> QED BY <1>2, <1>16, <3>2, <3>3 DEF BTypeOK, Rings
  <2>4. \A how : \A i \in Window(g) : i # g.taken /\ GrantsAre(g, i, how) => GrantsAre(h, i, how)'
    <3> TAKE how
    <3> TAKE i \in Window(g)
    <3>1. Shadow(g, i).grefs \subseteq Refs
      BY <1>1, <1>2, GhostTypes DEF Shadows
    <3> QED BY <1>12, <1>20, <1>21, <3>1 DEF GrantsAre
  <2>5. \A i \in g.cons..(g.answered - 1) : IsAnswered(h, i)'
    <3> TAKE i \in g.cons..(g.answered - 1)
    <3>1. i \in Window(g) /\ i # g.taken /\ IsAnswered(g, i)
      BY <1>1, <2>2 DEF Holds, BProgress
    <3> QED BY <1>14, <1>17, <1>20, <2>2, <2>3, <2>4, <3>1 DEF IsAnswered
  <2>6. \A i \in g.answered..(g.taken - 1) : IsTaken(h, i)'
    <3> TAKE i \in g.answered..(g.taken - 1)
    <3>1. i \in Window(g) /\ i # g.taken /\ IsTaken(g, i)
      BY <1>1, <2>2 DEF Holds, BProgress
    <3> QED BY <1>17, <1>20, <2>4, <3>1 DEF IsTaken
  <2>7. IsTaken(h, g.taken)'
    <3>1. GrantsAre(h, g.taken, "in_use")'
      BY <1>8, <1>12, <1>20 DEF GrantsAre
    <3> QED BY <1>7, <1>17, <1>20, <3>1 DEF IsTaken, IsAsked
  <2>8. \A i \in h.taken..(h.asked - 1) : IsAsked(h, i)'
    <3> TAKE i \in h.taken..(h.asked - 1)
    <3>1. i \in Window(g) /\ i # g.taken /\ IsAsked(g, i)
      BY <1>1, <2>2 DEF Holds, BProgress
    <3> QED BY <1>14, <1>17, <1>20, <2>1, <2>3, <2>4, <3>1 DEF IsAsked
  <2>9. backend'.taken = {Asked(h.order[i])' : i \in h.answered..(h.taken - 1)}
    <3>1. backend.taken = {Asked(g.order[i]) : i \in g.answered..(g.taken - 1)}
      BY <1>1 DEF Holds, BProgress
    <3> QED BY <1>10, <1>17, <2>1, <2>2, <3>1
  <2> QED BY <2>2, <2>5, <2>6, <2>7, <2>8, <2>9 DEF BProgress
<1>25. BGrants(h)'
  <2>1. \A r \in Refs : Granted(h, r)'
    <3> TAKE r \in Refs
    <3>1. gnttab'[r] # "free" => gnttab[r] # "free"
      BY <1>11, <1>12
    <3> QED BY <1>1, <1>13, <1>15, <1>20, <3>1 DEF Holds, BGrants, Granted
  <2>2. g.page # 0 => gnttab'[g.page] = "in_use"
    <3>1. g.page \in Refs \cup {0}
      BY <1>2, GhostTypes
    <3> QED BY <1>1, <1>12, <3>1 DEF Holds, BGrants
  <2> QED BY <1>1, <1>12, <1>13, <2>1, <2>2 DEF Holds, BGrants, Refs
<1> QED BY <1>14, <1>18, <1>19, <1>22, <1>23, <1>24, <1>25, InvFrom

\* The ghosts when the backend answers the request at position k.
Answered(g, k) ==
  [g EXCEPT !.order = [g.order EXCEPT ![g.answered] = g.order[k], ![k] = g.order[g.answered]],
            !.answered = g.answered + 1]

IsAnsweredGhost(h, g, k) ==
  /\ h.rsp = g.rsp /\ h.cons = g.cons /\ h.last = g.last /\ h.answered = g.answered + 1 /\ h.taken = g.taken
  /\ h.asked = g.asked /\ h.free = g.free /\ h.stack = g.stack /\ h.page = g.page
  /\ h.order = [g.order EXCEPT ![g.answered] = g.order[k], ![k] = g.order[g.answered]]

\* They are ghosts.
LEMMA AnsweredGhost ==
  ASSUME NEW g \in Ghosts, NEW k \in Nat
  PROVE  Answered(g, k) \in Ghosts /\ IsAnsweredGhost(Answered(g, k), g, k)
<1>1. g.answered \in Nat /\ g.order \in [Nat -> Ids]
  BY DEF Ghosts
<1>2. /\ g.answered + 1 \in Nat
      /\ [g.order EXCEPT ![g.answered] = g.order[k], ![k] = g.order[g.answered]] \in [Nat -> Ids]
  BY <1>1
<1>3. Answered(g, k) \in Ghosts
  BY <1>2, Zenon DEF Ghosts, Answered
<1> QED BY <1>3 DEF Ghosts, Answered, IsAnsweredGhost

\* Where the request at a position was before the answer at k.
Before(g, k, i) == IF i = g.answered THEN k ELSE IF i = k THEN g.answered ELSE i

\* The backend answers a request, in any order.
LEMMA BackendAnswersKept ==
  ASSUME BlkInv, NEW t \in Threads, BackendAnswers(t)
  PROVE  BlkInv'
<1>1. PICK g \in Ghosts : Holds(g)
  BY DEF BlkInv
<1>2. BTypeOK /\ BLock /\ backend \in Backends
  BY DEF BlkInv, BTypeOK
<1>3. /\ g.cons \in Nat /\ g.answered \in Nat /\ g.taken \in Nat /\ g.asked \in Nat
      /\ BLK_RING_SIZE \in Nat /\ g.cons <= g.answered /\ g.answered <= g.taken /\ g.taken <= g.asked
      /\ ring.rsp_prod = Wrap(g.answered)
      /\ g.order \in [Nat -> Ids] /\ 0 \in Ids
  BY <1>1, <1>2, Positions, GhostTypes DEF Holds, BIndices
<1>4. PICK e \in backend.taken, ok \in BOOLEAN :
        /\ e.thread = t
        /\ gnttab' = [r \in Refs |-> IF r \in e.grefs THEN "granted" ELSE gnttab[r]]
        /\ ring' = [ring EXCEPT !.slots[Slot(ring.rsp_prod)] = [NoEntry EXCEPT !.id = e.id, !.ok = ok],
                                !.rsp_prod = Plus1(ring.rsp_prod)]
        /\ backend' = [backend EXCEPT !.taken = backend.taken \ {e},
                         !.answer[t] = [status |-> IF ok THEN "ok" ELSE "error", sectors |-> e.sectors]]
        /\ UNCHANGED <<state, lock, freelist, shadows, pc, req, waitVars, init, handler, workload, halt>>
  BY Zenon DEF BackendAnswers
<1>5. PICK k \in g.answered..(g.taken - 1) : e = Asked(g.order[k])
  BY <1>1 DEF Holds, BProgress
<1>6. k \in Nat /\ k \in Window(g) /\ g.answered \in Window(g) /\ g.answered < g.taken
      /\ g.answered \in g.answered..(g.taken - 1) /\ g.answered \in g.cons..g.asked /\ Window(g)' = Window(g)
  BY <1>3, <1>5 DEF Window
<1>7. Requested(g, k) /\ IsTaken(g, k)
  BY <1>1, <1>5, <1>6 DEF Holds, BRequests, BProgress
<1>8. PICK id \in Ids \ {0} : id = g.order[k]
  BY <1>3, <1>6, <1>7 DEF Requested
<1>9. PICK s \in SUBSET Refs : s = Shadow(g, k).grefs
  BY <1>1, <1>2, <1>6, GhostTypes DEF Shadows
<1>10. e.id = id /\ e.thread = Owner(g, k) /\ e.grefs = s /\ e.sectors = Sectors(workload.kind[t].size)
       /\ t = Owner(g, k)
  <2>1. e.id = id /\ e.thread = Owner(g, k) /\ e.grefs = s
    BY <1>5, <1>8, <1>9 DEF Asked, NoEntry, Shadow, Owner
  <2>2. e.sectors = Sectors(workload.kind[Owner(g, k)].size)
    BY <1>5 DEF Asked, NoEntry, Shadow, Owner
  <2> QED BY <1>4, <2>1, <2>2
<1>11. /\ SameWork /\ UNCHANGED <<state, lock, freelist, shadows, pc, req, done, init, handler, workload, halt>>
  BY <1>4 DEF SameWork, waitVars
<1>12. PICK a \in Answers : a = [status |-> IF ok THEN "ok" ELSE "error", sectors |-> e.sectors]
  <2>1. workload.kind[t].size \in Nat \ {0}
    BY <1>2 DEF BTypeOK, Works, Kinds
  <2>2. e.sectors \in Int
    BY <1>10, <2>1, Pages
  <2> QED BY <2>2 DEF Answers
<1>13. PICK n \in Entries : n = [NoEntry EXCEPT !.id = e.id, !.ok = ok] /\ n.id = id /\ n.ok = ok
  <2>1. NoEntry \in Entries
    BY <1>3 DEF NoEntry, Entries
  <2>2. [NoEntry EXCEPT !.id = e.id, !.ok = ok] \in Entries
    BY <1>8, <1>10, <2>1, Zenon DEF Entries
  <2> QED BY <1>10, <2>2 DEF NoEntry
<1>14. PICK h \in Ghosts : h = Answered(g, k) /\ IsAnsweredGhost(h, g, k)
  BY <1>6, AnsweredGhost
<1>15. h \in Ghosts' /\ BLK_RING_SIZE' = BLK_RING_SIZE /\ Ids' = Ids
  BY <1>1, <1>2, <1>11, <1>14, Same
<1>16. Window(h)' = Window(g) /\ Window(h) = Window(g)
  BY <1>14 DEF Window, IsAnsweredGhost
<1>17. /\ ring' \in Rings /\ ring'.slots = [ring.slots EXCEPT ![g.answered % BLK_RING_SIZE] = n]
       /\ ring'.req_prod_pvt = ring.req_prod_pvt /\ ring'.req_prod = ring.req_prod
       /\ ring'.rsp_prod = Wrap(g.answered + 1) /\ ring'.rsp_cons = ring.rsp_cons
  <2>1. Slot(ring.rsp_prod) = g.answered % BLK_RING_SIZE /\ Plus1(ring.rsp_prod) = Wrap(g.answered + 1)
    BY <1>2, <1>3, Counters
  <2>2. Wrap(g.answered + 1) \in Int
    <3>1. PICK m \in Nat : m = g.answered + 1
      BY <1>3
    <3>2. Wrap(m) \in Nat
      BY <1>2, Counters
    <3> QED BY <3>1, <3>2
  <2>3. PICK sl \in [Ids -> Entries] : sl = [ring.slots EXCEPT ![g.answered % BLK_RING_SIZE] = n]
    BY <1>2 DEF BTypeOK, Rings
  <2>4. ring' = [ring EXCEPT !.slots = sl, !.rsp_prod = Wrap(g.answered + 1)]
    BY <1>4, <1>13, <2>1, <2>3
  <2>5. ring' \in Rings
    BY <1>2, <2>2, <2>4, Zenon DEF BTypeOK, Rings
  <2> QED BY <1>2, <2>3, <2>4, <2>5 DEF BTypeOK, Rings
<1>18. /\ backend' \in Backends /\ backend'.answer = [backend.answer EXCEPT ![t] = a]
       /\ backend'.taken = backend.taken \ {e} /\ backend'.req_cons = backend.req_cons
  <2>1. PICK tk \in SUBSET Entries : tk = backend.taken \ {e}
    BY <1>2 DEF Backends
  <2>2. PICK an \in [Threads -> Answers] : an = [backend.answer EXCEPT ![t] = a]
    BY <1>2 DEF Backends
  <2>3. backend' = [backend EXCEPT !.taken = tk, !.answer = an]
    BY <1>4, <1>12, <2>1, <2>2
  <2>4. backend' \in Backends
    BY <1>2, <2>3, Zenon DEF Backends
  <2> QED BY <1>2, <2>1, <2>2, <2>3, <2>4 DEF Backends
<1>19. BTypeOK'
  <2>1. gnttab' \in [Refs -> {"free", "granted", "in_use"}]
    BY <1>2, <1>4 DEF BTypeOK
  <2> QED BY <1>2, <1>11, <1>17, <1>18, <2>1, SameTypes DEF BTypeOK, Refs
<1>20. BLock'
  BY <1>2, <1>11 DEF BLock
\* The request at k changes places with the first one that is not answered.
<1>21. \A i \in Window(g) : Before(g, k, i) \in Window(g) /\ h.order[i] = g.order[Before(g, k, i)]
  <2> TAKE i \in Window(g)
  <2>1. i \in Nat
    BY <1>3 DEF Window
  <2> QED BY <1>3, <1>6, <1>14, <2>1 DEF Before, IsAnsweredGhost
<1>22. \A i \in Window(g) :
         /\ Shadow(h, i)' = Shadow(g, Before(g, k, i)) /\ Owner(h, i)' = Owner(g, Before(g, k, i))
         /\ Asked(h.order[i])' = Asked(g.order[Before(g, k, i)])
  BY <1>11, <1>21 DEF Shadow, Owner, Asked
<1>23. \A i, j \in Window(g) : Before(g, k, i) = Before(g, k, j) => i = j
  BY DEF Before
<1>24. \A j \in Window(g) : \E i \in Window(g) : Before(g, k, i) = j
  <2> TAKE j \in Window(g)
  <2>1. Before(g, k, j) \in Window(g) /\ Before(g, k, Before(g, k, j)) = j
    BY <1>6 DEF Before
  <2> QED BY <2>1
<1>25. \A i \in Window(g) :
         i # k => g.order[i] # id /\ Owner(g, i) # t /\ Shadow(g, i).grefs \cap s = {}
  BY <1>1, <1>6, <1>8, <1>9, <1>10 DEF Holds, BRequests, Apart
<1>26. BIndices(h)'
  <2>1. \A m : Wrap(m)' = Wrap(m)
    BY <1>15 DEF Wrap
  <2> QED BY <1>1, <1>3, <1>6, <1>14, <1>15, <1>17, <1>18, <2>1 DEF Holds, BIndices, IsAnsweredGhost
<1>27. BHandler(h)'
  <2>1. \A m : Wrap(m)' = Wrap(m)
    BY <1>15 DEF Wrap
  <2>2. g.last \in Nat
    BY <1>2, GhostTypes
  <2> QED BY <1>1, <1>3, <1>11, <1>14, <2>1, <2>2 DEF Holds, BHandler, IsAnsweredGhost
<1>28. BIds(h)'
  <2>1. h.stack = g.stack /\ h.free = g.free /\ h.asked = g.asked /\ h.cons = g.cons
    BY <1>14 DEF IsAnsweredGhost
  <2>2. \A i : FreeId(g, i) => FreeId(h, i)'
    BY <1>11, <2>1 DEF FreeId
  <2>3. \A x : ListedId(g, x) => ListedId(h, x)'
    BY <1>16, <1>21, <1>24, <2>1 DEF ListedId
  <2> QED BY <1>1, <1>11, <1>15, <2>1, <2>2, <2>3 DEF Holds, BIds
<1>29. BRequests(h)'
  <2>1. \A i \in Window(g) : Requested(h, i)'
    <3> TAKE i \in Window(g)
    <3>1. Requested(g, Before(g, k, i))
      BY <1>1, <1>21 DEF Holds, BRequests
    <3>2. h.page = g.page
      BY <1>14 DEF IsAnsweredGhost
    <3> QED BY <1>11, <1>21, <1>22, <3>1, <3>2 DEF Requested
  <2>2. \A i, j \in Window(g) : i # j => Apart(h, i, j)'
    <3> TAKE i, j \in Window(g)
    <3>1. i # j => Apart(g, Before(g, k, i), Before(g, k, j))
      BY <1>1, <1>21, <1>23 DEF Holds, BRequests
    <3> QED BY <1>21, <1>22, <3>1 DEF Apart
  <2> QED BY <1>16, <2>1, <2>2 DEF BRequests
<1>30. BProgress(h)'
  <2>1. /\ h.cons = g.cons /\ h.answered = g.answered + 1 /\ h.asked = g.asked /\ h.taken = g.taken
        /\ \A i \in g.cons..(g.answered - 1) : i \in Window(g) /\ i # k /\ Before(g, k, i) = i
        /\ \A i \in (g.answered + 1)..(g.taken - 1) :
             /\ i \in Window(g) /\ Before(g, k, i) \in g.answered..(g.taken - 1) /\ Before(g, k, i) # k
        /\ \A i \in g.taken..(g.asked - 1) : i \in Window(g) /\ i # k /\ Before(g, k, i) = i /\ i # g.answered
        /\ h.cons..(h.answered - 1) = (g.cons..(g.answered - 1)) \cup {g.answered}
        /\ Before(g, k, g.answered) = k
    BY <1>3, <1>5, <1>6, <1>14 DEF Window, Before, IsAnsweredGhost
  <2>2. \A i \in Window(g) : i # g.answered => ring'.slots[i % BLK_RING_SIZE] = ring.slots[i % BLK_RING_SIZE]
    <3> TAKE i \in Window(g)
    <3>1. i \in g.cons..g.asked
      BY <1>3 DEF Window
    <3>2. i # g.answered => i % BLK_RING_SIZE # g.answered % BLK_RING_SIZE
      BY <1>1, <1>2, <1>6, <3>1, Positions
    <3>3. i % BLK_RING_SIZE \in Ids
      BY <1>1, <1>2, <3>1, Positions
    <3> QED BY <1>2, <1>17, <3>2, <3>3 DEF BTypeOK, Rings
  <2>3. ring'.slots[g.answered % BLK_RING_SIZE] = n
    <3>1. g.answered % BLK_RING_SIZE \in Ids
      BY <1>1, <1>2, <1>6, Positions
    <3> QED BY <1>2, <1>17, <3>1 DEF BTypeOK, Rings
  <2>4. \A how : \A i \in Window(g) : Before(g, k, i) # k /\ GrantsAre(g, Before(g, k, i), how) => GrantsAre(h, i, how)'
    <3> TAKE how
    <3> TAKE i \in Window(g)
    <3>1. Before(g, k, i) \in Window(g)
      BY <1>21
    <3>2. Shadow(g, Before(g, k, i)).grefs \subseteq Refs
      BY <1>1, <1>2, <3>1, GhostTypes DEF Shadows
    <3> QED BY <1>4, <1>10, <1>22, <1>25, <3>1, <3>2 DEF GrantsAre
  <2>5. \A u \in Threads \ {t} : backend'.answer[u] = backend.answer[u]
    BY <1>2, <1>18 DEF Backends
  <2>6. backend'.answer[t].status = IF ok THEN "ok" ELSE "error"
    BY <1>2, <1>12, <1>18 DEF Backends
  <2>7. \A i \in Window(g) : i # k => Owner(g, i) \in Threads \ {t}
    BY <1>1, <1>25 DEF Holds, BRequests, Requested
  <2>8. \A i \in g.cons..(g.answered - 1) : IsAnswered(h, i)'
    <3> TAKE i \in g.cons..(g.answered - 1)
    <3>1. i \in Window(g) /\ IsAnswered(g, i) /\ Before(g, k, i) = i /\ i # k /\ i # g.answered
      BY <1>1, <1>3, <2>1 DEF Holds, BProgress
    <3> QED BY <1>15, <1>21, <1>22, <2>2, <2>4, <2>5, <2>7, <3>1 DEF IsAnswered
  <2>9. IsAnswered(h, g.answered)'
    <3>1. GrantsAre(h, g.answered, "granted")'
      BY <1>4, <1>6, <1>9, <1>10, <1>22, <2>1 DEF GrantsAre
    <3>2. h.order[g.answered] = id /\ Owner(h, g.answered)' = t
      BY <1>6, <1>8, <1>10, <1>21, <1>22, <2>1
    <3> QED BY <1>13, <1>15, <2>3, <2>6, <3>1, <3>2 DEF IsAnswered
  <2>10. \A i \in (g.answered + 1)..(g.taken - 1) : IsTaken(h, i)'
    <3> TAKE i \in (g.answered + 1)..(g.taken - 1)
    <3>1. i \in Window(g) /\ IsTaken(g, Before(g, k, i)) /\ Before(g, k, i) # k /\ Before(g, k, i) \in Window(g)
      BY <1>1, <1>21, <2>1 DEF Holds, BProgress
    <3> QED BY <1>22, <2>4, <2>5, <2>7, <3>1 DEF IsTaken
  <2>11. \A i \in g.taken..(g.asked - 1) : IsAsked(h, i)'
    <3> TAKE i \in g.taken..(g.asked - 1)
    <3>1. i \in Window(g) /\ IsAsked(g, i) /\ Before(g, k, i) = i /\ i # k /\ i # g.answered
      BY <1>1, <2>1 DEF Holds, BProgress
    <3> QED BY <1>15, <1>22, <2>2, <2>4, <2>5, <2>7, <3>1 DEF IsAsked
  <2>12. backend'.taken = {Asked(h.order[i])' : i \in (g.answered + 1)..(g.taken - 1)}
    <3>1. backend.taken = {Asked(g.order[j]) : j \in g.answered..(g.taken - 1)}
      BY <1>1 DEF Holds, BProgress
    <3>2. \A j \in g.answered..(g.taken - 1) : j \in Window(g) /\ (j # k => Asked(g.order[j]) # e)
      <4> TAKE j \in g.answered..(g.taken - 1)
      <4>1. j \in Window(g)
        BY <1>3 DEF Window
      <4>2. Asked(g.order[j]).id = g.order[j]
        BY DEF Asked, NoEntry
      <4> QED BY <1>10, <1>25, <4>1, <4>2
    <3>3. \A j \in g.answered..(g.taken - 1) :
            j # k => \E i \in (g.answered + 1)..(g.taken - 1) : Before(g, k, i) = j
      <4> TAKE j \in g.answered..(g.taken - 1)
      <4>1. CASE j = g.answered /\ j # k
        BY <1>3, <1>5, <4>1 DEF Before
      <4>2. CASE j # g.answered /\ j # k
        BY <1>3, <4>2 DEF Before
      <4> QED BY <4>1, <4>2
    <3>4. {Asked(h.order[i])' : i \in (g.answered + 1)..(g.taken - 1)} = backend.taken \ {e}
      <4>1. \A i \in (g.answered + 1)..(g.taken - 1) : Asked(h.order[i])' \in backend.taken \ {e}
        BY <1>22, <2>1, <3>1, <3>2
      <4>2. \A x \in backend.taken \ {e} : \E i \in (g.answered + 1)..(g.taken - 1) : x = Asked(h.order[i])'
        <5> TAKE x \in backend.taken \ {e}
        <5>1. PICK j \in g.answered..(g.taken - 1) : x = Asked(g.order[j]) /\ j # k
          BY <1>5, <3>1
        <5> QED BY <1>22, <2>1, <3>3, <5>1
      <4> QED BY <4>1, <4>2
    <3> QED BY <1>18, <3>4
  <2> QED BY <2>1, <2>8, <2>9, <2>10, <2>11, <2>12 DEF BProgress
<1>31. BGrants(h)'
  <2>1. \A r \in Refs : Granted(h, r)'
    <3> TAKE r \in Refs
    <3>1. gnttab'[r] # "free" => gnttab[r] # "free"
      <4>1. r \in s => gnttab[r] = "in_use"
        BY <1>7, <1>9 DEF IsTaken, GrantsAre
      <4> QED BY <1>4, <1>10, <4>1
    <3>2. Granted(g, r)
      BY <1>1 DEF Holds, BGrants
    <3>3. (\E j \in Window(g) : r \in Shadow(g, j).grefs) => \E i \in Window(h)' : r \in Shadow(h, i)'.grefs
      BY <1>16, <1>22, <1>24
    <3> QED BY <1>14, <3>1, <3>2, <3>3 DEF Granted, IsAnsweredGhost
  <2>2. g.page \notin s /\ h.page = g.page /\ g.page \in Refs \cup {0}
    BY <1>2, <1>7, <1>9, <1>14, GhostTypes DEF Requested, IsAnsweredGhost
  <2>3. g.page # 0 => gnttab'[g.page] = "in_use"
    BY <1>1, <1>4, <1>10, <2>2 DEF Holds, BGrants
  <2> QED BY <1>1, <1>11, <2>1, <2>2, <2>3 DEF Holds, BGrants, Refs
<1>32. BCallers(h)'
  <2>1. \A u \in Threads : (\E i \in Window(g) : Owner(g, i) = u) => \E i \in Window(h)' : Owner(h, i)' = u
    BY <1>16, <1>22, <1>24
  <2>2. \A u \in Threads : Caller(h, u)'
    <3> TAKE u \in Threads
    <3>1. Caller(g, u)
      BY <1>1 DEF Holds, BCallers
    <3>2. CASE u = t
      <4>1. pc[t] \in {"notify", "io_wait"} /\ backend'.answer[t] = a /\ a.sectors = Sectors(workload.kind[t].size)
        BY <1>2, <1>7, <1>10, <1>12, <1>18 DEF Requested, Backends
      <4>2. \E i \in Window(h)' : Owner(h, i)' = t
        BY <1>6, <1>10, <2>1
      <4> QED BY <1>11, <3>2, <4>1, <4>2 DEF Caller
    <3>3. CASE u # t
      <4>1. backend'.answer[u] = backend.answer[u]
        BY <1>2, <1>18, <3>3 DEF Backends
      <4>2. Matches(u)' = Matches(u)
        BY <1>11, <4>1 DEF Matches
      <4> QED BY <1>11, <2>1, <3>1, <4>1, <4>2 DEF Caller
    <3> QED BY <3>2, <3>3
  <2>3. handler.pc = "callback" => \A i \in Window(h)' : Owner(h, i)' # handler.thread
    BY <1>1, <1>16, <1>21, <1>22 DEF Holds, BCallers
  <2> QED BY <1>1, <1>11, <2>2, <2>3 DEF Holds, BCallers
<1> QED BY <1>15, <1>19, <1>20, <1>26, <1>27, <1>28, <1>29, <1>30, <1>31, <1>32, InvFrom

-----------------------------------------------------------------------------
(* The invariant *)

\* The invariant holds at first.
LEMMA BlkInit ==
  ASSUME Init
  PROVE  BlkInv
<1> USE DEF Init
<1>1. workload \in Works
  BY WorkloadsAssumption DEF Works, Kinds
<1>2. workload.ring \in Nat \ {0, 1} /\ BLK_RING_SIZE = workload.ring
  BY <1>1 DEF Works, BLK_RING_SIZE
<1>3. BLK_RING_SIZE \in Nat /\ BLK_RING_SIZE >= 2 /\ 0 \in Ids
  BY <1>2 DEF Ids
<1>4. Wrap(0) = 0
  <2>1. PICK m \in Nat : m = 2 * BLK_RING_SIZE /\ m > 0
    BY <1>3
  <2>2. 0 \in 0..(m - 1) /\ 0 = (m * 0) + 0
    BY <2>1
  <2>3. 0 % m = 0
    BY <2>1, <2>2, Remainder
  <2> QED BY <2>1, <2>3 DEF Wrap
<1>5. BTypeOK
  <2>1. ring \in Rings
    <3>1. [i \in Ids |-> NoEntry] \in [Ids -> Entries]
      BY <1>3 DEF NoEntry, Entries
    <3> QED BY <3>1 DEF Rings
  <2>2. freelist \in [Ids -> Ids] /\ shadows \in [Ids -> Shadows]
    BY <1>3 DEF Shadows, NoRequest
  <2>3. handler \in Handlers
    BY DEF Handlers
  <2>4. backend \in Backends
    <3>1. [t \in Threads |-> NoAnswer] \in [Threads -> Answers]
      BY DEF NoAnswer, Answers
    <3> QED BY <3>1 DEF Backends
  <2> QED BY <1>1, <2>1, <2>2, <2>3, <2>4 DEF BTypeOK, CallSteps, States, InitSteps
<1>6. BLock
  BY DEF BLock
<1>7. PICK g \in Ghosts :
        /\ g.rsp = 0 /\ g.cons = 0 /\ g.last = 0 /\ g.answered = 0 /\ g.taken = 0 /\ g.asked = 0
        /\ g.free = 0 /\ g.page = 0 /\ g.stack = [i \in Nat |-> 0]
  <2> DEFINE g == [rsp |-> 0, cons |-> 0, last |-> 0, answered |-> 0, taken |-> 0, asked |-> 0,
                   order |-> [i \in Nat |-> 0], free |-> 0, stack |-> [i \in Nat |-> 0], page |-> 0]
  <2>1. g \in Ghosts
    BY <1>3 DEF Ghosts
  <2> QED BY <2>1
<1>8. Window(g) = {}
  BY <1>7 DEF Window
<1>9. BIndices(g) /\ BHandler(g)
  BY <1>3, <1>4, <1>7 DEF BIndices, BHandler
<1>10. BIds(g)
  <2>1. \A id \in Ids : shadows[id].free
    BY DEF NoRequest
  <2> QED BY <1>3, <1>7, <2>1 DEF BIds
<1>11. BRequests(g) /\ BGrants(g)
  BY <1>7, <1>8 DEF BRequests, BGrants, Granted
<1>12. BProgress(g)
  <2>1. g.cons..(g.answered - 1) = {} /\ g.answered..(g.taken - 1) = {} /\ g.taken..(g.asked - 1) = {}
    BY <1>7
  <2> QED BY <2>1 DEF BProgress
<1>13. BCallers(g)
  BY DEF BCallers, Caller, NoAnswer
<1> QED BY <1>5, <1>6, <1>9, <1>10, <1>11, <1>12, <1>13 DEF BlkInv, Holds

\* Every step keeps the invariant.
LEMMA BlkStep ==
  ASSUME BlkInv, [Next]_vars
  PROVE  BlkInv'
<1>1. ASSUME NEW t \in Threads, blk_read(t) \/ Step(t) \/ BackendAnswers(t) PROVE BlkInv'
  <2>1. ASSUME blk_do_io(t) PROVE BlkInv'
    <3>1. NoId(t) \/ NoGrant(t) \/
            (/\ get_freelist_id # 0 /\ Submit(t, get_freelist_id)
             /\ ~(Cardinality(FreeRefs) < num_pages(workload.kind[t].size)))
      BY <2>1 DEF blk_do_io
    <3> QED BY <2>1, <3>1, NoIdKept, NoGrantKept, SubmitKept
  <2>2. ASSUME Step(t) PROVE BlkInv'
    BY <2>1, <2>2, DeviceReadyKept, ReadyWaitKept, CheckNotifyKept, WaitKept, ReturnKept DEF Step
  <2> QED BY <1>1, <2>2, BlkReadKept, BackendAnswersKept
<1>2. ASSUME HandlerStep PROVE BlkInv'
  BY <1>2, HandlerBegins, TakeResponseKept, CompleteKept, EndOfLoopKept, AskEventKept, FinalCheckKept
  DEF HandlerStep
<1>3. ASSUME InitStep PROVE BlkInv'
  BY <1>3, ExploreKept, InitWaitsKept, ConnectKept, PostConnectKept DEF InitStep
<1>4. ASSUME BackendStep PROVE BlkInv'
  BY <1>4, BackendTakesKept, BackendWaitsKept DEF BackendStep
<1>5. ASSUME UNCHANGED vars PROVE BlkInv'
  <2>1. PICK g \in Ghosts : Holds(g)
    BY DEF BlkInv
  <2>2. SameWork /\ UNCHANGED <<state, lock, ring, freelist, shadows, gnttab, pc, req, done, init, handler,
                                backend, workload, halt>>
    BY <1>5 DEF vars, reqVars, waitVars, SameWork
  <2>3. BTypeOK' /\ BLock'
    BY <2>2, SameTypes DEF BlkInv, BTypeOK, BLock, Refs
  <2> QED BY <2>1, <2>2, <2>3, Same, InvFrom DEF BlkInv
<1> QED BY <1>1, <1>2, <1>3, <1>4, <1>5 DEF Next

\* The invariant holds.
LEMMA BlkInvHolds == Spec => []BlkInv
<1>1. BlkInv /\ [Next]_vars => BlkInv'
  BY BlkStep
<1> QED BY BlkInit, <1>1, PTL DEF Spec

-----------------------------------------------------------------------------
(* The properties *)

\* There are references for the ring's page and for all the requests that have an
\* id, of at most pages pages each: 1 + 31 * 11 of the 2048 in the code.
GrantsSuffice(pages) ==
  \A w \in Workloads :
    /\ (w.ring - 1) * pages + 1 <= NR_GRANT_ENTRIES
    /\ \A t \in Threads : num_pages(w.kind[t].size) <= pages

\* The same for the workload at hand, which keeps its ring and its kinds.
Suffices(pages) ==
  /\ (workload.ring - 1) * pages + 1 <= NR_GRANT_ENTRIES
  /\ \A t \in Threads : num_pages(workload.kind[t].size) <= pages

\* The k-th reference of the request at a position, where p = <<position, k>>.
Numbering(s) == CHOOSE b : b \in Bijection(1..Cardinality(s), s)
Reference(g, p) == Numbering(Shadow(g, p[1]).grefs)[p[2]]

\* What is granted for the requests in flight.
LEMMA GrantedCount ==
  ASSUME BTypeOK, NEW g \in Ghosts, Holds(g), NEW pages \in Nat, Suffices(pages),
         NEW G \in SUBSET Refs, \A r \in G : \E i \in Window(g) : r \in Shadow(g, i).grefs
  PROVE  IsFiniteSet(G) /\ Cardinality(G) \in Nat /\ Cardinality(G) <= (g.asked - g.cons) * pages
<1>1. g.asked \in Nat /\ g.cons \in Nat /\ g.cons <= g.asked
  BY Positions
<1>2. IsFiniteSet(Window(g)) /\ Cardinality(Window(g)) = g.asked - g.cons
  <2>1. PICK lo \in Int, hi \in Int : lo = g.cons /\ hi = g.asked - 1
    BY <1>1
  <2>2. IsFiniteSet(lo..hi) /\ Cardinality(lo..hi) = IF lo > hi THEN 0 ELSE hi - lo + 1
    BY FS_Interval
  <2>3. (IF lo > hi THEN 0 ELSE hi - lo + 1) = g.asked - g.cons
    BY <1>1, <2>1
  <2> QED BY <2>1, <2>2, <2>3 DEF Window
<1>3. IsFiniteSet(1..pages) /\ Cardinality(1..pages) = pages
  <2>1. 1 \in Int /\ pages \in Int
    OBVIOUS
  <2> QED BY <2>1, FS_Interval
<1>4. IsFiniteSet(Refs)
  <2>1. 1 \in Int /\ NR_GRANT_ENTRIES \in Int
    OBVIOUS
  <2> QED BY <2>1, FS_Interval DEF Refs
<1>5. PICK N : N = Window(g) \X (1..pages)
  OBVIOUS
<1>6. \A r \in G : \E p \in N : Reference(g, p) = r
  <2> TAKE r \in G
  <2>1. PICK i \in Window(g) : r \in Shadow(g, i).grefs
    OBVIOUS
  <2>2. PICK s : s = Shadow(g, i).grefs
    OBVIOUS
  <2>3. IsFiniteSet(s)
    <3>1. s \subseteq Refs
      BY <2>2, GhostTypes DEF Shadows
    <3> QED BY <1>4, <3>1, FS_Subset
  <2>4. Cardinality(s) \in Nat /\ Cardinality(s) <= pages
    <3>1. Cardinality(s) = num_pages(workload.kind[Owner(g, i)].size) /\ Owner(g, i) \in Threads
      BY <2>2 DEF Holds, BRequests, Requested
    <3> QED BY <2>3, <3>1, FS_CardinalityType DEF Suffices
  <2>5. Numbering(s) \in Bijection(1..Cardinality(s), s)
    <3>1. \E b : b \in Bijection(1..Cardinality(s), s)
      BY <2>3, FS_CardinalityType DEF ExistsBijection
    <3> QED BY <3>1 DEF Numbering
  <2>6. PICK k \in 1..Cardinality(s) : Numbering(s)[k] = r
    BY <2>1, <2>2, <2>5 DEF Bijection, Surjection
  <2>7. <<i, k>> \in N
    BY <1>5, <2>4
  <2>8. Reference(g, <<i, k>>) = r
    BY <2>2, <2>6 DEF Reference
  <2> QED BY <2>7, <2>8
<1>7. PICK f \in [G -> N] : \A r \in G : Reference(g, f[r]) = r
  <2>1. [r \in G |-> CHOOSE p \in N : Reference(g, p) = r] \in [G -> N]
    BY <1>6
  <2>2. \A r \in G : Reference(g, [x \in G |-> CHOOSE p \in N : Reference(g, p) = x][r]) = r
    BY <1>6
  <2> QED BY <2>1, <2>2
<1>8. f \in Injection(G, N)
  BY <1>7 DEF Injection, IsInjective
<1>9. IsFiniteSet(N) /\ Cardinality(N) = (g.asked - g.cons) * pages
  BY <1>2, <1>3, <1>5, FS_Product
<1>10. IsFiniteSet(G) /\ Cardinality(G) <= Cardinality(N)
  BY <1>8, <1>9, FS_Injection
<1> QED BY <1>9, <1>10, FS_CardinalityType

\* A caller who has an id gets its references.
LEMMA FreeEnough ==
  ASSUME BlkInv, NEW pages \in Nat, Suffices(pages), NEW t \in Threads, state = "ST_READY",
         get_freelist_id # 0
  PROVE  ~(Cardinality(FreeRefs) < num_pages(workload.kind[t].size))
<1>1. PICK g \in Ghosts : Holds(g)
  BY DEF BlkInv
<1>2. BTypeOK
  BY DEF BlkInv
<1>3. PICK n \in Nat, k \in Nat :
        n = BLK_RING_SIZE /\ n >= 2 /\ k = g.asked - g.cons /\ g.asked - g.cons <= n - 2
  <2>1. (g.asked - g.cons) + g.free = BLK_RING_SIZE - 1 /\ g.stack[0] = 0 /\ freelist[0] = g.stack[g.free]
    BY <1>1 DEF Holds, BIds
  <2>2. g.free # 0
    BY <2>1 DEF get_freelist_id
  <2>3. /\ g.asked \in Nat /\ g.cons \in Nat /\ g.free \in Nat /\ g.cons <= g.asked
        /\ BLK_RING_SIZE \in Nat /\ BLK_RING_SIZE >= 2
    BY <1>1, <1>2, Positions
  <2>4. g.asked - g.cons \in Nat /\ g.asked - g.cons <= BLK_RING_SIZE - 2
    BY <2>1, <2>2, <2>3
  <2> QED BY <2>3, <2>4
<1>4. PICK G \in SUBSET Refs : G = {r \in Refs : gnttab[r] # "free" /\ r # g.page}
  OBVIOUS
<1>5. \A r \in G : \E i \in Window(g) : r \in Shadow(g, i).grefs
  BY <1>1, <1>4 DEF Holds, BGrants, Granted
<1>6. IsFiniteSet(G) /\ Cardinality(G) \in Nat /\ Cardinality(G) <= k * pages
  BY <1>1, <1>2, <1>3, <1>5, GrantedCount
<1>7. IsFiniteSet(Refs) /\ Cardinality(Refs) = NR_GRANT_ENTRIES
  <2>1. 1 \in Int /\ NR_GRANT_ENTRIES \in Int /\ ~(1 > NR_GRANT_ENTRIES) /\ NR_GRANT_ENTRIES - 1 + 1 = NR_GRANT_ENTRIES
    OBVIOUS
  <2> QED BY <2>1, FS_Interval DEF Refs
<1>8. IsFiniteSet(G \cup {g.page}) /\ Cardinality(G \cup {g.page}) \in Nat
      /\ Cardinality(G \cup {g.page}) <= Cardinality(G) + 1
  <2>1. /\ IsFiniteSet(G \cup {g.page})
        /\ Cardinality(G \cup {g.page}) = IF g.page \in G THEN Cardinality(G) ELSE Cardinality(G) + 1
    BY <1>6, FS_AddElement
  <2> QED BY <1>6, <2>1
<1>9. FreeRefs = Refs \ (G \cup {g.page})
  <2>1. g.page # 0 /\ gnttab[g.page] = "in_use"
    BY <1>1 DEF Holds, BGrants
  <2> QED BY <1>4, <2>1 DEF FreeRefs
<1>10. Refs \cap (G \cup {g.page}) = G \cup {g.page}
  <2>1. g.page \in Refs
    BY <1>1, <1>2, GhostTypes DEF Holds, BGrants
  <2> QED BY <1>4, <2>1
<1>11. Cardinality(FreeRefs) = NR_GRANT_ENTRIES - Cardinality(G \cup {g.page})
  BY <1>7, <1>9, <1>10, FS_Difference
<1>12. (n - 1) * pages + 1 <= NR_GRANT_ENTRIES /\ num_pages(workload.kind[t].size) <= pages
  BY <1>3 DEF Suffices, BLK_RING_SIZE
<1>13. k * pages <= (n - 2) * pages /\ (n - 1) * pages = (n - 2) * pages + pages
  <2>1. PICK m \in Nat : m = n - 2
    BY <1>3
  <2>2. k * pages <= m * pages
    BY <1>3, <2>1
  <2>3. (n - 1) * pages = m * pages + pages
    BY <2>1
  <2> QED BY <2>1, <2>2, <2>3
<1>14. num_pages(workload.kind[t].size) \in Int
  <2>1. workload.kind[t].size \in Nat \ {0}
    BY <1>2 DEF BTypeOK, Works, Kinds
  <2> QED BY <2>1, Pages
<1>15. PICK a \in Int, b \in Int, c \in Int : a = k * pages /\ b = (n - 2) * pages /\ c = (n - 1) * pages
  OBVIOUS
<1> QED BY <1>6, <1>8, <1>11, <1>12, <1>13, <1>14, <1>15

\* The bounds of a workload stay.
LEMMA SufficesHolds ==
  ASSUME NEW pages \in Nat, GrantsSuffice(pages)
  PROVE  Spec => []Suffices(pages)
<1>1. Init => Suffices(pages)
  BY DEF Init, GrantsSuffice, Suffices
<1>2. BlkInv /\ Suffices(pages) /\ [Next]_vars => Suffices(pages)'
  <2> SUFFICES ASSUME BlkInv, Suffices(pages), [Next]_vars PROVE Suffices(pages)'
    OBVIOUS
  <2>1. SameWork
    <3>1. workload \in Works
      BY DEF BlkInv, BTypeOK
    <3>2. ASSUME NEW t \in Threads, Step(t) \/ BackendAnswers(t) PROVE workload' = workload
      <4>1. blk_do_io(t) => workload' = workload
        BY Zenon DEF blk_do_io
      <4>2. BackendAnswers(t) => workload' = workload
        BY Zenon DEF BackendAnswers
      <4> QED BY <3>2, <4>1, <4>2 DEF Step, wait_for_device_ready, ReadyWait, CheckNotify, wait_for_completion, Return
    <3>3. HandlerStep => workload' = workload
      <4>1. TakeResponse => workload' = workload
        BY Zenon DEF TakeResponse
      <4> QED BY <4>1 DEF HandlerStep, __blk_front_handler, complete_callback, EndOfLoop, AskEvent,
            RING_FINAL_CHECK
    <3>4. InitStep \/ BackendStep \/ UNCHANGED vars => workload' = workload
      BY DEF InitStep, BackendStep, blk_explore, ExploreAgain, Connect, post_connect, AllReady,
         blkfront_thread, BackendTakes, BackendAsks, BackendSleeps, vars
    <3>5. ASSUME NEW t \in Threads, blk_read(t) PROVE SameWork
      BY <3>1, <3>5 DEF blk_read, SameWork, Works
    <3> QED BY <3>2, <3>3, <3>4, <3>5 DEF Next, SameWork
  <2> QED BY <2>1 DEF Suffices, SameWork
<1> QED BY <1>1, <1>2, BlkInvHolds, PTL DEF Spec

\* Where there are references enough, none is missing.
LEMMA NoBugKept ==
  ASSUME BlkInv, NEW pages \in Nat, Suffices(pages), NoBug, [Next]_vars
  PROVE  NoBug'
<1>1. halt = "none" /\ (halt' \in {"none", "no_grant"})
  BY BlkStep DEF NoBug, BlkInv, BTypeOK
<1>2. ASSUME NEW t \in Threads, blk_do_io(t) PROVE halt' = "none"
  BY <1>1, <1>2, FreeEnough DEF blk_do_io, NoId, Submit
<1>3. halt' = "no_grant" => \E t \in Threads : blk_do_io(t)
  BY <1>1 DEF Next, Step, HandlerStep, InitStep, BackendStep, blk_read, wait_for_device_ready, ReadyWait,
     CheckNotify, wait_for_completion, Return, __blk_front_handler, TakeResponse, complete_callback,
     EndOfLoop, AskEvent, RING_FINAL_CHECK, blk_explore, ExploreAgain, Connect, post_connect, AllReady,
     blkfront_thread, BackendTakes, BackendAsks, BackendSleeps, BackendAnswers, vars
<1> QED BY <1>1, <1>2, <1>3 DEF NoBug

\* The ring is not overrun.
LEMMA RingOverrunNot ==
  ASSUME BlkInv
  PROVE  RingNotOverrun
<1>1. PICK g \in Ghosts : Holds(g)
  BY DEF BlkInv
<1>2. BTypeOK
  BY DEF BlkInv
<1>3. /\ g.rsp \in Nat /\ g.asked \in Nat /\ g.taken \in Nat /\ BLK_RING_SIZE \in Nat
      /\ g.rsp <= g.asked /\ g.asked < g.rsp + BLK_RING_SIZE /\ g.taken <= g.asked /\ g.rsp <= g.taken
  BY <1>1, <1>2, Positions
<1>4. /\ ring.req_prod_pvt = Wrap(g.asked) /\ ring.req_prod = Wrap(g.asked) /\ ring.rsp_cons = Wrap(g.rsp)
      /\ backend.req_cons = Wrap(g.taken)
  BY <1>1 DEF Holds, BIndices
<1>5. Sub(Wrap(g.asked), Wrap(g.rsp)) = g.asked - g.rsp /\ Sub(Wrap(g.asked), Wrap(g.taken)) = g.asked - g.taken
  <2>1. g.asked < g.rsp + 2 * BLK_RING_SIZE /\ g.asked < g.taken + 2 * BLK_RING_SIZE
    BY <1>3
  <2>2. Sub(Wrap(g.asked), Wrap(g.rsp)) = g.asked - g.rsp
    BY <1>2, <1>3, <2>1, Counters
  <2>3. Sub(Wrap(g.asked), Wrap(g.taken)) = g.asked - g.taken
    BY <1>2, <1>3, <2>1, Counters
  <2> QED BY <2>2, <2>3
<1>6. ASSUME NEW i \in 0..(g.asked - g.taken - 1)
      PROVE  LET entry == ring.slots[Slot(backend.req_cons + i)]
             IN  ~shadows[entry.id].free /\ shadows[entry.id].thread = entry.thread
  <2>1. PICK j \in g.taken..(g.asked - 1) : j = g.taken + i
    BY <1>3
  <2>2. Slot(backend.req_cons + i) = j % BLK_RING_SIZE
    <3>1. i \in Nat
      BY <1>3
    <3>2. Slot(Wrap(g.taken) + i) = (g.taken + i) % BLK_RING_SIZE
      BY <1>2, <1>3, <3>1, Counters
    <3> QED BY <1>4, <2>1, <3>2
  <2>3. Requested(g, j) /\ IsAsked(g, j)
    <3>1. j \in Window(g)
      BY <1>1, <1>2, Positions
    <3> QED BY <1>1, <3>1 DEF Holds, BRequests, BProgress
  <2>4. /\ Asked(g.order[j]).id = g.order[j]
        /\ Asked(g.order[j]).thread = shadows[g.order[j]].thread
    BY DEF Asked, NoEntry
  <2> QED BY <2>2, <2>3, <2>4 DEF IsAsked, Requested, Shadow
<1> QED BY <1>3, <1>4, <1>5, <1>6 DEF RingNotOverrun

\* The ring holds what is in flight, and no response finds its request, its caller or
\* a reference gone (blk_front_handler, blk_front_submit), with references enough.
THEOREM RingSound ==
  ASSUME NEW pages \in Nat, GrantsSuffice(pages)
  PROVE  Spec => []RingIsSound
<1>1. Init => NoBug
  BY DEF Init, NoBug
<1>2. BlkInv /\ Suffices(pages) /\ NoBug /\ [Next]_vars => NoBug'
  BY NoBugKept
<1>3. BlkInv /\ NoBug => RingIsSound
  BY RingOverrunNot DEF RingIsSound
<1> QED BY <1>1, <1>2, <1>3, BlkInvHolds, SufficesHolds, PTL DEF Spec

\* The requests in flight are those between the counters.
LEMMA InFlightIs ==
  ASSUME BTypeOK, NEW g \in Ghosts, Holds(g)
  PROVE  /\ \A id \in InFlight : state = "ST_READY" /\ \E i \in Window(g) : g.order[i] = id
         /\ \A i \in Window(g) : g.order[i] \in InFlight
<1>1. ASSUME NEW id \in InFlight PROVE state = "ST_READY" /\ \E i \in Window(g) : g.order[i] = id
  <2>1. id \in Ids \ {0} /\ ~shadows[id].free
    BY <1>1 DEF InFlight
  <2>2. state = "ST_READY" /\ ListedId(g, id)
    BY <2>1 DEF Holds, BIds
  <2>3. \A i \in 1..g.free : g.stack[i] # id
    BY <2>1 DEF Holds, BIds, FreeId
  <2> QED BY <2>2, <2>3 DEF ListedId
<1>2. ASSUME NEW i \in Window(g) PROVE g.order[i] \in InFlight
  BY GhostTypes DEF Holds, BRequests, Requested, InFlight, Shadow
<1> QED BY <1>1, <1>2

\* Grants are neither leaked nor shared.
LEMMA GrantsBalanced ==
  ASSUME BlkInv
  PROVE  GrantsBalance
<1>1. PICK g \in Ghosts : Holds(g)
  BY DEF BlkInv
<1>2. BTypeOK
  BY DEF BlkInv
<1>3. PICK granted : granted = Refs \ FreeRefs
  OBVIOUS
<1>4. PICK own : own = UNION {shadows[i].grefs : i \in InFlight}
  OBVIOUS
<1>5. \A r : r \in own <=> \E i \in Window(g) : r \in Shadow(g, i).grefs
  BY <1>1, <1>2, <1>4, InFlightIs DEF Shadow
<1>6. own \subseteq granted
  BY <1>1, <1>2, <1>3, <1>5, InFlightGranted DEF FreeRefs
<1>7. \A i, j \in InFlight : i # j => shadows[i].grefs \cap shadows[j].grefs = {}
  <2> TAKE i, j \in InFlight
  <2>1. PICK k \in Window(g), l \in Window(g) : g.order[k] = i /\ g.order[l] = j
    BY <1>1, <1>2, InFlightIs
  <2>2. k # l => Apart(g, k, l)
    BY <1>1 DEF Holds, BRequests
  <2> QED BY <2>1, <2>2 DEF Apart, Shadow
<1>8. Cardinality(granted \ own) = IF state = "ST_READY" THEN 1 ELSE Cardinality(granted)
  <2>1. CASE state = "ST_READY"
    <3>1. g.page # 0 /\ gnttab[g.page] = "in_use" /\ g.page \in Refs
      BY <1>1, <1>2, <2>1, GhostTypes DEF Holds, BGrants
    <3>2. g.page \in granted \ own
      BY <1>1, <1>3, <1>5, <3>1 DEF FreeRefs, Holds, BRequests, Requested
    <3>3. \A r \in granted \ own : r = g.page
      BY <1>1, <1>3, <1>5 DEF FreeRefs, Holds, BGrants, Granted
    <3>4. granted \ own = {g.page}
      BY <3>2, <3>3
    <3> QED BY <2>1, <3>4, FS_Singleton
  <2>2. CASE state # "ST_READY"
    <3>1. own = {}
      BY <1>1, <1>2, <1>4, <2>2, InFlightIs
    <3>2. granted \ own = granted
      BY <3>1
    <3> QED BY <2>2, <3>2
  <2> QED BY <2>1, <2>2
<1> QED BY <1>3, <1>4, <1>6, <1>7, <1>8 DEF GrantsBalance

\* What the backend has taken belongs to a caller who waits.
LEMMA BuffersHeld ==
  ASSUME BlkInv
  PROVE  BuffersHeldWhileShared
<1>1. PICK g \in Ghosts : Holds(g)
  BY DEF BlkInv
<1>2. BTypeOK
  BY DEF BlkInv
<1>3. ASSUME NEW e \in backend.taken
      PROVE  /\ pc[e.thread] \in {"notify", "io_wait"} /\ done[e.thread] = 0
             /\ req[e.thread].state = "BLK_SUBMITTED"
  <2>1. PICK i \in g.answered..(g.taken - 1) : e = Asked(g.order[i])
    BY <1>1 DEF Holds, BProgress
  <2>2. i \in Window(g)
    BY <1>1, <1>2, Positions
  <2>3. e.thread = Owner(g, i)
    BY <2>1 DEF Asked, NoEntry, Owner, Shadow
  <2> QED BY <1>1, <2>2, <2>3 DEF Holds, BRequests, Requested
<1> QED BY <1>3 DEF BuffersHeldWhileShared

\* A call within one page moves exactly what it asks for.
LEMMA OnePage ==
  ASSUME BlkInv
  PROVE  OnePageExact
<1>1. PICK g \in Ghosts : Holds(g)
  BY DEF BlkInv
<1>2. ASSUME NEW t \in Threads, pc[t] = "return", req[t].state = "BLK_DONE_SUCCESS",
             num_pages(workload.kind[t].size) = 1
      PROVE  Delivered(t) = workload.kind[t].size
  <2>1. backend.answer[t].sectors = Sectors(workload.kind[t].size)
    BY <1>1, <1>2 DEF Holds, BCallers, Caller, Matches
  <2>2. workload.kind[t].size \in Nat
    BY DEF BlkInv, BTypeOK, Works, Kinds
  <2>3. end_sector(workload.kind[t].size) + 1 = workload.kind[t].size
    BY <1>2, <2>2 DEF end_sector
  <2> QED BY <1>2, <2>1, <2>3 DEF Delivered, Sectors
<1> QED BY <1>2 DEF OnePageExact

\* A buffer is lent to the backend for one request and until it is answered, by grants
\* that are ended then, and one of a page is moved exactly (blk_front_submit,
\* blk_shadow_complete).
THEOREM BuffersLent == Spec => []BuffersAreLent
<1>1. BlkInv => BuffersAreLent
  BY GrantsBalanced, BuffersHeld, OnePage DEF BuffersAreLent
<1> QED BY <1>1, BlkInvHolds, PTL

-----------------------------------------------------------------------------
(* The driver implements the abstract disk *)

ResultOf(t) == IF pc[t] = "return" THEN Result(t) ELSE "none"

\* A caller's phase, in this state and in the next.
LEMMA Phases ==
  ASSUME NEW t
  PROVE  /\ pc[t] = "idle" => Phase(t) = "idle"
         /\ pc[t] # "idle" /\ backend.answer[t].status # "none" => Phase(t) = backend.answer[t].status
         /\ pc[t] = "return" /\ backend.answer[t].status = "none" => Phase(t) = "refused"
         /\ pc[t] \notin {"idle", "return"} /\ backend.answer[t].status = "none" => Phase(t) = "asked"
         /\ pc'[t] = "idle" => Phase(t)' = "idle"
         /\ pc'[t] # "idle" /\ backend'.answer[t].status # "none" => Phase(t)' = backend'.answer[t].status
         /\ pc'[t] = "return" /\ backend'.answer[t].status = "none" => Phase(t)' = "refused"
         /\ pc'[t] \notin {"idle", "return"} /\ backend'.answer[t].status = "none" => Phase(t)' = "asked"
  BY DEF Phase

\* What a caller's phase and result depend on.
SamePhase(t) == Phase(t)' = Phase(t) /\ ResultOf(t)' = ResultOf(t)

\* A caller's phase stays while its next step, its answer and its result do.
LEMMA PhaseKept ==
  ASSUME NEW t, pc'[t] = pc[t], backend'.answer[t].status = backend.answer[t].status,
         pc[t] = "return" => req'[t].state = req[t].state
  PROVE  SamePhase(t)
<1>1. Phase(t)' = Phase(t)
  BY DEF Phase
<1> QED BY <1>1 DEF SamePhase, ResultOf, Result

\* Nothing happens to any caller's phase.
LEMMA DiskStutters ==
  ASSUME \A t \in Threads : SamePhase(t)
  PROVE  UNCHANGED AbstractDisk!diskVars
<1>1. [t \in Threads |-> Phase(t)]' = [t \in Threads |-> Phase(t)]
  BY DEF SamePhase
<1>2. [t \in Threads |-> ResultOf(t)]' = [t \in Threads |-> ResultOf(t)]
  BY DEF SamePhase
<1> QED BY <1>1, <1>2 DEF AbstractDisk!diskVars, ResultOf

\* A caller takes a step of the disk.
DiskMove(t) ==
  \/ Phase(t) = "idle" /\ Phase(t)' = "asked" /\ ResultOf(t)' = ResultOf(t)
  \/ Phase(t) = "asked" /\ Phase(t)' \in {"ok", "error"} /\ ResultOf(t)' = ResultOf(t)
  \/ Phase(t) = "asked" /\ Phase(t)' = "refused" /\ ResultOf(t)' = "error"
  \/ /\ Phase(t) \in {"ok", "error"} /\ ResultOf(t) = "none"
     /\ Phase(t)' = Phase(t) /\ ResultOf(t)' = Phase(t)
  \/ ResultOf(t) # "none" /\ Phase(t)' = "idle" /\ ResultOf(t)' = "none"

\* One caller takes a step of the disk and the others stay.
LEMMA DiskMoves ==
  ASSUME NEW t \in Threads, DiskMove(t), \A u \in Threads \ {t} : SamePhase(u)
  PROVE  AbstractDisk!DiskNext
<1>1. /\ \A u \in Threads : [v \in Threads |-> Phase(v)][u] = Phase(u)
      /\ \A u \in Threads : [v \in Threads |-> ResultOf(v)][u] = ResultOf(u)
  OBVIOUS
<1>2. [v \in Threads |-> Phase(v)]' = [[v \in Threads |-> Phase(v)] EXCEPT ![t] = Phase(t)']
  BY DEF SamePhase
<1>3. [v \in Threads |-> ResultOf(v)]' = [[v \in Threads |-> ResultOf(v)] EXCEPT ![t] = ResultOf(t)']
  BY DEF SamePhase
<1>4. /\ Phase(t)' = Phase(t) => [v \in Threads |-> Phase(v)]' = [v \in Threads |-> Phase(v)]
      /\ ResultOf(t)' = ResultOf(t) => [v \in Threads |-> ResultOf(v)]' = [v \in Threads |-> ResultOf(v)]
  BY DEF SamePhase
<1>5. CASE Phase(t) = "idle" /\ Phase(t)' = "asked" /\ ResultOf(t)' = ResultOf(t)
  <2>1. AbstractDisk!Ask(t)
    BY <1>1, <1>2, <1>4, <1>5 DEF AbstractDisk!Ask, ResultOf
  <2> QED BY <2>1 DEF AbstractDisk!DiskNext
<1>6. CASE Phase(t) = "asked" /\ Phase(t)' \in {"ok", "error"} /\ ResultOf(t)' = ResultOf(t)
  <2>1. AbstractDisk!Serve(t)
    BY <1>1, <1>2, <1>4, <1>6 DEF AbstractDisk!Serve, ResultOf
  <2> QED BY <2>1 DEF AbstractDisk!DiskNext
<1>7. CASE Phase(t) = "asked" /\ Phase(t)' = "refused" /\ ResultOf(t)' = "error"
  <2>1. AbstractDisk!Refuse(t)
    BY <1>1, <1>2, <1>3, <1>7 DEF AbstractDisk!Refuse, ResultOf
  <2> QED BY <2>1 DEF AbstractDisk!DiskNext
<1>8. CASE /\ Phase(t) \in {"ok", "error"} /\ ResultOf(t) = "none"
           /\ Phase(t)' = Phase(t) /\ ResultOf(t)' = Phase(t)
  <2>1. AbstractDisk!Learn(t)
    BY <1>1, <1>3, <1>4, <1>8 DEF AbstractDisk!Learn, ResultOf
  <2> QED BY <2>1 DEF AbstractDisk!DiskNext
<1>9. CASE ResultOf(t) # "none" /\ Phase(t)' = "idle" /\ ResultOf(t)' = "none"
  <2>1. AbstractDisk!Leave(t)
    BY <1>1, <1>2, <1>3, <1>9 DEF AbstractDisk!Leave, ResultOf
  <2> QED BY <2>1 DEF AbstractDisk!DiskNext
<1> QED BY <1>5, <1>6, <1>7, <1>8, <1>9 DEF DiskMove

\* At first no caller has asked for anything.
LEMMA DiskBegins ==
  ASSUME Init
  PROVE  AbstractDisk!DiskInit
<1>1. \A t \in Threads : Phase(t) = "idle" /\ ResultOf(t) = "none"
  BY Phases DEF Init, ResultOf
<1>2. [t \in Threads |-> Phase(t)] = [t \in Threads |-> "idle"]
  BY <1>1
<1>3. [t \in Threads |-> ResultOf(t)] = [t \in Threads |-> "none"]
  BY <1>1
<1> QED BY <1>2, <1>3 DEF AbstractDisk!DiskInit, ResultOf

\* The steps of a caller, and the answer of the backend, are steps of the disk.
LEMMA CallerDisk ==
  ASSUME BlkInv, NEW t \in Threads, blk_read(t) \/ Step(t) \/ BackendAnswers(t)
  PROVE  AbstractDisk!DiskNext \/ UNCHANGED AbstractDisk!diskVars
<1>1. PICK g \in Ghosts : Holds(g)
  BY DEF BlkInv
<1>2. BTypeOK
  BY DEF BlkInv
<1>3. Caller(g, t)
  BY <1>1 DEF Holds, BCallers
<1> DEFINE Stays(u) == pc'[u] = pc[u] /\ backend'.answer[u].status = backend.answer[u].status
                       /\ (pc[u] = "return" => req'[u].state = req[u].state)
<1>4. \A u : Stays(u) => SamePhase(u)
  BY PhaseKept
<1>5. (\A u \in Threads : Stays(u)) => UNCHANGED AbstractDisk!diskVars
  <2>1. (\A u \in Threads : Stays(u)) => \A u \in Threads : SamePhase(u)
    BY <1>4
  <2> QED BY <2>1, DiskStutters
<1>6. DiskMove(t) /\ (\A u \in Threads \ {t} : Stays(u)) => AbstractDisk!DiskNext
  <2>1. (\A u \in Threads \ {t} : Stays(u)) => \A u \in Threads \ {t} : SamePhase(u)
    BY <1>4
  <2> QED BY <2>1, DiskMoves
<1>7. SamePhase(t) /\ (\A u \in Threads \ {t} : Stays(u)) => UNCHANGED AbstractDisk!diskVars
  <2>1. SamePhase(t) /\ (\A u \in Threads \ {t} : Stays(u)) => \A u \in Threads : SamePhase(u)
    BY <1>4
  <2> QED BY <2>1, DiskStutters
<1>8. CASE blk_read(t)
  <2>1. /\ pc[t] = "idle" /\ pc' = [pc EXCEPT ![t] = "ready"] /\ backend' = backend
        /\ \A u \in Threads \ {t} : req'[u] = req[u]
    BY <1>2, <1>8 DEF blk_read, At, GoTo, BTypeOK
  <2>2. DiskMove(t)
    BY <1>2, <1>3, <2>1, Phases DEF DiskMove, ResultOf, Caller, BTypeOK
  <2> QED BY <1>2, <1>6, <2>1, <2>2 DEF BTypeOK
<1>9. CASE wait_for_device_ready(t) \/ ReadyWait(t)
  <2>1. /\ pc[t] \in {"ready", "ready_wait"} /\ backend' = backend /\ req' = req
        /\ pc' = pc \/ \E s \in {"ready", "ready_wait"} : pc' = [pc EXCEPT ![t] = s]
    BY <1>9 DEF wait_for_device_ready, ReadyWait, WaitFor, At, GoTo
  <2>2. SamePhase(t)
    BY <1>2, <1>3, <2>1, Phases DEF SamePhase, ResultOf, Caller, BTypeOK
  <2> QED BY <1>2, <1>7, <2>1, <2>2 DEF BTypeOK
<1>10. CASE blk_do_io(t)
  <2>1. pc[t] = "ready" /\ backend' = backend
    BY <1>10, Zenon DEF blk_do_io, At
  <2>2. NoId(t) \/ NoGrant(t) \/ Submit(t, get_freelist_id)
    BY <1>10 DEF blk_do_io
  <2>3. CASE NoId(t)
    <3>1. pc' = [pc EXCEPT ![t] = "return"] /\ req' = req
      BY <2>3 DEF NoId, GoTo
    <3>2. Phase(t) = "asked" /\ Phase(t)' = "refused" /\ ResultOf(t)' = "error"
      BY <1>2, <1>3, <2>1, <3>1, Phases DEF ResultOf, Result, Caller, BTypeOK
    <3> QED BY <1>2, <1>6, <2>1, <3>1, <3>2 DEF DiskMove, BTypeOK
  <2>4. CASE NoGrant(t)
    BY <1>5, <2>1, <2>4 DEF NoGrant
  <2>5. CASE Submit(t, get_freelist_id)
    <3>1. pc' = [pc EXCEPT ![t] = "notify"] /\ req' = [req EXCEPT ![t].state = "BLK_SUBMITTED"]
      BY <2>5, Zenon DEF Submit, GoTo
    <3>2. SamePhase(t)
      BY <1>2, <1>3, <2>1, <3>1, Phases DEF SamePhase, ResultOf, Caller, BTypeOK
    <3> QED BY <1>2, <1>7, <2>1, <3>1, <3>2 DEF BTypeOK
  <2> QED BY <2>2, <2>3, <2>4, <2>5
<1>11. CASE CheckNotify(t)
  <2>1. /\ pc[t] = "notify" /\ pc' = [pc EXCEPT ![t] = "io_wait"] /\ req' = req
        /\ backend'.answer = backend.answer
    BY <1>2, <1>11 DEF CheckNotify, At, GoTo, BTypeOK, Backends
  <2>2. SamePhase(t)
    BY <1>2, <2>1, Phases DEF SamePhase, ResultOf, BTypeOK
  <2> QED BY <1>2, <1>7, <2>1, <2>2 DEF BTypeOK
<1>12. CASE wait_for_completion(t)
  <2>1. pc[t] = "io_wait" /\ backend' = backend /\ req' = req
    BY <1>12 DEF wait_for_completion, At
  <2>2. CASE done[t] > 0 /\ pc' = [pc EXCEPT ![t] = "return"]
    <3>1. Matches(t)
      <4>1. \A i \in Window(g) : Owner(g, i) # t
        BY <1>1, <2>2 DEF Holds, BRequests, Requested
      <4> QED BY <1>3, <2>1, <4>1 DEF Caller
    <3>2. DiskMove(t)
      BY <1>2, <2>1, <2>2, <3>1, Phases DEF DiskMove, ResultOf, Result, Matches, BTypeOK
    <3> QED BY <1>2, <1>6, <2>1, <2>2, <3>2 DEF BTypeOK
  <2>3. CASE pc' = pc
    BY <1>5, <2>1, <2>3
  <2> QED BY <1>12, <2>2, <2>3 DEF wait_for_completion, WaitFor, GoTo
<1>13. CASE Return(t)
  <2>1. /\ pc[t] = "return" /\ pc' = [pc EXCEPT ![t] = "idle"]
        /\ \A u \in Threads \ {t} : req'[u] = req[u] /\ backend'.answer[u] = backend.answer[u]
    BY <1>2, <1>13 DEF Return, At, GoTo, BTypeOK, Backends
  <2>2. DiskMove(t)
    BY <1>2, <2>1, Phases DEF DiskMove, ResultOf, Result, BTypeOK
  <2> QED BY <1>2, <1>6, <2>1, <2>2 DEF BTypeOK
<1>14. CASE BackendAnswers(t)
  <2>1. PICK e \in backend.taken, ok \in BOOLEAN :
          /\ e.thread = t /\ UNCHANGED <<pc, req>>
          /\ backend' = [backend EXCEPT !.taken = backend.taken \ {e},
                           !.answer[t] = [status |-> IF ok THEN "ok" ELSE "error", sectors |-> e.sectors]]
    BY <1>14, Zenon DEF BackendAnswers
  <2>2. PICK i \in Window(g) : e = Asked(g.order[i]) /\ Requested(g, i) /\ IsTaken(g, i)
    <3>1. PICK i \in g.answered..(g.taken - 1) : e = Asked(g.order[i])
      BY <1>1 DEF Holds, BProgress
    <3>2. i \in Window(g)
      BY <1>1, <1>2, Positions
    <3> QED BY <1>1, <3>1, <3>2 DEF Holds, BRequests, BProgress
  <2>3. pc[t] \in {"notify", "io_wait"} /\ backend.answer[t].status = "none"
    <3>1. t = Owner(g, i)
      <4>1. Asked(g.order[i]).thread = Owner(g, i)
        BY DEF Asked, NoEntry, Owner, Shadow
      <4> QED BY <2>1, <2>2, <4>1
    <3> QED BY <2>2, <3>1 DEF Requested, IsTaken
  <2>4. /\ backend'.answer[t].status = IF ok THEN "ok" ELSE "error"
        /\ \A u \in Threads \ {t} : backend'.answer[u] = backend.answer[u]
    BY <1>2, <2>1 DEF BTypeOK, Backends
  <2>5. DiskMove(t)
    BY <2>1, <2>3, <2>4, Phases DEF DiskMove, ResultOf
  <2> QED BY <1>6, <2>1, <2>4, <2>5
<1> QED BY <1>8, <1>9, <1>10, <1>11, <1>12, <1>13, <1>14 DEF Step

\* The other steps are none of the disk's.
LEMMA OthersDisk ==
  ASSUME BlkInv, HandlerStep \/ InitStep \/ BackendStep
  PROVE  UNCHANGED AbstractDisk!diskVars
<1>1. BTypeOK /\ BLock
  BY DEF BlkInv
<1>2. PICK g \in Ghosts : Holds(g)
  BY DEF BlkInv
<1>3. ASSUME UNCHANGED pc, backend'.answer = backend.answer, \A u \in Threads : pc[u] = "return" => req'[u] = req[u]
      PROVE  UNCHANGED AbstractDisk!diskVars
  <2>1. \A u \in Threads : SamePhase(u)
    BY <1>3, PhaseKept
  <2> QED BY <2>1, DiskStutters
<1>4. CASE TakeResponse
  <2>1. handler.pc = "loop" /\ handler.cons # handler.prod /\ UNCHANGED <<pc, backend>>
    BY <1>4, Zenon DEF TakeResponse, HandlerAt
  <2>2. PICK t : t = Owner(g, g.cons) /\ t = shadows[ring.slots[Slot(handler.cons)].id].thread /\ pc[t] = "io_wait"
    BY <1>1, <1>2, <2>1, NextResponse DEF Owner, Shadow
  <2>3. req' = req \/ \E s : req' = [req EXCEPT ![t].state = s]
    BY <1>4, <2>2, Zenon DEF TakeResponse
  <2>4. \A u \in Threads : pc[u] = "return" => req'[u] = req[u]
    <3>1. \A u \in Threads : pc[u] = "return" => u # t /\ u \in DOMAIN req
      BY <1>1, <2>2 DEF BTypeOK
    <3> QED BY <2>3, <3>1
  <2> QED BY <1>3, <2>1, <2>4
<1>5. CASE __blk_front_handler \/ complete_callback \/ EndOfLoop \/ AskEvent \/ RING_FINAL_CHECK
  <2>1. UNCHANGED <<pc, req, backend>>
    BY <1>5 DEF __blk_front_handler, complete_callback, EndOfLoop, AskEvent, RING_FINAL_CHECK
  <2> QED BY <1>3, <2>1
<1>6. CASE InitStep
  <2>1. UNCHANGED <<pc, req, backend>>
    BY <1>6 DEF InitStep, blk_explore, ExploreAgain, Connect, post_connect, AllReady, blkfront_thread
  <2> QED BY <1>3, <2>1
<1>7. CASE BackendStep
  <2>1. UNCHANGED <<pc, req>>
    BY <1>7 DEF BackendStep, BackendTakes, BackendAsks, BackendSleeps
  <2>2. backend'.answer = backend.answer
    BY <1>1, <1>7 DEF BackendStep, BackendTakes, BackendAsks, BackendSleeps, BTypeOK, Backends
  <2> QED BY <1>3, <2>1, <2>2
<1> QED BY <1>4, <1>5, <1>6, <1>7 DEF HandlerStep

\* The driver implements the abstract disk: every request is served at most once, and
\* a call reports success exactly when its own request was served with success
\* (blk_do_io, blk_front_handler, blk_shadow_complete).
THEOREM DriverImplementsDisk == Spec => ImplementsDisk
<1>1. Init => AbstractDisk!DiskInit
  BY DiskBegins
<1>2. BlkInv /\ [Next]_vars => [AbstractDisk!DiskNext]_(AbstractDisk!diskVars)
  <2> SUFFICES ASSUME BlkInv, [Next]_vars PROVE AbstractDisk!DiskNext \/ UNCHANGED AbstractDisk!diskVars
    OBVIOUS
  <2>1. CASE UNCHANGED vars
    <3>1. \A u \in Threads : SamePhase(u)
      BY <2>1, PhaseKept DEF vars
    <3> QED BY <3>1, DiskStutters
  <2> QED BY <2>1, CallerDisk, OthersDisk DEF Next
<1> QED BY <1>1, <1>2, BlkInvHolds, PTL DEF Spec, ImplementsDisk, AbstractDisk!DiskSpec
=============================================================================
