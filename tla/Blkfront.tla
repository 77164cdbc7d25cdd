------------------------------ MODULE Blkfront ------------------------------
(***************************************************************************)
(* The block front end (blkfront.c) with the completions (sched.c) and the *)
(* grants (gnttab.c) it uses, and the backend behind its ring.             *)
(*                                                                         *)
(* A caller waits until the device is ready, takes a request id, grants    *)
(* its pages, puts the request on the ring and waits on a completion in    *)
(* its own stack frame.  The event handler takes responses, ends the       *)
(* grants, frees the id and completes the request.  A step is the body of  *)
(* one section of dev->lock or of a completion's lock, cut where the       *)
(* backend can see the difference.  A slot of the ring is emptied when its *)
(* content has been read.                                                  *)
(***************************************************************************)
EXTENDS Integers, Sequences, FiniteSets, FiniteSetsExt

CONSTANTS
  Threads,           \* callers of blk_read and blk_write
  NoThread,
  Handler,           \* the event handler, as a holder of dev->lock
  NR_GRANT_ENTRIES,  \* grant references 1..NR_GRANT_ENTRIES; reserved ones are left out
  SECTORS_PER_PAGE,
  ALL_DONE,          \* bound: stands for UINT_MAX/2 of complete_all
  Workloads          \* the ring size, each thread's kind and bound of calls, and
                     \* whether calls come before blk_initialised is set

ASSUME ThreadsAssumption ==
  IsFiniteSet(Threads) /\ NoThread \notin Threads /\ Handler \notin Threads \cup {NoThread}
ASSUME SizesAssumption ==
  /\ NR_GRANT_ENTRIES \in Nat \ {0} /\ SECTORS_PER_PAGE \in Nat \ {0}
  /\ ALL_DONE \in Nat /\ ALL_DONE > Cardinality(Threads)
ASSUME WorkloadsAssumption ==
  Workloads \subseteq
    [ring : Nat \ {0, 1}, calls : [Threads -> Nat], early : BOOLEAN,
     kind : [Threads -> [op : {"read", "write"}, size : Nat \ {0}, bounce : BOOLEAN]]]

VARIABLES
  state,       \* dev->state
  lock,        \* the holder of dev->lock
  ring,        \* dev->ring and the shared page
  freelist, shadows,
  gnttab,      \* per reference: "free", "granted" or "in_use" by the backend
  pc, req,     \* each caller's next step and its struct blk_request
  done,        \* comp->done of each caller's completion
  ready,       \* ready_completion.done
  blocked,     \* callers without RUNNABLE_FLAG
  init,        \* the next step of blkfront_thread
  handler,     \* the handler's next step, cons and prod
  event,       \* is the event channel pending?
  backend,     \* external: what the backend has taken, answered; is it awake?
  workload, halt

reqVars == <<freelist, shadows, gnttab>>
waitVars == <<done, ready, blocked>>
vars == <<state, lock, ring, reqVars, pc, req, waitVars, init, handler, event,
          backend, workload, halt>>

BLK_RING_SIZE == workload.ring
Ids  == 0..(BLK_RING_SIZE - 1)
Refs == 1..NR_GRANT_ENTRIES

\* Mutant: the indices wrap at the size of the ring.
Plus1_narrow(i) == (i + 1) % BLK_RING_SIZE

\* Ring indices wrap, at 2^32 in the code.
Plus1(i) == (i + 1) % (2 * BLK_RING_SIZE)
Sub(i, j) == (i - j) % (2 * BLK_RING_SIZE)
Slot(i) == i % BLK_RING_SIZE

NoRequest == [thread |-> NoThread, grefs |-> {}, free |-> TRUE]
NoAnswer == [status |-> "none", sectors |-> 0]
NoEntry == [id |-> 0, thread |-> NoThread, grefs |-> {}, sectors |-> 0, ok |-> FALSE]

Init ==
  /\ workload \in Workloads
  /\ state = "ST_UNKNOWN"
  /\ lock = NoThread
  /\ ring = [req_prod_pvt |-> 0, rsp_cons |-> 0, req_prod |-> 0, rsp_prod |-> 0,
             req_event |-> 1, rsp_event |-> 1, slots |-> [i \in Ids |-> NoEntry]]
  /\ freelist = [i \in Ids |-> 0]
  /\ shadows = [i \in Ids |-> NoRequest]
  /\ gnttab = [r \in Refs |-> "free"]
  /\ pc = [t \in Threads |-> "idle"]
  /\ req = [t \in Threads |-> [state |-> "BLK_EMPTY", bounce |-> FALSE]]
  /\ done = [t \in Threads |-> 0]
  /\ ready = 0
  /\ blocked = {}
  /\ init = "explore"
  /\ handler = [pc |-> "idle", cons |-> 0, prod |-> 0, thread |-> NoThread]
  /\ event = FALSE
  /\ backend = [req_cons |-> 0, taken |-> {}, pc |-> "asleep",
                answer |-> [t \in Threads |-> NoAnswer]]
  /\ halt = "none"

-----------------------------------------------------------------------------
(* Request ids and grants *)

\* The free list is linked through the array; entry 0 is its head and its end.
get_freelist_id == freelist[0]

Taken(l) == [l EXCEPT ![0] = l[l[0]]]
add_id_freelist(l, id) == [l EXCEPT ![id] = l[0], ![0] = id]

\* Adding the ids 0, 1, ... in turn to a list of zeros.
init_buffers == [i \in Ids |-> IF i = 0 THEN BLK_RING_SIZE - 1 ELSE i - 1]

FreeRefs == {r \in Refs : gnttab[r] = "free"}

\* n references off the free list; which ones makes no difference.
get_free_entries(n) == CHOOSE s \in SUBSET FreeRefs : Cardinality(s) = n

\* gnttab_end_access: a reference in use stays granted and off the free list.
gnttab_end_access(s) ==
  [r \in Refs |-> IF r \in s /\ gnttab[r] = "granted" THEN "free" ELSE gnttab[r]]

-----------------------------------------------------------------------------
(* Completions *)

At(t, s) == halt = "none" /\ pc[t] = s /\ t \notin blocked
GoTo(t, s) == pc' = [pc EXCEPT ![t] = s]

\* wait_for_completion: the test and block() are one section of the lock, so a
\* thread that is woken tests again.
WaitFor(t, count, next) ==
  \/ count > 0 /\ GoTo(t, next) /\ UNCHANGED blocked
  \/ count = 0 /\ blocked' = blocked \cup {t} /\ UNCHANGED pc

complete_all ==
  /\ ready' = ALL_DONE
  /\ blocked' = {t \in blocked : pc[t] # "ready_wait"}
  /\ UNCHANGED done

complete(t) ==
  /\ done' = [done EXCEPT ![t] = 1]
  /\ blocked' = blocked \ {t}
  /\ UNCHANGED ready

-----------------------------------------------------------------------------
(* blk_read and blk_write *)

num_pages(size) == (size + SECTORS_PER_PAGE - 1) \div SECTORS_PER_PAGE
end_sector(size) == size - SECTORS_PER_PAGE * (num_pages(size) - 1) - 1

\* The sectors the segments of a request name: with several pages, end_sector is
\* stored behind the last segment and every segment is a whole page.
Sectors(size) ==
  IF num_pages(size) = 1 THEN end_sector(size) + 1 ELSE SECTORS_PER_PAGE * num_pages(size)

\* A caller enters blk_read or blk_write.
blk_read(t) ==
  /\ At(t, "idle") /\ workload.calls[t] > 0
  /\ workload.early \/ init = "initialised"
  /\ workload' = [workload EXCEPT !.calls[t] = @ - 1]
  /\ req' = [req EXCEPT ![t] = [state |-> "BLK_EMPTY", bounce |-> workload.kind[t].bounce]]
  /\ GoTo(t, "ready")
  /\ UNCHANGED <<state, lock, ring, reqVars, waitVars, init, handler, event,
                 backend, halt>>

\* The device is not ready: wait for ready_completion and look again.
wait_for_device_ready(t) ==
  /\ At(t, "ready")
  /\ lock = NoThread /\ state # "ST_READY"
  /\ GoTo(t, "ready_wait")
  /\ UNCHANGED <<state, lock, ring, reqVars, req, waitVars, init, handler, event,
                 backend, workload, halt>>

ReadyWait(t) ==
  /\ At(t, "ready_wait")
  /\ WaitFor(t, ready, "ready")
  /\ ready' = Max({ready - 1, 0})
  /\ UNCHANGED <<state, lock, ring, reqVars, req, done, init, handler, event,
                 backend, workload, halt>>

\* No id is left: the call fails without a request.
NoId(t) ==
  /\ shadows' = [shadows EXCEPT ![0].free = FALSE]
  /\ GoTo(t, "return")
  /\ UNCHANGED <<freelist, gnttab, ring, req, lock, halt>>

\* The pages are granted, and the request is put on the ring and published.
Submit(t, id) ==
  LET size  == workload.kind[t].size
      grefs == get_free_entries(num_pages(size))
      entry == [NoEntry EXCEPT !.id = id, !.thread = t, !.grefs = grefs,
                               !.sectors = Sectors(size)]
      prod  == ring.req_prod_pvt
  IN  /\ freelist' = Taken(freelist)
      /\ shadows' = [shadows EXCEPT ![id] = [thread |-> t, grefs |-> grefs, free |-> FALSE]]
      /\ gnttab' = [r \in Refs |-> IF r \in grefs THEN "granted" ELSE gnttab[r]]
      /\ ring' = [ring EXCEPT !.slots[Slot(prod)] = entry,
                              !.req_prod_pvt = Plus1(prod), !.req_prod = Plus1(prod)]
      /\ req' = [req EXCEPT ![t].state = "BLK_SUBMITTED"]
      /\ lock' = t
      /\ GoTo(t, "notify")
      /\ UNCHANGED halt

\* get_free_entry finds no reference.
NoGrant(t) ==
  /\ halt' = "no_grant"
  /\ UNCHANGED <<pc, freelist, shadows, gnttab, ring, req, lock>>

\* Under dev->lock: init_completion and blk_do_io up to the new req_prod.
blk_do_io(t) ==
  LET id == get_freelist_id
      n  == num_pages(workload.kind[t].size)
  IN  /\ At(t, "ready")
      /\ lock = NoThread /\ state = "ST_READY"
      /\ done' = [done EXCEPT ![t] = 0]
      /\ \/ id = 0 /\ NoId(t)
         \/ id # 0 /\ IF Cardinality(FreeRefs) < n THEN NoGrant(t) ELSE Submit(t, id)
      /\ UNCHANGED <<state, ready, blocked, init, handler, event, backend, workload>>

\* The second half of RING_PUSH_REQUESTS_AND_CHECK_NOTIFY, for one new request,
\* and the release of dev->lock.
CheckNotify(t) ==
  /\ At(t, "notify")
  /\ backend' = IF Sub(ring.req_prod, ring.req_event) < 1
                  THEN [backend EXCEPT !.pc = "awake"] ELSE backend
  /\ lock' = NoThread
  /\ GoTo(t, "io_wait")
  /\ UNCHANGED <<state, ring, reqVars, req, waitVars, init, handler, event, workload, halt>>

wait_for_completion(t) ==
  /\ At(t, "io_wait")
  /\ WaitFor(t, done[t], "return")
  /\ done' = [done EXCEPT ![t] = 0]
  /\ UNCHANGED <<state, lock, ring, reqVars, req, ready, init, handler, event,
                 backend, workload, halt>>

\* Mutant: whatever was submitted has succeeded.
Result_submitted(t) == IF req[t].state # "BLK_EMPTY" THEN "ok" ELSE "error"

\* What the call returns.
Result(t) == IF req[t].state = "BLK_DONE_SUCCESS" THEN "ok" ELSE "error"

\* The call returns.  A bounce buffer is freed, except by a read that got no id.
Return(t) ==
  /\ At(t, "return")
  /\ req' = [req EXCEPT ![t] =
       [state  |-> "BLK_EMPTY",
        bounce |-> @.bounce /\ workload.kind[t].op = "read" /\ @.state = "BLK_EMPTY"]]
  /\ backend' = [backend EXCEPT !.answer[t] = NoAnswer]
  /\ GoTo(t, "idle")
  /\ UNCHANGED <<state, lock, ring, reqVars, waitVars, init, handler, event,
                 workload, halt>>

-----------------------------------------------------------------------------
(* The event handler; the port is masked while it runs, so there is one *)

\* An event is taken; one that comes before the device is ready is dropped.
__blk_front_handler ==
  /\ halt = "none" /\ handler.pc = "idle"
  /\ event /\ lock = NoThread
  /\ event' = FALSE
  /\ \/ /\ state = "ST_READY"
        /\ lock' = Handler
        /\ handler' = [handler EXCEPT !.pc = "loop", !.cons = ring.rsp_cons,
                                      !.prod = ring.rsp_prod]
     \/ state # "ST_READY" /\ UNCHANGED <<lock, handler>>
  /\ UNCHANGED <<state, ring, reqVars, pc, req, waitVars, init, backend, workload, halt>>

HandlerAt(s) == halt = "none" /\ handler.pc = s

\* Mutant: the handler frees the id and completes without ending the grants.
TakeResponse_keeps_grants ==
  LET rsp == ring.slots[Slot(handler.cons)]
      t   == shadows[rsp.id].thread
  IN  /\ HandlerAt("loop") /\ handler.cons # handler.prod
      /\ freelist' = add_id_freelist(freelist, rsp.id)
      /\ shadows' = [shadows EXCEPT ![rsp.id] = NoRequest]
      /\ req' = [req EXCEPT ![t].state =
                   IF rsp.ok THEN "BLK_DONE_SUCCESS" ELSE "BLK_DONE_ERROR"]
      /\ handler' = [handler EXCEPT !.pc = "callback", !.thread = t]
      /\ ring' = [ring EXCEPT !.slots[Slot(handler.cons)] = NoEntry]
      /\ UNCHANGED <<state, lock, gnttab, pc, waitVars, init, event, backend,
                     workload, halt>>

\* One response: the grants end, the id is free again, the request is done.
TakeResponse ==
  LET rsp    == ring.slots[Slot(handler.cons)]
      shadow == shadows[rsp.id]
      t      == shadow.thread
      bug    == shadow.free \/ t = NoThread \/ req[t].state # "BLK_SUBMITTED"
  IN  /\ HandlerAt("loop") /\ handler.cons # handler.prod
      /\ IF bug
           THEN /\ halt' = "response"
                /\ UNCHANGED <<reqVars, req, handler>>
           ELSE /\ gnttab' = gnttab_end_access(shadow.grefs)
                /\ freelist' = add_id_freelist(freelist, rsp.id)
                /\ shadows' = [shadows EXCEPT ![rsp.id] = NoRequest]
                /\ req' = [req EXCEPT ![t].state =
                             IF rsp.ok THEN "BLK_DONE_SUCCESS" ELSE "BLK_DONE_ERROR"]
                /\ handler' = [handler EXCEPT !.pc = "callback", !.thread = t]
                /\ UNCHANGED halt
      /\ ring' = [ring EXCEPT !.slots[Slot(handler.cons)] = NoEntry]
      /\ UNCHANGED <<state, lock, pc, waitVars, init, event, backend, workload>>

\* complete_callback: the completion lives in the frame of a caller that waits.
complete_callback ==
  LET t == handler.thread IN
  /\ HandlerAt("callback")
  /\ complete(t)
  /\ halt' = IF pc[t] = "io_wait" THEN halt ELSE "stale_completion"
  /\ handler' = [handler EXCEPT !.pc = "loop", !.cons = Plus1(@), !.thread = NoThread]
  /\ UNCHANGED <<state, lock, ring, reqVars, pc, req, init, event, backend, workload>>

HandlerEnds == [handler EXCEPT !.pc = "idle", !.cons = 0, !.prod = 0]

\* The responses up to prod are taken.  If no request is in flight, ask for an
\* event; otherwise look for more first.
EndOfLoop ==
  LET idle == handler.cons = ring.req_prod_pvt
      more == ring.rsp_prod # handler.cons
  IN  /\ HandlerAt("loop") /\ handler.cons = handler.prod
      /\ ring' = [ring EXCEPT !.rsp_cons = handler.cons,
                              !.rsp_event = IF idle THEN Plus1(handler.cons) ELSE @]
      /\ \/ idle /\ handler' = HandlerEnds /\ lock' = NoThread
         \/ ~idle /\ more /\ handler' = [handler EXCEPT !.prod = ring.rsp_prod] /\ UNCHANGED lock
         \/ ~idle /\ ~more /\ handler' = [handler EXCEPT !.pc = "ask"] /\ UNCHANGED lock
      /\ UNCHANGED <<state, reqVars, pc, req, waitVars, init, event, backend, workload, halt>>

AskEvent ==
  /\ HandlerAt("ask")
  /\ ring' = [ring EXCEPT !.rsp_event = Plus1(ring.rsp_cons)]
  /\ handler' = [handler EXCEPT !.pc = "recheck"]
  /\ UNCHANGED <<state, lock, reqVars, pc, req, waitVars, init, event, backend,
                 workload, halt>>

\* Mutant: no second look after asking for an event.
RING_FINAL_CHECK_none ==
  /\ HandlerAt("recheck")
  /\ handler' = HandlerEnds
  /\ lock' = NoThread
  /\ UNCHANGED <<state, ring, reqVars, pc, req, waitVars, init, event, backend, workload, halt>>

\* The second look of RING_FINAL_CHECK_FOR_RESPONSES.
RING_FINAL_CHECK ==
  /\ HandlerAt("recheck")
  /\ \/ /\ ring.rsp_prod # ring.rsp_cons
        /\ handler' = [handler EXCEPT !.pc = "loop", !.prod = ring.rsp_prod]
        /\ UNCHANGED lock
     \/ /\ ring.rsp_prod = ring.rsp_cons
        /\ handler' = HandlerEnds
        /\ lock' = NoThread
  /\ UNCHANGED <<state, ring, reqVars, pc, req, waitVars, init, event, backend, workload, halt>>

-----------------------------------------------------------------------------
(* blkfront_thread; what the store and Xen answer it is external *)

InitAt(s) == halt = "none" /\ init = s

\* Are there devices?  If the directory cannot be read, wait for the watch.
blk_explore ==
  /\ InitAt("explore")
  /\ \/ init' = "watch" /\ UNCHANGED freelist
     \/ init' \in {"all", "connect"} /\ freelist' = init_buffers
  /\ UNCHANGED <<state, lock, ring, shadows, gnttab, pc, req, waitVars, handler,
                 event, backend, workload, halt>>

\* The watch fires: everybody who waits is woken before the next try.
ExploreAgain ==
  /\ InitAt("watch")
  /\ complete_all
  /\ init' = "explore"
  /\ UNCHANGED <<state, lock, ring, reqVars, pc, req, handler, event, backend,
                 workload, halt>>

\* The ring's page is granted and the backend told, which connects or does not;
\* the steps before the grant may fail too.
Connect ==
  /\ InitAt("connect")
  /\ \/ /\ \E r \in get_free_entries(1) : gnttab' = [gnttab EXCEPT ![r] = "in_use"]
        /\ init' \in {"all", "post_connect"}
     \/ init' = "all" /\ UNCHANGED gnttab
  /\ UNCHANGED <<state, lock, ring, freelist, shadows, pc, req, waitVars, handler,
                 event, backend, workload, halt>>

post_connect ==
  /\ InitAt("post_connect") /\ lock = NoThread
  /\ state' = "ST_READY"
  /\ init' = "all"
  /\ UNCHANGED <<lock, ring, reqVars, pc, req, waitVars, handler, event, backend,
                 workload, halt>>

\* The end of blk_init.
AllReady ==
  /\ InitAt("all")
  /\ complete_all
  /\ init' = "wait"
  /\ UNCHANGED <<state, lock, ring, reqVars, pc, req, handler, event, backend,
                 workload, halt>>

\* wait_for_init, and blk_initialised is set.
blkfront_thread ==
  /\ InitAt("wait") /\ ready > 0
  /\ ready' = ready - 1
  /\ init' = "initialised"
  /\ UNCHANGED <<state, lock, ring, reqVars, pc, req, done, blocked, handler, event,
                 backend, workload, halt>>

-----------------------------------------------------------------------------
(* The backend (external): it takes requests while it is awake, asks for an *)
(* event before it sleeps, unmaps the pages of a request before it answers *)
(* it, and answers in any order.                                           *)

Unconsumed == backend.req_cons # ring.req_prod

BackendTakes ==
  LET entry == ring.slots[Slot(backend.req_cons)] IN
  /\ halt = "none" /\ backend.pc = "awake" /\ Unconsumed
  /\ backend' = [backend EXCEPT !.taken = @ \cup {entry}, !.req_cons = Plus1(@)]
  /\ gnttab' = [r \in Refs |-> IF r \in entry.grefs THEN "in_use" ELSE gnttab[r]]
  /\ ring' = [ring EXCEPT !.slots[Slot(backend.req_cons)] = NoEntry]
  /\ UNCHANGED <<state, lock, freelist, shadows, pc, req, waitVars, init, handler,
                 event, workload, halt>>

BackendAsks ==
  /\ halt = "none" /\ backend.pc = "awake" /\ ~Unconsumed
  /\ ring' = [ring EXCEPT !.req_event = Plus1(backend.req_cons)]
  /\ backend' = [backend EXCEPT !.pc = "check"]
  /\ UNCHANGED <<state, lock, reqVars, pc, req, waitVars, init, handler, event,
                 workload, halt>>

BackendSleeps ==
  /\ halt = "none" /\ backend.pc = "check"
  /\ backend' = [backend EXCEPT !.pc = IF Unconsumed THEN "awake" ELSE "asleep"]
  /\ UNCHANGED <<state, lock, ring, reqVars, pc, req, waitVars, init, handler,
                 event, workload, halt>>

\* Thread t's request is answered.
BackendAnswers(t) ==
  \E entry \in backend.taken, ok \in BOOLEAN :
    /\ halt = "none"
    /\ entry.thread = t
    /\ gnttab' = [r \in Refs |-> IF r \in entry.grefs THEN "granted" ELSE gnttab[r]]
    /\ ring' = [ring EXCEPT !.slots[Slot(ring.rsp_prod)] = [NoEntry EXCEPT !.id = entry.id, !.ok = ok],
                            !.rsp_prod = Plus1(@)]
    /\ event' = (event \/ Sub(Plus1(ring.rsp_prod), ring.rsp_event) < 1)
    /\ backend' = [backend EXCEPT !.taken = @ \ {entry},
                     !.answer[t] = [status |-> IF ok THEN "ok" ELSE "error",
                                    sectors |-> entry.sectors]]
    /\ UNCHANGED <<state, lock, freelist, shadows, pc, req, waitVars, init, handler,
                   workload, halt>>

-----------------------------------------------------------------------------

Step(t) ==
  \/ wait_for_device_ready(t)
  \/ ReadyWait(t)
  \/ blk_do_io(t)
  \/ CheckNotify(t)
  \/ wait_for_completion(t)
  \/ Return(t)

HandlerStep ==
  \/ __blk_front_handler
  \/ TakeResponse
  \/ complete_callback
  \/ EndOfLoop
  \/ AskEvent
  \/ RING_FINAL_CHECK

InitStep ==
  \/ blk_explore
  \/ ExploreAgain
  \/ Connect
  \/ post_connect
  \/ AllReady
  \/ blkfront_thread

BackendStep == BackendTakes \/ BackendAsks \/ BackendSleeps

Next ==
  \/ \E t \in Threads : blk_read(t) \/ Step(t) \/ BackendAnswers(t)
  \/ HandlerStep
  \/ InitStep
  \/ BackendStep

Spec == Init /\ [][Next]_vars

\* Threads run, events are delivered, and the backend serves every request.
FairSpec ==
  /\ Spec
  /\ \A t \in Threads : WF_vars(Step(t)) /\ WF_vars(BackendAnswers(t))
  /\ WF_vars(HandlerStep) /\ WF_vars(InitStep) /\ WF_vars(BackendStep)

-----------------------------------------------------------------------------
(* Properties *)

\* The assertions of blk_front_handler and get_free_entry hold, and the handler
\* never touches the frame of a caller that has gone on.
NoBug == halt = "none"

\* The requests that have not been answered and the responses that have not been
\* taken fit on the ring, and the slots of the former are intact.
RingNotOverrun ==
  /\ Sub(ring.req_prod_pvt, ring.rsp_cons) <= BLK_RING_SIZE
  /\ \A i \in 0..(Sub(ring.req_prod, backend.req_cons) - 1) :
       LET entry == ring.slots[Slot(backend.req_cons + i)]
       IN  ~shadows[entry.id].free /\ shadows[entry.id].thread = entry.thread

InFlight == {i \in Ids \ {0} : ~shadows[i].free}

\* The references that are not free are the ring's and those of the requests in
\* flight, each in one request: grants are neither leaked nor shared.
GrantsBalance ==
  LET granted == Refs \ FreeRefs
      own     == UNION {shadows[i].grefs : i \in InFlight}
  IN  /\ own \subseteq granted
      /\ \A i, j \in InFlight : i # j => shadows[i].grefs \cap shadows[j].grefs = {}
      /\ Cardinality(granted \ own) = IF state = "ST_READY" THEN 1
                                      ELSE Cardinality(granted)

\* The backend may read or write the pages of a request only while its caller
\* waits: no buffer is returned, or freed, under the backend's hands.
BuffersHeldWhileShared ==
  \A entry \in backend.taken :
    /\ pc[entry.thread] \in {"notify", "io_wait"}
    /\ done[entry.thread] = 0
    /\ req[entry.thread].state = "BLK_SUBMITTED"

\* What a caller's buffer or the disk has received when the call succeeds: from a
\* bounce buffer, blk_read copies the size that is left for the last page.
Delivered(t) ==
  LET k == workload.kind[t]
  IN  IF k.op = "read" /\ k.bounce THEN end_sector(k.size) + 1
      ELSE backend.answer[t].sectors

\* A call within one page moves exactly the sectors it asks for.
OnePageExact ==
  \A t \in Threads :
    /\ pc[t] = "return" /\ req[t].state = "BLK_DONE_SUCCESS"
    /\ num_pages(workload.kind[t].size) = 1
    => Delivered(t) = workload.kind[t].size

\* The ring holds what is in flight, and no response finds its request, its
\* caller or a reference gone (blk_front_handler, blk_front_submit).
RingIsSound == NoBug /\ RingNotOverrun

\* A buffer is lent to the backend for one request and until it is answered, by
\* grants that are ended then, and one of a page is moved exactly
\* (blk_front_submit, blk_shadow_complete).
BuffersAreLent == GrantsBalance /\ BuffersHeldWhileShared /\ OnePageExact

\* The driver implements the abstract disk.
Phase(t) ==
  CASE pc[t] = "idle" -> "idle"
    [] pc[t] # "idle" /\ backend.answer[t].status # "none" -> backend.answer[t].status
    [] pc[t] = "return" /\ backend.answer[t].status = "none" -> "refused"
    [] OTHER -> "asked"

AbstractDisk == INSTANCE Disk
  WITH phase  <- [t \in Threads |-> Phase(t)],
       result <- [t \in Threads |-> IF pc[t] = "return" THEN Result(t) ELSE "none"]

ImplementsDisk == AbstractDisk!DiskSpec

\* A request that was submitted is completed and its call returns, and a caller
\* that waits for the device goes on once it is ready.
CallCompletes ==
  \A t \in Threads :
    /\ (pc[t] = "io_wait") ~> (pc[t] = "idle")
    /\ (pc[t] = "ready_wait" /\ state = "ST_READY") ~> (pc[t] # "ready_wait")
=============================================================================
