------------------------------- MODULE Xenbus -------------------------------
(***************************************************************************)
(* The xenbus driver (xenbus/xenbus.c) over wait queues (include/os/wait.h) *)
(* and the store it talks to.                                              *)
(*                                                                         *)
(* Threads allocate a request id, put a message on the request ring and    *)
(* block until the xenbus thread has copied the reply with that id from    *)
(* the response ring.  Watch events arrive on the same ring and are kept,  *)
(* MAX_PATHS of them, until a thread reads them.  A step is the body of    *)
(* one section of req_lock, xb_lock, watch_list_lock or a wait queue's     *)
(* lock, or the code between two of them.  The response ring holds RspRing *)
(* units; a message is a unit of header and some of payload, which appear  *)
(* one after the other.  The store is told of requests, not of room: a     *)
(* store that waits for room sleeps until the next request, or until       *)
(* another domain wakes it.  A message longer than the ring is never whole. *)
(* suspend is never set in this source tree, so its branches are left out; *)
(* so are the strings and the ownership of the memory replies live in.     *)
(***************************************************************************)
EXTENDS Integers, Sequences, FiniteSets, FiniteSetsExt

CONSTANTS
  Clients,    \* threads that call the driver
  Watcher,    \* the client that uses the watch
  XenbusThread, \* the thread of xenbus_thread_func
  NR_REQS,
  MAX_PATHS,
  RingSize,   \* messages the request ring holds
  RspRing,    \* units the response ring holds
  Workloads,  \* see below
  MaxEvents   \* bound: events the store sends for a watch

ASSUME ThreadsAssumption == Watcher \in Clients /\ XenbusThread \notin Clients
ASSUME SizesAssumption ==
  /\ NR_REQS \in Nat \ {0} /\ MAX_PATHS \in Nat \ {0} /\ RingSize \in Nat \ {0}
  /\ RspRing \in Nat \ {0} /\ MaxEvents \in Nat

\* A workload: the operations used, a bound on the calls of each client, whether
\* a thread is ever preempted inside wait_event, and the lengths of the payloads
\* the store sends, in units.
ASSUME WorkloadsAssumption ==
  \A w \in Workloads : /\ w.calls \in [Clients -> Nat] /\ w.preempt \in BOOLEAN
                       /\ w.payloads \subseteq Nat \ {0}

VARIABLES
  pc,        \* each thread's next step
  runnable,  \* threads with RUNNABLE_FLAG
  waitq,     \* the threads on xb_waitq and on req_wq
  req_info,  \* per id: in_use, waitq and reply
  nr_live_reqs, probe,
  call,      \* each client's request: operation, number, id, reply taken
  req,       \* messages on the request ring
  rsp,       \* the response ring: messages whose header is there, units produced and
             \* consumed, units of the last message still to come
  prod,      \* xenbus_thread_func's last reading of rsp_prod
  event,     \* is the event channel pending?
  watch,     \* the watch and the paths it holds
  read,      \* the paths xenbus_read_watch has returned since the watch was listed
  store,     \* external: requests at the store, is it watching, events sent for the
             \* watch, is it asleep?
  workload,  \* the workload of this behaviour
  halt       \* "none" or the BUG reached

driverVars == <<req_info, nr_live_reqs, probe>>
ringVars   == <<req, rsp, prod, event>>
watchVars  == <<watch, read>>
vars == <<pc, runnable, waitq, driverVars, call, ringVars, watchVars, store,
          workload, halt>>

Threads == Clients \cup {XenbusThread}
Ids == 0..(NR_REQS - 1)
\* XenbusThread stands for NULL where a client is expected.
NoReply == [client |-> XenbusThread, number |-> 0, ok |-> TRUE]
NoWatch == [listed |-> FALSE, thread |-> XenbusThread, prod |-> 0, cons |-> 0,
            paths |-> [i \in 0..(MAX_PATHS - 1) |-> 0]]

Init ==
  /\ pc = [t \in Threads |-> IF t = XenbusThread THEN "wait" ELSE "idle"]
  /\ runnable = Threads
  /\ waitq = [q \in {"xb_waitq", "req_wq"} |-> {}]
  /\ req_info = [i \in Ids |-> [in_use |-> FALSE, waitq |-> {}, reply |-> NoReply]]
  /\ nr_live_reqs = 0
  /\ probe = 0
  /\ call = [t \in Clients |-> [op |-> "none", number |-> 0, id |-> 0,
                                rep |-> NoReply]]
  /\ req = << >>
  /\ rsp = [msgs |-> << >>, rsp_prod |-> 0, rsp_cons |-> 0, rest |-> 0]
  /\ prod = 0
  /\ event = FALSE
  /\ watch = NoWatch
  /\ read = << >>
  /\ store = [reqs |-> {}, watching |-> FALSE, sent |-> 0, asleep |-> FALSE]
  /\ workload \in Workloads
  /\ halt = "none"

-----------------------------------------------------------------------------
(* Threads *)

At(t, s) == halt = "none" /\ pc[t] = s
GoTo(t, s) == pc' = [pc EXCEPT ![t] = s]

\* block(current): a thread that is not runnable must not block again.
BlockOr(t, bug) ==
  /\ runnable' = runnable \ {t}
  /\ halt' = IF t \in runnable THEN halt ELSE bug

block(t) == BlockOr(t, "block")

\* wake_up of a wait queue with the threads Q on it.
wake_up(Q) == runnable' = runnable \cup Q

-----------------------------------------------------------------------------
(* wait_event, of the xenbus thread and of a client that needs an id *)

WaitQ(t) == IF t = XenbusThread THEN "xb_waitq" ELSE "req_wq"
Condition(t) == IF t = XenbusThread THEN prod # rsp.rsp_prod ELSE nr_live_reqs < NR_REQS
Waited(t) == IF t = XenbusThread THEN "drain" ELSE "alloc"

wait_event(t) ==
  /\ At(t, "wait")
  /\ GoTo(t, IF Condition(t) THEN Waited(t) ELSE "wait_block")
  /\ UNCHANGED <<runnable, waitq, driverVars, call, ringVars, watchVars, store,
                 workload, halt>>

WaitBlock(t) ==
  /\ At(t, "wait_block")
  /\ waitq' = [waitq EXCEPT ![WaitQ(t)] = @ \cup {t}]
  /\ block(t)
  /\ GoTo(t, "wait_check")
  /\ UNCHANGED <<driverVars, call, ringVars, watchVars, store, workload>>

\* preempt_schedule takes the processor from a thread that has blocked and has
\* not looked at the condition again: it goes on when it has been woken.
preempt_schedule(t) ==
  /\ workload.preempt
  /\ At(t, "wait_check") /\ t \notin runnable
  /\ GoTo(t, "wait_preempted")
  /\ UNCHANGED <<runnable, waitq, driverVars, call, ringVars, watchVars, store,
                 workload, halt>>

\* Mutant: the condition is not looked at again.
WaitCheck_blind(t) ==
  /\ At(t, "wait_check") \/ (At(t, "wait_preempted") /\ t \in runnable)
  /\ GoTo(t, "wait_sched")
  /\ UNCHANGED <<runnable, waitq, driverVars, call, ringVars, watchVars, store,
                 workload, halt>>

WaitCheck(t) ==
  /\ At(t, "wait_check") \/ (At(t, "wait_preempted") /\ t \in runnable)
  /\ runnable' = IF Condition(t) THEN runnable \cup {t} ELSE runnable
  /\ GoTo(t, IF Condition(t) THEN "wait_done" ELSE "wait_sched")
  /\ UNCHANGED <<waitq, driverVars, call, ringVars, watchVars, store, workload,
                 halt>>

\* schedule() returns once the thread is runnable.
WaitSchedule(t) ==
  /\ At(t, "wait_sched") /\ t \in runnable
  /\ GoTo(t, "wait_block")
  /\ UNCHANGED <<runnable, waitq, driverVars, call, ringVars, watchVars, store,
                 workload, halt>>

WaitDone(t) ==
  /\ At(t, "wait_done")
  /\ waitq' = [waitq EXCEPT ![WaitQ(t)] = @ \ {t}]
  /\ GoTo(t, Waited(t))
  /\ UNCHANGED <<runnable, driverVars, call, ringVars, watchVars, store,
                 workload, halt>>

-----------------------------------------------------------------------------
(* Requests *)

Calls(t, op) ==
  /\ At(t, "idle")
  /\ call[t].number < workload.calls[t]
  /\ op \in workload.ops
  /\ call' = [call EXCEPT ![t] = [op |-> op, number |-> @.number + 1, id |-> 0, rep |-> NoReply]]

\* xenbus_read, xenbus_write, xenbus_ls, ...: one request and its reply.
xenbus_read(t) ==
  /\ Calls(t, "read")
  /\ GoTo(t, "alloc")
  /\ UNCHANGED <<runnable, waitq, driverVars, ringVars, watchVars, store,
                 workload, halt>>

\* The first id, from probe on, that is not in use.
FreeId ==
  LET d == Min({k \in 0..(NR_REQS - 1) : ~req_info[(probe + k) % NR_REQS].in_use})
  IN  (probe + d) % NR_REQS

\* The id is marked, its wait queue initialised, and add_waiter of
\* xenbus_msg_reply puts the thread on it; nobody else uses the queue before
\* the message is sent.
TakeId(t, id) ==
  /\ nr_live_reqs' = nr_live_reqs + 1
  /\ req_info' = [req_info EXCEPT ![id].in_use = TRUE, ![id].waitq = {t}]
  /\ probe' = (id + 1) % NR_REQS
  /\ call' = [call EXCEPT ![t].id = id]

\* Preemption is disabled from the block() to schedule().
allocate_xenbus_id(t) ==
  /\ At(t, "alloc")
  /\ \/ /\ nr_live_reqs >= NR_REQS
        /\ GoTo(t, "wait")
        /\ UNCHANGED <<runnable, driverVars, call, halt>>
     \/ /\ nr_live_reqs < NR_REQS
        /\ IF \E i \in Ids : ~req_info[i].in_use
             THEN TakeId(t, FreeId) /\ block(t) /\ GoTo(t, "xb_write")
             ELSE halt' = "probe" /\ UNCHANGED <<pc, runnable, driverVars, call>>
  /\ UNCHANGED <<waitq, ringVars, watchVars, store, workload>>

Message(t) == [id |-> call[t].id, client |-> t, number |-> call[t].number, op |-> call[t].op]
Full == Len(req) >= RingSize

\* The message is copied to the ring and the store notified.
Send(t) ==
  /\ req' = Append(req, Message(t))
  /\ store' = [store EXCEPT !.asleep = FALSE]
  /\ GoTo(t, "sent")

xb_write(t) ==
  /\ At(t, "xb_write")
  /\ \/ ~Full /\ Send(t)
     \/ Full /\ GoTo(t, "xb_wait") /\ UNCHANGED <<req, store>>
  /\ UNCHANGED <<runnable, waitq, driverVars, call, rsp, prod, event, watchVars,
                 workload, halt>>

\* wait_event for room on the ring, by a thread that has blocked already.
XbWait(t) ==
  /\ At(t, "xb_wait")
  /\ \/ ~Full /\ GoTo(t, "xb_write_waited") /\ UNCHANGED <<runnable, halt>>
     \/ Full /\ BlockOr(t, "ring_wait") /\ UNCHANGED pc
  /\ UNCHANGED <<waitq, driverVars, call, ringVars, watchVars, store, workload>>

\* The message is written without another look at the ring.
XbWriteWaited(t) ==
  /\ At(t, "xb_write_waited")
  /\ Send(t)
  /\ halt' = IF Full THEN "ring" ELSE halt
  /\ UNCHANGED <<runnable, waitq, driverVars, call, rsp, prod, event, watchVars,
                 workload>>

AfterReply(t) == IF call[t].op = "read" THEN "idle" ELSE call[t].op

release_xenbus_id(id) ==
  /\ nr_live_reqs' = nr_live_reqs - 1
  /\ req_info' = [req_info EXCEPT ![id].in_use = FALSE]
  /\ IF nr_live_reqs' \in {NR_REQS - 1, 0}
       THEN wake_up(waitq["req_wq"]) ELSE UNCHANGED runnable
  /\ UNCHANGED probe

\* schedule() has returned: the reply is taken, whoever woke the thread, and the
\* id given back.
xenbus_msg_reply(t) ==
  LET id == call[t].id IN
  /\ At(t, "sent") /\ t \in runnable
  /\ call' = [call EXCEPT ![t].rep = req_info[id].reply]
  /\ halt' = IF req_info[id].reply # NoReply /\ req_info[id].in_use THEN halt ELSE "reply"
  /\ release_xenbus_id(id)
  /\ GoTo(t, AfterReply(t))
  /\ UNCHANGED <<waitq, ringVars, watchVars, store, workload>>

-----------------------------------------------------------------------------
(* Watches *)

\* The watch is listed before the store is asked to watch.
xenbus_watch_path(t) ==
  /\ Calls(t, "watch")
  /\ ~watch.listed
  /\ watch' = [NoWatch EXCEPT !.listed = TRUE]
  /\ read' = << >>
  /\ GoTo(t, "alloc")
  /\ UNCHANGED <<runnable, waitq, driverVars, ringVars, store, workload, halt>>

\* The store has answered; a watch it refused is unlisted.
WatchAnswered(t) ==
  /\ At(t, "watch")
  /\ watch' = IF call[t].rep.ok THEN watch ELSE NoWatch
  /\ GoTo(t, "idle")
  /\ UNCHANGED <<runnable, waitq, driverVars, call, ringVars, read, store,
                 workload, halt>>

xenbus_rm_watch(t) ==
  /\ Calls(t, "unwatch")
  /\ watch.listed
  /\ GoTo(t, "alloc")
  /\ UNCHANGED <<runnable, waitq, driverVars, ringVars, watchVars, store,
                 workload, halt>>

\* The watch is unlisted after the store has answered.
WatchRemoved(t) ==
  /\ At(t, "unwatch")
  /\ watch' = NoWatch
  /\ GoTo(t, "idle")
  /\ UNCHANGED <<runnable, waitq, driverVars, call, ringVars, read, store,
                 workload, halt>>

\* Under watch_list_lock: the oldest path is returned, or the thread blocks.
ReadWatch(t) ==
  IF watch.cons < watch.prod
    THEN /\ read' = Append(read, watch.paths[watch.cons % MAX_PATHS])
         /\ watch' = [watch EXCEPT !.cons = @ + 1, !.thread = XenbusThread]
         /\ GoTo(t, "idle")
         /\ UNCHANGED <<runnable, halt>>
    ELSE /\ watch' = [watch EXCEPT !.thread = t]
         /\ block(t)
         /\ GoTo(t, "read_watch")
         /\ UNCHANGED read

xenbus_read_watch(t) ==
  /\ Calls(t, "read_watch")
  /\ watch.listed
  /\ ReadWatch(t)
  /\ UNCHANGED <<waitq, driverVars, ringVars, store, workload>>

\* goto again, when schedule() returns.
ReadWatchAgain(t) ==
  /\ At(t, "read_watch") /\ t \in runnable
  /\ ReadWatch(t)
  /\ UNCHANGED <<waitq, driverVars, call, ringVars, store, workload>>

-----------------------------------------------------------------------------
(* The xenbus thread and the event channel *)

Consumed == [rsp EXCEPT !.msgs = Tail(@), !.rsp_cons = @ + 1 + Head(rsp.msgs).len]

\* Mutant: the index is incremented before it is used.
WatchEvent_off_by_one(m) ==
  /\ watch' = IF watch.listed
                THEN [watch EXCEPT !.paths[(watch.prod + 1) % MAX_PATHS] = m.number, !.prod = @ + 1]
                ELSE watch
  /\ runnable' = runnable \cup {watch.thread}
  /\ UNCHANGED halt

\* A watch event is kept for its reader, who is woken; without a watch it is
\* dropped.
WatchEvent(m) ==
  IF ~watch.listed
    THEN UNCHANGED <<watch, runnable, halt>>
    ELSE /\ halt' = IF watch.prod - watch.cons > MAX_PATHS THEN "paths" ELSE halt
         /\ watch' = [watch EXCEPT !.paths[watch.prod % MAX_PATHS] = m.number, !.prod = @ + 1]
         /\ runnable' = runnable \cup {watch.thread}

\* Mutant: replies are taken to come in the order of the ids.
Reply_in_order(m) ==
  LET id == Min({i \in Ids : req_info[i].in_use}) IN
  /\ req_info' = [req_info EXCEPT
       ![id].reply = [client |-> m.client, number |-> m.number, ok |-> m.ok]]
  /\ wake_up(req_info[id].waitq)
  /\ UNCHANGED halt

Reply(m) ==
  /\ halt' = IF req_info[m.id].in_use THEN halt ELSE "in_use"
  /\ req_info' = [req_info EXCEPT
       ![m.id].reply = [client |-> m.client, number |-> m.number, ok |-> m.ok]]
  /\ wake_up(req_info[m.id].waitq)

\* Is the first message on the ring, header and payload?
Complete ==
  /\ rsp.msgs # << >>
  /\ rsp.rsp_prod - rsp.rsp_cons >= 1 + Head(rsp.msgs).len

\* One iteration of the inner loop, under xb_lock.
xenbus_thread_func ==
  LET t == XenbusThread
      m == Head(rsp.msgs)
  IN  /\ At(t, "drain")
      /\ prod' = rsp.rsp_prod
      /\ \/ /\ ~Complete
            /\ GoTo(t, "wait")
            /\ UNCHANGED <<runnable, req_info, rsp, watch, halt>>
         \/ /\ Complete /\ m.op = "event"
            /\ WatchEvent(m)
            /\ rsp' = Consumed
            /\ UNCHANGED <<pc, req_info>>
         \/ /\ Complete /\ m.op # "event"
            /\ Reply(m)
            /\ rsp' = Consumed
            /\ UNCHANGED <<pc, watch>>
      /\ UNCHANGED <<waitq, nr_live_reqs, probe, call, req, event, read, store,
                     workload>>

\* Mutant: every waiting thread is woken.
xenbus_evtchn_handler_all ==
  /\ halt = "none"
  /\ event
  /\ event' = FALSE
  /\ wake_up(Threads)
  /\ UNCHANGED <<pc, waitq, driverVars, call, req, rsp, prod, watchVars, store,
                 workload, halt>>

xenbus_evtchn_handler ==
  /\ halt = "none"
  /\ event
  /\ event' = FALSE
  /\ wake_up(waitq["xb_waitq"])
  /\ UNCHANGED <<pc, waitq, driverVars, call, req, rsp, prod, watchVars, store,
                 workload, halt>>

-----------------------------------------------------------------------------
(* The store (external): it takes requests off the ring, answers each once, *)
(* in any order, and sends watch events while it watches.  It never gets   *)
(* more than MAX_PATHS events ahead of the reader, nor RspRing units ahead *)
(* of the xenbus thread.                                                   *)

Awake == halt = "none" /\ ~store.asleep
Room == rsp.rsp_prod - rsp.rsp_cons < RspRing

StoreTakes ==
  /\ Awake
  /\ req # << >>
  /\ store' = [store EXCEPT !.reqs = @ \cup {Head(req)}]
  /\ req' = Tail(req)
  /\ event' = TRUE
  /\ UNCHANGED <<pc, runnable, waitq, driverVars, call, rsp, prod, watchVars,
                 workload, halt>>

\* The header of a message appears on the response ring.
StoreWrites(m) ==
  /\ Awake /\ Room
  /\ rsp.rest = 0
  /\ rsp' = [rsp EXCEPT !.msgs = Append(@, m), !.rsp_prod = @ + 1, !.rest = m.len]
  /\ event' = TRUE
  /\ UNCHANGED <<pc, runnable, waitq, driverVars, call, req, prod, watchVars,
                 workload, halt>>

StoreAnswers ==
  \E m \in store.reqs, len \in workload.payloads, ok \in BOOLEAN :
    /\ ok \/ m.op = "watch"
    /\ StoreWrites([id |-> m.id, client |-> m.client, number |-> m.number,
                    op |-> m.op, len |-> len, ok |-> ok])
    /\ store' = [store EXCEPT !.reqs = @ \ {m},
                   !.sent = IF m.op = "watch" THEN 0 ELSE @,
                   !.watching = CASE m.op = "watch" -> ok
                                  [] m.op = "unwatch" -> FALSE
                                  [] OTHER -> @]

StoreNotifies ==
  /\ store.watching
  /\ store.sent < MaxEvents
  /\ store.sent - Len(read) < MAX_PATHS
  /\ \E len \in workload.payloads :
       StoreWrites([id |-> 0, client |-> XenbusThread, number |-> store.sent + 1,
                    op |-> "event", len |-> len, ok |-> TRUE])
  /\ store' = [store EXCEPT !.sent = @ + 1]

\* The payload follows, a unit at a time.
StoreCompletes ==
  /\ Awake /\ Room
  /\ rsp.rest > 0
  /\ rsp' = [rsp EXCEPT !.rsp_prod = @ + 1, !.rest = @ - 1]
  /\ event' = TRUE
  /\ UNCHANGED <<pc, runnable, waitq, driverVars, call, req, prod, watchVars, store,
                 workload, halt>>

\* With more to write, no room and no request, the store waits for an event.
StoreSleeps ==
  /\ Awake /\ ~Room
  /\ req = << >> /\ (rsp.rest > 0 \/ store.reqs # {})
  /\ store' = [store EXCEPT !.asleep = TRUE]
  /\ UNCHANGED <<pc, runnable, waitq, driverVars, call, ringVars, watchVars, workload,
                 halt>>

\* Another domain has something for the store to do.
StoreWoken ==
  /\ halt = "none" /\ store.asleep
  /\ store' = [store EXCEPT !.asleep = FALSE]
  /\ UNCHANGED <<pc, runnable, waitq, driverVars, call, ringVars, watchVars, workload,
                 halt>>

-----------------------------------------------------------------------------

WaitStep(t) ==
  \/ wait_event(t)
  \/ WaitBlock(t)
  \/ WaitCheck(t)
  \/ WaitSchedule(t)
  \/ WaitDone(t)

\* A client goes on with its call.
ClientStep(t) ==
  \/ WaitStep(t)
  \/ allocate_xenbus_id(t)
  \/ xb_write(t)
  \/ XbWait(t)
  \/ XbWriteWaited(t)
  \/ xenbus_msg_reply(t)
  \/ WatchAnswered(t)
  \/ WatchRemoved(t)
  \/ ReadWatchAgain(t)

StoreStep == StoreTakes \/ StoreAnswers \/ StoreCompletes

Next ==
  \/ \E t \in Clients : xenbus_read(t) \/ ClientStep(t)
  \/ xenbus_watch_path(Watcher)
  \/ xenbus_rm_watch(Watcher)
  \/ xenbus_read_watch(Watcher)
  \/ xenbus_thread_func
  \/ WaitStep(XenbusThread)
  \/ \E t \in Threads : preempt_schedule(t)
  \/ xenbus_evtchn_handler
  \/ StoreStep
  \/ StoreNotifies
  \/ StoreSleeps
  \/ StoreWoken

Spec == Init /\ [][Next]_vars

\* Threads run, events are delivered, and the store answers.
FairSpec ==
  /\ Spec
  /\ \A t \in Clients : WF_vars(ClientStep(t))
  /\ WF_vars(xenbus_thread_func) /\ WF_vars(WaitStep(XenbusThread))
  /\ WF_vars(xenbus_evtchn_handler)
  /\ WF_vars(StoreStep)

-----------------------------------------------------------------------------
(* Properties *)

\* "We're now guaranteed to be able to send the message without overflowing the
\* ring" (xb_write).
RingHasRoom == halt # "ring"

\* Of the BUG()s of xenbus.c and of block(), none is reached but the two of a
\* writer that finds the request ring full: it blocks twice ("ring_wait"), or it
\* overflows the ring when it has waited ("ring").
OnlyRingFullBugs == halt \in {"none", "ring_wait", "ring"}

\* What a thread takes when it is woken is the answer to its own request, not
\* one left over from an earlier use of the id.
ReplyIsMine ==
  \A t \in Clients : call[t].rep # NoReply =>
    call[t].rep.client = t /\ call[t].rep.number = call[t].number

\* nr_live_reqs counts the ids in use, and each belongs to one client.
IdsBalance ==
  LET holders == {t \in Clients : pc[t] \in {"xb_write", "xb_wait",
                                             "xb_write_waited", "sent"}}
      used == {i \in Ids : req_info[i].in_use}
  IN  /\ Cardinality(used) = nr_live_reqs
      /\ Cardinality(holders) = nr_live_reqs
      /\ {call[t].id : t \in holders} = used

\* The events of a watch are read in the order the store sent them, none is lost
\* and none is read twice, nor one of an earlier watch.
PathsInOrder == \A i \in 1..Len(read) : read[i] = i

\* A thread that waits for a path is woken by the one that arrives.
ReaderIsWoken ==
  pc[Watcher] = "read_watch" /\ watch.cons < watch.prod => Watcher \in runnable

\* Ids tell requests apart: each in use belongs to one client, and what that
\* client takes is the answer to its own request (allocate_xenbus_id,
\* release_xenbus_id, xenbus_thread_func).
RepliesAreMatched == ReplyIsMine /\ IdsBalance

\* The events of a watch reach its reader, in order (xenbus_thread_func,
\* xenbus_read_watch).
WatchEventsArrive == PathsInOrder /\ ReaderIsWoken

\* A message on the response ring, or coming, that the ring cannot hold.
LongMessage == \E i \in 1..Len(rsp.msgs) : 1 + rsp.msgs[i].len > RspRing

\* Every request is answered, unless a thread is preempted between its block()
\* and its second look at the condition in wait_event, the store sends a message
\* longer than the response ring, or it sleeps for room and nobody wakes it.
RequestReturns ==
  []<>(~store.asleep) =>
    \A t \in Clients :
      (pc[t] = "alloc" /\ ~workload.preempt) ~>
        (pc[t] = "idle" \/ halt # "none" \/ LongMessage)
=============================================================================
