---------------------------- MODULE XenstorePoll ----------------------------
(* The polling client of the Xenstore (xenstore.c), which start_kernel uses   *)
(* on the rings that the xenbus thread serves (xenbus.c).                     *)
(*                                                                            *)
(* A ring holds units: a header is one, a payload a number of them, a request *)
(* the pieces that are written one by one.  Indices do not wrap.              *)
EXTENDS Integers, Sequences, SequencesExt, FiniteSetsExt

CONSTANTS
  ReqRing, RspRing,   \* units on either ring
  MaxCalls,           \* bound: calls of the client
  MaxPayload,         \* bound: units of a payload
  ValueLength         \* units of the buffer for a value

ASSUME XenstorePollAssumption ==
  /\ ReqRing \in Nat \ {0} /\ MaxCalls \in Nat /\ ValueLength \in Nat
  /\ MaxPayload \in 0..(RspRing - 1)

VARIABLES
  req, reqCons,   \* request units published so far and how many the store took
  rsp, rspCons,   \* the same of the replies; rspCons is written by the readers
  answer,         \* payload units the store has still to put on the ring
  polled,         \* the polling client's call
  reqId,          \* its req_id
  results,        \* what each call returned
  taker,          \* the xenbus thread: the header it looked at, and the ...
  refused         \* ... ids of replies for which it stopped the domain

xsVars == <<req, reqCons, rsp, rspCons, answer, polled, reqId, results, taker, refused>>
xsStore == <<req, reqCons, rsp, answer>>
xsThread == <<taker, refused>>

Pieces == [write |-> <<"header", "key", "value">>, read |-> <<"header", "key">>,
           ls |-> <<"header", "key">>]
NoHeader == [id |-> -1, len |-> 0]
NoXsCall == [pc |-> "idle", op |-> "read", k |-> 1, i |-> 0, n |-> 0,
             got |-> <<>>, keep |-> 0, then |-> "idle", msg |-> NoHeader]

XsInit ==
  /\ req = <<>> /\ reqCons = 0 /\ rsp = <<>> /\ rspCons = 0 /\ answer = <<>>
  /\ polled = NoXsCall /\ reqId = 0 /\ results = <<>>
  /\ taker = NoHeader /\ refused = {}

Header(u) == u.unit = "header"
Data(id, k) == [unit |-> "data", id |-> id, len |-> k]

\* ---- The store: takes a whole request, answers header and payload in turn ----
TakeRequest == \E op \in DOMAIN Pieces :
  /\ Len(req) >= reqCons + Len(Pieces[op]) /\ req[reqCons + 1].op = op
  /\ answer = <<>>
  /\ reqCons' = reqCons + Len(Pieces[op])
  /\ \E len \in 0..MaxPayload :
       LET id == req[reqCons + 1].id IN
       answer' = <<[unit |-> "header", id |-> id, len |-> len]>>
                  \o [k \in 1..len |-> Data(id, k)]
  /\ UNCHANGED <<req, rsp, rspCons, polled, reqId, results, xsThread>>
PutReply ==
  /\ \E k \in 1..Len(answer) :
       /\ Len(rsp) - rspCons + k <= RspRing
       /\ rsp' = rsp \o SubSeq(answer, 1, k)
       /\ answer' = SubSeq(answer, k + 1, Len(answer))
  /\ UNCHANGED <<req, reqCons, rspCons, polled, reqId, results, xsThread>>

\* ---- xenstore_write, xenstore_read and xenstore_ls ----
Start(op) ==
  /\ polled.pc = "idle" /\ Len(results) < MaxCalls
  /\ polled' = [NoXsCall EXCEPT !.pc = "send", !.op = op]
  /\ UNCHANGED <<xsStore, rspCons, reqId, results, xsThread>>
xenstore_write == Start("write")
xenstore_read == Start("read")
xenstore_ls == Start("ls")

\* xenstore_write_request: waits for room, then publishes the piece.
xenstore_write_request ==
  /\ polled.pc = "send" /\ Len(req) - reqCons < ReqRing
  /\ req' = Append(req, [unit |-> Pieces[polled.op][polled.k], op |-> polled.op, id |-> reqId])
  /\ polled' = IF polled.k = Len(Pieces[polled.op])
             THEN [polled EXCEPT !.pc = "receive", !.n = 1, !.then = "header"]
             ELSE [polled EXCEPT !.k = @ + 1]
  /\ UNCHANGED <<reqCons, rsp, rspCons, answer, reqId, results, xsThread>>

\* xenstore_read_response(message, n): from rsp_cons on, waiting for each unit
\* to be produced; rsp_cons is written at the end.
ReadResponse ==
  /\ polled.pc = "receive"
  /\ polled' = [polled EXCEPT !.pc = "poll", !.i = rspCons, !.got = <<>>]
  /\ UNCHANGED <<xsStore, rspCons, reqId, results, xsThread>>
PollUnit ==
  /\ polled.pc = "poll" /\ Len(polled.got) < polled.n /\ Len(rsp) > polled.i
  /\ polled' = [polled EXCEPT !.i = @ + 1, !.got = Append(@, rsp[polled.i + 1])]
  /\ UNCHANGED <<xsStore, rspCons, reqId, results, xsThread>>
EndResponse ==
  /\ polled.pc = "poll" /\ Len(polled.got) = polled.n
  /\ rspCons' = polled.i
  /\ polled' = [polled EXCEPT !.pc = polled.then]
  /\ UNCHANGED <<xsStore, reqId, results, xsThread>>

\* The header decides what is read and what is ignored: everything when the id
\* is not the caller's or it is a write, what exceeds the buffer otherwise.
Fits(len) == IF len < ValueLength THEN len ELSE ValueLength
AfterHeader ==
  /\ polled.pc = "header"
  /\ LET msg == polled.got[1]
         mine == Header(msg) /\ msg.id = reqId
         keeps == polled.op # "write" /\ mine
     IN polled' = [polled EXCEPT !.msg = msg, !.pc = "receive",
                   !.n = IF keeps THEN Fits(msg.len) ELSE msg.len,
                   !.then = IF keeps THEN "value" ELSE "return"]
  /\ UNCHANGED <<xsStore, rspCons, reqId, results, xsThread>>
KeepValue ==
  /\ polled.pc = "value"
  /\ LET rest == polled.msg.len - Fits(polled.msg.len) IN
     polled' = [polled EXCEPT !.keep = Len(polled.got),
                !.pc = IF rest = 0 THEN "return" ELSE "receive",
                !.n = rest, !.then = "return"]
  /\ UNCHANGED <<xsStore, rspCons, reqId, results, xsThread>>
Result == IF polled.msg.id # reqId THEN "failed"
          ELSE IF polled.op # "write" /\ polled.msg.len > ValueLength THEN "truncated" ELSE "done"
XsReturn ==
  /\ polled.pc = "return"
  /\ results' = Append(results, [result |-> Result, keep |-> polled.keep, len |-> polled.msg.len,
                                 op |-> polled.op, at |-> rspCons, end |-> Len(rsp)])
  /\ reqId' = reqId + 1 /\ polled' = NoXsCall
  /\ UNCHANGED <<xsStore, rspCons, xsThread>>

\* ---- xenbus_thread_func, on another processor ----
\* A header is copied (a payload here is shorter than one) ...
LookAtMessage ==
  /\ taker = NoHeader /\ Len(rsp) > rspCons
  /\ LET msg == rsp[rspCons + 1] IN
     Header(msg) /\ taker' = [id |-> msg.id, len |-> msg.len]
  /\ UNCHANGED <<xsStore, rspCons, polled, reqId, results, refused>>
\* ... and if the whole message is there, BUG_ON wants its id in use.
BugOnUnused ==
  /\ taker # NoHeader /\ taker' = NoHeader
  /\ refused' = IF Len(rsp) - rspCons >= 1 + taker.len THEN refused \cup {taker.id}
                ELSE refused
  /\ UNCHANGED <<xsStore, rspCons, polled, reqId, results>>

ClientStep ==
  \/ xenstore_write \/ xenstore_read \/ xenstore_ls \/ xenstore_write_request
  \/ ReadResponse \/ PollUnit \/ EndResponse
  \/ AfterHeader \/ KeepValue \/ XsReturn
XsNext ==
  /\ refused = {}            \* the domain has stopped (BUG_ON)
  /\ ClientStep \/ TakeRequest \/ PutReply \/ LookAtMessage \/ BugOnUnused

XsSpec == XsInit /\ [][XsNext]_xsVars

\* ---- Properties ----
\* Every polled call gets the answer to its own request, keeps what fits of the
\* value and leaves nothing of the answer on the ring for the next one to find
\* (xenstore_read_response, IGNORE), however the store cuts its answer and the
\* xenbus thread looks at it.
PolledReplyIsMine == \A k \in DOMAIN results : LET r == results[k] IN
    /\ r.result = IF r.op # "write" /\ r.len > ValueLength THEN "truncated" ELSE "done"
    /\ r.keep = IF r.op # "write" THEN Fits(r.len) ELSE 0
    /\ r.at = r.end

\* The assertion of xenbus_thread_func: a reply belongs to a request of
\* xenbus.c.  None is in use here, so the thread must not come to one.
ReplyIsAwaited == refused = {}
=============================================================================
