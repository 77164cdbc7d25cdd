------------------------------ MODULE MCXenbus ------------------------------
(* TLC instance of Xenbus. *)
EXTENDS Xenbus

CONSTANTS t1, t2, t3

W(ncalls, ops, preempt, payloads) ==
  [calls |-> ncalls, ops |-> ops, preempt |-> preempt, payloads |-> payloads]

\* Three clients, one more than there are ids, make a request each.
Requests == [t \in Clients |-> 1]
\* The watcher watches, then reads or removes the watch.
Watches == [t \in Clients |-> IF t = Watcher THEN 4 ELSE 0]
\* One client makes two requests beside another.
Repeated == [t \in Clients |-> IF t = t3 THEN 0 ELSE IF t = Watcher THEN 2 ELSE 1]

\* The ring holds a message with a short payload and nothing else; a long one
\* does not fit.
Short == {1}
ShortAndLong == {1, 2}

MCWorkloads ==
  {W(Requests, {"read"}, p, Short) : p \in BOOLEAN} \cup
  {W(Watches, {"watch", "read_watch", "unwatch"}, p, Short) : p \in BOOLEAN} \cup
  {W(Repeated, {"read"}, p, ShortAndLong) : p \in BOOLEAN}
=============================================================================
