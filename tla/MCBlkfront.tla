----------------------------- MODULE MCBlkfront -----------------------------
(* TLC instance of Blkfront. *)
EXTENDS Blkfront

CONSTANTS t1, t2

Kind(op, size, bounce) == [op |-> op, size |-> size, bounce |-> bounce]

\* Two callers and one id; the ring indices wrap.
Scarce == [ring |-> 2, early |-> FALSE,
           kind |-> [t \in Threads |-> Kind("read", 2, t = t1)],
           calls |-> [t \in Threads |-> IF t = t1 THEN 3 ELSE 2]]
\* Two requests in flight, one of two pages.
Parallel == [ring |-> 4, early |-> FALSE,
             kind |-> [t \in Threads |-> Kind("write", IF t = t1 THEN 3 ELSE 1, FALSE)],
             calls |-> [t \in Threads |-> IF t = t1 THEN 1 ELSE 2]]
\* Callers that are there before the device is.
Early == [ring |-> 2, early |-> TRUE,
          kind |-> [t \in Threads |-> Kind("read", 1, FALSE)],
          calls |-> [t \in Threads |-> 1]]

MCWorkloads == {Scarce, Parallel, Early}
=============================================================================
