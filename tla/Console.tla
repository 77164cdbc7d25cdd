------------------------------ MODULE Console ------------------------------
(* The console (console.c): printing into the output ring shared with the   *)
(* backend, and reading from the input ring.                                *)
(*                                                                          *)
(* A character is "n" for a line end or anything else.  Ring indices wrap   *)
(* at IndexSpan as the 32-bit ones do.  xencons_lock serialises printers    *)
(* and readers; print(), behind printf, does not take it.                   *)
EXTENDS Integers, Sequences, SequencesExt, FiniteSets

CONSTANTS
  ConThreads,
  Unlocked,      \* those that print with print() rather than printk
  RingSize,      \* characters of each ring
  IndexSpan,     \* 2^32
  OverflowLen,   \* strlen(init_overflow)
  ConTexts,      \* what is printed at a time
  MaxRead,       \* largest len of readbytes
  MaxPrints, MaxTyped,   \* bounds
  NoConThread

ASSUME ConsoleAssumption ==
  /\ Unlocked \subseteq ConThreads /\ RingSize \in Nat \ {0}
  /\ IndexSpan % RingSize = 0 /\ IndexSpan > RingSize

VARIABLES
  out, outProd, outCons,   \* output ring: contents and indices
  in, inProd, inCons,      \* input ring
  initialised,             \* console_initialised, and the notifying send function
  dying,                   \* console_dying
  conLock,                 \* the holder of xencons_lock
  con,                     \* the call of each thread
  waiting,                 \* threads on console_queue ...
  asleep,                  \* ... and those of them that are not runnable
  doorbell, backend,       \* a notification for the backend; is it at work?
  inEvent,                 \* a notification for the guest
  shown, typed,            \* what the backend has shown, and was given to type
  printed, got,            \* texts in the order they are printed; what was read
  missed,                  \* readers that a wake_up found awake
  conBug

outVars == <<out, outProd, outCons, shown>>
inVars == <<in, inProd, inCons, typed, inEvent>>
readVars == <<waiting, asleep, got, missed>>
conVars == <<outVars, inVars, readVars, initialised, dying, conLock, con,
             doorbell, backend, printed, conBug>>

Slot(i) == i % RingSize
Filled_unwrapped(prod, cons) == prod - cons    \* Mutant: the indices are compared without their width.
Filled(prod, cons) == (prod - cons) % IndexSpan
Plus(i, n) == (i + n) % IndexSpan
ConIdle == [step |-> "idle"]

ConInit ==
  /\ out = [i \in 0..(RingSize - 1) |-> ""] /\ outProd = 0 /\ outCons = 0
  /\ in = [i \in 0..(RingSize - 1) |-> -1] /\ inProd = 0 /\ inCons = 0
  /\ initialised = FALSE /\ dying = FALSE /\ conLock = NoConThread
  /\ con = [t \in ConThreads |-> ConIdle]
  /\ waiting = {} /\ asleep = {} /\ missed = {}
  /\ doorbell = FALSE /\ backend = FALSE /\ inEvent = FALSE
  /\ shown = << >> /\ typed = << >> /\ printed = << >> /\ got = << >>
  /\ conBug = FALSE

\* init_console, when nothing else runs: notify, and send with notification
\* from now on.
init_console ==
  /\ ~initialised /\ \A t \in ConThreads : con[t] = ConIdle
  /\ initialised' = TRUE /\ doorbell' = TRUE
  /\ UNCHANGED <<outVars, inVars, readVars, dying, conLock, con, backend, printed, conBug>>

\* ---- Printing ----
\* What console_print passes to checked_print: up to and including each line
\* end, which becomes \r\n; a last one is sent on its own.
Chunks(text) ==
  LET Cut(acc, k) ==
        IF text[k] = "n" /\ k < Len(text)
        THEN [from |-> k + 1, list |-> Append(acc.list, SubSeq(text, acc.from, k - 1) \o <<"r", "n">>)]
        ELSE acc
      m == FoldLeft(Cut, [from |-> 1, list |-> << >>], [k \in DOMAIN text |-> k])
      tail == SubSeq(text, m.from, Len(text))
  IN  SelectSeq(IF Last(tail) = "n" THEN m.list \o <<Front(tail), <<"r", "n">>>>
                ELSE Append(m.list, tail),
                LAMBDA c : c # << >>)

\* The test before the console is initialised subtracts the length from what
\* there is to read and compares without a sign.
Overflows(text) ==
  ~initialised /\ Filled(inProd, inCons) - Len(text) \in 0..(OverflowLen - 1)

\* printk and printbytes take the lock; print does not.
ConsolePrint(t, text) ==
  /\ con[t] = ConIdle /\ Len(printed) < MaxPrints
  /\ t \in Unlocked \/ conLock = NoConThread
  /\ conLock' = IF t \in Unlocked THEN conLock ELSE t
  /\ IF Overflows(text)
     THEN dying' = TRUE /\ conBug' = TRUE /\ UNCHANGED <<con, printed>>
     ELSE /\ con' = [con EXCEPT ![t] = [step |-> "send", todo |-> Chunks(text)]]
          /\ printed' = Append(printed, text) /\ UNCHANGED <<dying, conBug>>
  /\ UNCHANGED <<outVars, inVars, readVars, initialised, doorbell, backend>>

\* xencons_ring_send_no_notify reads the indices ...
SendRead(t) ==
  /\ con[t].step = "send" /\ con[t].todo # << >>
  /\ conBug' = (conBug \/ Filled(outProd, outCons) > RingSize)
  /\ con' = [con EXCEPT ![t] = [@ EXCEPT !.step = "write"] @@ [prod |-> outProd, cons |-> outCons]]
  /\ UNCHANGED <<outVars, inVars, readVars, initialised, dying, conLock, doorbell, backend, printed>>
\* ... writes the characters there is room for ...
SendWrite(t) ==
  LET c == con[t]
      data == Head(c.todo)
      room == RingSize - Filled(c.prod, c.cons)
      sent == IF Len(data) < room THEN Len(data) ELSE room
      left == SubSeq(data, sent + 1, Len(data))
  IN  /\ c.step = "write"
      /\ out' = [i \in DOMAIN out |->
                   LET k == (i - c.prod) % RingSize IN IF k < sent THEN data[k + 1] ELSE out[i]]
      /\ con' = [con EXCEPT ![t] = [step |-> "index", sent |-> sent, prod |-> Plus(c.prod, sent),
                                    todo |-> IF left = << >> THEN Tail(c.todo) ELSE <<left>> \o Tail(c.todo)]]
      /\ UNCHANGED <<outProd, outCons, shown, inVars, readVars, initialised, dying, conLock,
                     doorbell, backend, printed, conBug>>
\* ... and then the index, from which on the backend sees them.
SendIndex(t) ==
  /\ con[t].step = "index"
  /\ outProd' = con[t].prod
  /\ con' = [con EXCEPT ![t] = [step |-> IF initialised THEN "notify" ELSE "send", todo |-> con[t].todo]]
  /\ UNCHANGED <<out, outCons, shown, inVars, readVars, initialised, dying, conLock,
                 doorbell, backend, printed, conBug>>
SendNotify(t) ==
  /\ con[t].step = "notify" /\ doorbell' = TRUE
  /\ con' = [con EXCEPT ![t].step = "send"]
  /\ UNCHANGED <<outVars, inVars, readVars, initialised, dying, conLock, backend, printed, conBug>>
PrintReturns(t) ==
  /\ con[t].step = "send" /\ con[t].todo = << >>
  /\ con' = [con EXCEPT ![t] = ConIdle]
  /\ conLock' = IF conLock = t THEN NoConThread ELSE conLock
  /\ UNCHANGED <<outVars, inVars, readVars, initialised, dying, doorbell, backend, printed, conBug>>

\* ---- Reading ----
\* xencons_ring_recv of up to len characters, with the lock.
Received(len) == LET n == Filled(inProd, inCons) IN IF n < len THEN n ELSE len
xencons_ring_recv(len) ==
  /\ conLock = NoConThread
  /\ got' = got \o [k \in 1..Received(len) |-> in[Slot(inCons + k - 1)]]
  /\ inCons' = Plus(inCons, Received(len))
  /\ doorbell' = TRUE
\* readbytes when there is something to read, and when there is not.
ReadNow(t, len) ==
  /\ con[t] = ConIdle /\ Filled(inProd, inCons) > 0 /\ xencons_ring_recv(len)
  /\ UNCHANGED <<outVars, in, inProd, typed, inEvent, waiting, asleep, missed, initialised,
                 dying, conLock, con, backend, printed, conBug>>
ReadWaits(t, len) ==
  /\ con[t] = ConIdle /\ Filled(inProd, inCons) = 0 /\ conLock = NoConThread
  /\ con' = [con EXCEPT ![t] = [step |-> "add_waiter", len |-> len]]
  /\ UNCHANGED <<outVars, inVars, readVars, initialised, dying, conLock, doorbell, backend,
                 printed, conBug>>
\* add_waiter joins the queue and blocks; a later round only blocks.
ReadBlocks(t) ==
  /\ con[t].step \in {"add_waiter", "block"}
  /\ waiting' = waiting \cup {t} /\ asleep' = asleep \cup {t}
  /\ con' = [con EXCEPT ![t].step = "schedule"]
  /\ UNCHANGED <<outVars, inVars, got, missed, initialised, dying, conLock, doorbell, backend,
                 printed, conBug>>
ReadAgain(t) ==
  /\ con[t].step = "schedule" /\ t \notin asleep
  /\ xencons_ring_recv(con[t].len)
  /\ IF Received(con[t].len) > 0
     THEN con' = [con EXCEPT ![t] = ConIdle] /\ waiting' = waiting \ {t}
     ELSE con' = [con EXCEPT ![t].step = "block"] /\ UNCHANGED waiting
  /\ missed' = missed \ {t}
  /\ UNCHANGED <<outVars, in, inProd, typed, inEvent, asleep, initialised, dying, conLock,
                 backend, printed, conBug>>

\* handle_input wakes the threads on the queue; for those that are runnable
\* this does nothing.
handle_input ==
  /\ inEvent /\ inEvent' = FALSE
  /\ asleep' = asleep \ waiting
  /\ missed' = missed \cup {t \in ConThreads : con[t].step \in {"add_waiter", "block"}}
  /\ UNCHANGED <<outVars, in, inProd, inCons, typed, waiting, got, initialised, dying, conLock,
                 con, doorbell, backend, printed, conBug>>

\* ---- The backend ----
BackendWakes ==
  /\ doorbell /\ doorbell' = FALSE /\ backend' = TRUE
  /\ UNCHANGED <<outVars, inVars, readVars, initialised, dying, conLock, con, printed, conBug>>
Show ==
  /\ backend /\ outProd # outCons
  /\ shown' = Append(shown, out[Slot(outCons)]) /\ outCons' = Plus(outCons, 1)
  /\ UNCHANGED <<out, outProd, inVars, readVars, initialised, dying, conLock, con, doorbell,
                 backend, printed, conBug>>
BackendSleeps ==
  /\ backend /\ outProd = outCons /\ backend' = FALSE
  /\ UNCHANGED <<outVars, inVars, readVars, initialised, dying, conLock, con, doorbell, printed,
                 conBug>>
\* What is typed is numbered.
Type ==
  /\ Len(typed) < MaxTyped /\ Filled(inProd, inCons) < RingSize
  /\ in' = [in EXCEPT ![Slot(inProd)] = Len(typed)] /\ inProd' = Plus(inProd, 1)
  /\ typed' = Append(typed, Len(typed)) /\ inEvent' = initialised
  /\ UNCHANGED <<outVars, inCons, readVars, initialised, dying, conLock, con, doorbell, backend,
                 printed, conBug>>

ConStep ==
  \/ init_console \/ handle_input \/ BackendWakes \/ Show \/ BackendSleeps \/ Type
  \/ \E t \in ConThreads :
       \/ \E text \in ConTexts : ConsolePrint(t, text)
       \/ SendRead(t) \/ SendWrite(t) \/ SendIndex(t) \/ SendNotify(t) \/ PrintReturns(t)
       \/ \E len \in 1..MaxRead : initialised /\ (ReadNow(t, len) \/ ReadWaits(t, len))
       \/ ReadBlocks(t) \/ ReadAgain(t)
ConNext == ~conBug /\ ConStep

\* ---- Properties ----
Translated(text) ==
  FoldLeft(LAMBDA acc, c : IF c = "n" THEN acc \o <<"r", "n">> ELSE Append(acc, c), << >>, text)
AllText == FoldLeft(LAMBDA acc, text : acc \o Translated(text), << >>, printed)
InRing(ring, prod, cons) == [k \in 1..Filled(prod, cons) |-> ring[Slot(cons + k - 1)]]
\* Characters behind the index and those still to be written.
Unsent ==
  FoldLeft(LAMBDA acc, t : LET c == con[t] IN
             IF c.step = "index"
             THEN acc \o [k \in 1..c.sent |-> out[Slot(c.prod - c.sent + k - 1)]] \o FlattenSeq(c.todo)
             ELSE IF c.step \in {"send", "write", "notify"} THEN acc \o FlattenSeq(c.todo)
             ELSE acc,
           << >>, SetToSeq(ConThreads))

\* What was printed is what is shown, is in the ring or still to be sent, in
\* the order the lock was taken and with every line end translated; nothing is
\* overwritten when the ring is full or the indices wrap.
OutputIsText == shown \o InRing(out, outProd, outCons) \o Unsent = AllText

\* Once the console is initialised, text in the ring is announced: the backend
\* is at work or about to be, or the printer is about to notify it.
OutputIsAnnounced ==
  initialised /\ outProd # outCons =>
    backend \/ doorbell \/ \E t \in ConThreads : con[t].step = "notify"

\* What is typed is read once and in order, and a reader sleeps on typed text
\* only if its wake_up came when it had looked at the ring but not yet blocked.
InputIsRead ==
  /\ got \o InRing(in, inProd, inCons) = typed
  /\ \A t \in asleep : inProd # inCons => inEvent \/ t \in missed
                         \/ \E u \in ConThreads \ asleep : con[u].step \in {"schedule", "block"}
=============================================================================
