------------------------------- MODULE Events -------------------------------
(* Event channels: the hypervisor's pending and mask bits, the callback     *)
(* that scans them on each processor, do_event, and the binding of handlers *)
(* to ports (events.c, hypervisor.c).                                       *)
(*                                                                          *)
(* Reads and writes of the shared page are separate steps, so a signal or   *)
(* another processor can come between any two of them.  A binding made by   *)
(* a thread is interrupted by callbacks on its own processor; callbacks run *)
(* with upcalls masked and are not nested.                                  *)
EXTENDS Integers, FiniteSets, FiniteSetsExt

CONSTANTS
  Cpus,        \* processors
  Ports,       \* event channel ports in use
  PortCpu,     \* the processor a port's handler is bound to, or ANY_CPU
  LongBits,    \* bits in a word of the shared page, as the hypervisor counts
  ScanBits,    \* ports the callback scans for a selector bit
  MaxSignals   \* bound: signals the hypervisor raises
ANY_CPU == -1

ASSUME EventsAssumption ==
  /\ Ports \subseteq Nat /\ Cpus \subseteq Nat
  /\ PortCpu \in [Ports -> Cpus \cup {ANY_CPU}]
  /\ LongBits \in Nat \ {0} /\ ScanBits \in 1..LongBits

VARIABLES
  pending, masked,     \* shared page: evtchn_pending and evtchn_mask
  sel, upcall,         \* vcpu_info: evtchn_pending_sel, evtchn_upcall_pending
  vcpu,                \* the processor the hypervisor notifies of a port
  action,              \* ev_actions: "default" or "bound"
  callback,            \* the step of each processor's callback
  l1, port,            \* its selector bits left and the port it is at
  bind,                \* a thread's bind_evtchn on each processor
  owed,                \* ports signalled and not yet handled
  stolen,              \* ... whose event another processor's callback dropped
  signals

evVars == <<pending, masked, sel, upcall, vcpu, action, callback, l1, port,
            bind, owed, stolen, signals>>
evShared == <<pending, masked, sel, upcall>>
evHistory == <<vcpu, owed, stolen, signals>>

SelectorBit(p) == p \div LongBits        \* set by the hypervisor
NoPort == -1
Idle == [step |-> "idle", port |-> NoPort]

\* init_events: every port has the default handler and is masked.
EvInit ==
  /\ pending = {} /\ masked = Ports
  /\ sel = [c \in Cpus |-> {}] /\ upcall = [c \in Cpus |-> FALSE]
  /\ vcpu \in [Ports -> Cpus]
  /\ \A p \in Ports : PortCpu[p] # ANY_CPU => vcpu[p] = PortCpu[p]
  /\ action = [p \in Ports |-> "default"]
  /\ callback = [c \in Cpus |-> "out"] /\ l1 = [c \in Cpus |-> {}]
  /\ port = [c \in Cpus |-> NoPort] /\ bind = [c \in Cpus |-> Idle]
  /\ owed = {} /\ stolen = {} /\ signals = 0

\* ---- The hypervisor ----
\* A signal sets the pending bit; on a 0 -> 1 transition of an unmasked port
\* it marks the selector of the port's processor and requests the upcall.
Signal(p) ==
  /\ signals < MaxSignals /\ signals' = signals + 1
  /\ pending' = pending \cup {p}
  /\ owed' = owed \cup {p} /\ stolen' = stolen \ {p}
  /\ LET raise == p \notin pending /\ p \notin masked
                    /\ SelectorBit(p) \notin sel[vcpu[p]]
     IN /\ sel' = IF raise THEN [sel EXCEPT ![vcpu[p]] = @ \cup {SelectorBit(p)}] ELSE sel
        /\ upcall' = IF raise THEN [upcall EXCEPT ![vcpu[p]] = TRUE] ELSE upcall
  /\ UNCHANGED <<masked, vcpu, action, callback, l1, port, bind>>

\* blk_rebind_evtchn: notify another processor.
evtchn_bind_to_cpu(p, c) == vcpu' = [vcpu EXCEPT ![p] = c]
Rebind(p, c) ==
  /\ PortCpu[p] = ANY_CPU /\ action[p] = "bound" /\ vcpu[p] # c
  /\ evtchn_bind_to_cpu(p, c)
  /\ UNCHANGED <<evShared, action, callback, l1, port, bind, owed, stolen, signals>>

\* ---- The callback of a processor ----
Goto(c, step) == callback' = [callback EXCEPT ![c] = step]
NextPort(c) == Goto(c, "scan") /\ port' = [port EXCEPT ![c] = NoPort]

\* do_hypervisor_callback: evtchn_upcall_pending = 0 ...
Upcall(c) ==
  /\ callback[c] = "out" /\ upcall[c]
  /\ upcall' = [upcall EXCEPT ![c] = FALSE] /\ Goto(c, "select")
  /\ UNCHANGED <<pending, masked, sel, evHistory, action, l1, port, bind>>
\* ... then the selector is exchanged for zero ...
TakeSelector(c) ==
  /\ callback[c] = "select"
  /\ l1' = [l1 EXCEPT ![c] = sel[c]] /\ sel' = [sel EXCEPT ![c] = {}]
  /\ Goto(c, "scan")
  /\ UNCHANGED <<pending, masked, upcall, evHistory, action, port, bind>>
\* ... and the words it names are scanned, lowest first.  active_evtchns is a
\* word of the page cut to 32 bits, and port is counted in words of 32.
Active(i) == {b \in 0..(ScanBits - 1) : i * LongBits + b \in pending \ masked}
Scan(c) ==
  /\ callback[c] = "scan" /\ l1[c] # {}
  /\ LET i == Min(l1[c]) IN
     IF Active(i) = {}
     THEN /\ l1' = [l1 EXCEPT ![c] = @ \ {i}] /\ UNCHANGED <<callback, port>>
     ELSE /\ port' = [port EXCEPT ![c] = i * ScanBits + Min(Active(i))]
          /\ Goto(c, "mask") /\ UNCHANGED l1
  /\ UNCHANGED <<evShared, evHistory, action, bind>>
EndCallback(c) ==
  /\ callback[c] = "scan" /\ l1[c] = {}
  /\ Goto(c, "out")
  /\ UNCHANGED <<evShared, evHistory, action, l1, port, bind>>

\* do_event: mask_evtchn, clear_evtchn ...
MaskEvtchn(c) ==
  /\ callback[c] = "mask"
  /\ masked' = masked \cup {port[c]} /\ Goto(c, "clear")
  /\ UNCHANGED <<pending, sel, upcall, evHistory, action, l1, port, bind>>
ClearEvtchn(c) ==
  /\ callback[c] = "clear"
  /\ pending' = pending \ {port[c]} /\ Goto(c, "handle")
  /\ UNCHANGED <<masked, sel, upcall, evHistory, action, l1, port, bind>>
\* ... the handler, unless the port is bound to another processor ...
WrongCpu(c) == PortCpu[port[c]] \notin {ANY_CPU, c}
Handle(c) ==
  /\ callback[c] = "handle"
  /\ IF WrongCpu(c)
     THEN stolen' = stolen \cup ({port[c]} \cap owed) /\ owed' = owed
     ELSE owed' = owed \ {port[c]} /\ stolen' = stolen \ {port[c]}
  /\ Goto(c, "unmask")
  /\ UNCHANGED <<evShared, vcpu, signals, action, l1, port, bind>>
\* ... and unmask_evtchn: clear the mask bit, look at the pending bit, mark the
\* processor's own selector and, if it was clear, request the upcall.
UnmaskBit(c) ==
  /\ callback[c] = "unmask"
  /\ masked' = masked \ {port[c]} /\ Goto(c, "test")
  /\ UNCHANGED <<pending, sel, upcall, evHistory, action, l1, port, bind>>
TestPending(c) ==
  /\ callback[c] = "test"
  /\ IF port[c] \in pending THEN Goto(c, "mark") /\ UNCHANGED port ELSE NextPort(c)
  /\ UNCHANGED <<evShared, evHistory, action, l1, bind>>
Marked(c, p) ==
  LET bit == p \div ScanBits IN
  /\ sel' = [sel EXCEPT ![c] = @ \cup {bit}]
  /\ upcall' = [upcall EXCEPT ![c] = @ \/ bit \notin sel[c]]
MarkSelector(c) ==
  /\ callback[c] = "mark" /\ Marked(c, port[c]) /\ NextPort(c)
  /\ UNCHANGED <<pending, masked, evHistory, action, l1, bind>>

\* ---- bind_evtchn, called by a thread ----
\* The port stays masked while its data, processor and handler are written.
bind_evtchn(c, p) ==
  /\ callback[c] = "out" /\ bind[c] = Idle /\ action[p] = "default"
  /\ \A d \in Cpus : bind[d].port # p
  /\ bind' = [bind EXCEPT ![c] = [step |-> "unmask", port |-> p]]
  /\ action' = [action EXCEPT ![p] = "bound"]
  /\ UNCHANGED <<evShared, owed, stolen, signals, callback, l1, port>>
\* A driver takes its events on any processor.
BindDriver(c, p) == PortCpu[p] = ANY_CPU /\ bind_evtchn(c, p) /\ UNCHANGED vcpu
\* An IPI port is created for the processor that it signals.
evtchn_alloc_ipi(c, p) ==
  /\ PortCpu[p] # ANY_CPU /\ bind_evtchn(c, p)
  /\ vcpu' = [vcpu EXCEPT ![p] = PortCpu[p]]
\* A VIRQ is bound to the processor that asks, idle_thread_fn of that processor.
bind_virq(c, p) ==
  /\ PortCpu[p] = c /\ bind_evtchn(c, p)
  /\ vcpu' = [vcpu EXCEPT ![p] = c]
\* ... and unmask_evtchn.
BindUnmask(c) ==
  /\ callback[c] = "out" /\ bind[c].step = "unmask"
  /\ masked' = masked \ {bind[c].port}
  /\ bind' = [bind EXCEPT ![c].step = "test"]
  /\ UNCHANGED <<pending, sel, upcall, evHistory, action, callback, l1, port>>
BindTest_blind(c) ==    \* Mutant: the pending bit is not looked at.
  /\ callback[c] = "out" /\ bind[c].step = "test"
  /\ bind' = [bind EXCEPT ![c] = Idle]
  /\ UNCHANGED <<evShared, evHistory, action, callback, l1, port>>
BindTest(c) ==
  /\ callback[c] = "out" /\ bind[c].step = "test"
  /\ bind' = [bind EXCEPT ![c] =
                IF @.port \in pending THEN [@ EXCEPT !.step = "mark"] ELSE Idle]
  /\ UNCHANGED <<evShared, evHistory, action, callback, l1, port>>
BindMark(c) ==
  /\ callback[c] = "out" /\ bind[c].step = "mark"
  /\ Marked(c, bind[c].port) /\ bind' = [bind EXCEPT ![c] = Idle]
  /\ UNCHANGED <<pending, masked, evHistory, action, callback, l1, port>>

\* unbind_evtchn: the port stays open, its events go to the default handler.
UnbindEvtchn(p) ==
  /\ action[p] = "bound" /\ \A c \in Cpus : bind[c].port # p
  /\ action' = [action EXCEPT ![p] = "default"]
  /\ UNCHANGED <<evShared, evHistory, callback, l1, port, bind>>

CallbackStep(c) ==
  \/ Upcall(c) \/ TakeSelector(c) \/ Scan(c) \/ EndCallback(c)
  \/ MaskEvtchn(c) \/ ClearEvtchn(c) \/ Handle(c)
  \/ UnmaskBit(c) \/ TestPending(c) \/ MarkSelector(c)
BindStep(c) == BindUnmask(c) \/ BindTest(c) \/ BindMark(c)

EvNext ==
  \/ \E p \in Ports : Signal(p)
  \/ \E p \in Ports, c \in Cpus : Rebind(p, c)
  \/ \E p \in Ports, c \in Cpus : BindDriver(c, p)
  \/ \E p \in Ports, c \in Cpus : evtchn_alloc_ipi(c, p)
  \/ \E p \in Ports, c \in Cpus : bind_virq(c, p)
  \/ \E c \in Cpus : CallbackStep(c)
  \/ \E c \in Cpus : BindStep(c)
  \/ \E p \in Ports : UnbindEvtchn(p)

\* ---- Properties ----
\* A processor that is going to look at the port again.
WillScan(p) == \E c \in Cpus :
  \/ SelectorBit(p) \in sel[c] /\ (upcall[c] \/ callback[c] = "select")
  \/ SelectorBit(p) \in l1[c] /\ callback[c] # "out"
\* A processor inside do_event or bind_evtchn for the port, before its last
\* look at the pending bit.
WillTest(p, steps) == \E c \in Cpus :
  \/ port[c] = p /\ callback[c] \in steps
  \/ bind[c].port = p /\ bind[c].step \in steps
Coming(p) ==
  \/ p \notin pending /\ WillTest(p, {"handle"})
  \/ p \in pending /\ WillTest(p, {"mask", "clear", "handle", "unmask", "test", "mark"})
  \/ p \in pending /\ p \in masked /\ action[p] = "default"
  \/ p \in pending /\ p \notin masked /\ WillScan(p)

\* An event is never forgotten (unmask_evtchn, do_event, bind_evtchn against
\* the hypervisor and the other processors): a port that was signalled is
\* still pending where somebody is going to look at it, or its handler is
\* about to run.  Only an event of a port bound to one processor can be lost,
\* when another processor's scan takes it first.
EventsNotLost == \A p \in owed \ stolen : Coming(p)

\* A port nobody is working on is unmasked, so the hypervisor reports it.
QuietPortsAreOpen ==
  \A p \in Ports : action[p] = "bound" /\ p \in masked =>
    WillTest(p, {"mask", "clear", "handle", "unmask"})
=============================================================================
