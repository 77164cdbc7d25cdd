------------------------------- MODULE Clock -------------------------------
(* The time of day (arch/time.c): the values that Xen publishes for each     *)
(* processor and for the wall clock, their shadow copies, monotonic_clock,   *)
(* gettimeofday and the timer interrupt.                                     *)
(*                                                                           *)
(* A value is the number of the update it stems from: a time is right when   *)
(* all it was computed from belongs together.  A processor runs a thread or, *)
(* in the middle of it, the timer interrupt; preemption is off throughout.   *)
EXTENDS Integers, Sequences

CONSTANTS
  ClockCpus,    \* processors
  Budgets       \* bounds, one record for each workload: the processors in use,
                \* updates by Xen of the processors' times and of the wall
                \* clock, timer interrupts, and calls

ASSUME ClockAssumption ==
  /\ ClockCpus \subseteq Nat
  /\ Budgets \subseteq [on : SUBSET ClockCpus, updates : Nat, walls : Nat,
                        ticks : Nat, reads : Nat]

VARIABLES
  src,          \* vcpu_info[].time
  wc,           \* wc_version, wc_sec and wc_nsec of the shared page
  shadow,       \* shadow_time of each processor
  shadow_ts,    \* the wall clock's copy
  lock,         \* holder of wallclock_lock
  run,          \* what the thread and the interrupt of each processor are at
  torn,         \* processors interrupted between a load and its store
  left          \* the budget left

ckVars == <<src, wc, shadow, shadow_ts, lock, run, torn, left>>
ckXen == <<src, wc>>
ckData == <<shadow, shadow_ts, lock, torn, left>>

\* scale: tsc_to_nsec_mul and tsc_shift.
Copied == <<"version", "tsc", "sys", "scale">>
WallCopied == <<"version", "sec", "nsec">>
Fields(r) == DOMAIN r \ {"version"}
Of1(names) == [f \in names |-> IF f = "version" THEN 2 ELSE 1]
NoCall == [pc |-> "idle", i |-> 1, reg |-> 0, local |-> 0, back |-> "idle",
           end |-> "idle", since |-> 0, read |-> Of1({"tsc", "sys", "scale"}),
           day |-> Of1({"sec", "nsec"})]
Free == <<"nobody">>

\* init_time and the first timer interrupts have copied the first values.
CkInit ==
  /\ src = [c \in ClockCpus |-> Of1({"version", "tsc", "sys", "scale"})]
  /\ wc = Of1({"version", "sec", "nsec"})
  /\ shadow = src /\ shadow_ts = wc /\ lock = Free
  /\ run = [c \in ClockCpus |-> [x \in {"thread", "irq"} |-> NoCall]]
  /\ torn = {} /\ left \in Budgets

\* ---- Xen: the version is odd while the values change ----
Began(r) == [r EXCEPT !.version = @ + 1]
Changed(r, f) == [r EXCEPT ![f] = (r.version + 1) \div 2]
Stale(r) == {f \in Fields(r) : r[f] # (r.version + 1) \div 2}
XenBegins ==
  /\ \/ /\ left.updates > 0 /\ left' = [left EXCEPT !.updates = @ - 1]
        /\ \E c \in left.on : src[c].version % 2 = 0 /\ src' = [src EXCEPT ![c] = Began(@)]
        /\ wc' = wc
     \/ /\ left.walls > 0 /\ left' = [left EXCEPT !.walls = @ - 1]
        /\ wc.version % 2 = 0 /\ wc' = Began(wc) /\ src' = src
  /\ UNCHANGED <<shadow, shadow_ts, lock, run, torn>>
XenWrites ==
  /\ \/ /\ \E c \in ClockCpus : /\ src[c].version % 2 = 1
                                /\ \E f \in Stale(src[c]) : src' = [src EXCEPT ![c] = Changed(@, f)]
        /\ wc' = wc
     \/ wc.version % 2 = 1 /\ (\E f \in Stale(wc) : wc' = Changed(wc, f)) /\ src' = src
  /\ UNCHANGED <<ckData, run>>
XenEnds ==
  /\ \/ /\ \E c \in ClockCpus : /\ src[c].version % 2 = 1 /\ Stale(src[c]) = {}
                                /\ src' = [src EXCEPT ![c] = Began(@)]
        /\ wc' = wc
     \/ wc.version % 2 = 1 /\ Stale(wc) = {} /\ wc' = Began(wc) /\ src' = src
  /\ UNCHANGED <<ckData, run>>

\* ---- Steps of a context x of processor c ----
Executes(c, x) == x = IF run[c]["irq"].pc # "idle" THEN "irq" ELSE "thread"
Doing(c, x, pc) == Executes(c, x) /\ run[c][x].pc = pc
Becomes(c, x, r) == run' = [run EXCEPT ![c][x] = r]
Goes(c, x, pc) == Becomes(c, x, [run[c][x] EXCEPT !.pc = pc])

\* monotonic_clock.
Called(c, end) == [NoCall EXCEPT !.pc = "local", !.end = end,
                                 !.since = src[c].version \div 2]
monotonic_clock(c) ==
  /\ Doing(c, "thread", "idle") /\ c \in left.on /\ left.reads > 0
  /\ Becomes(c, "thread", Called(c, "idle")) /\ left' = [left EXCEPT !.reads = @ - 1]
  /\ UNCHANGED <<ckXen, shadow, shadow_ts, lock, torn>>
ReadVersion(c, x) ==
  /\ Doing(c, x, "local")
  /\ Becomes(c, x, [run[c][x] EXCEPT !.local = shadow[c].version, !.pc = "sys"])
  /\ UNCHANGED <<ckXen, ckData>>
\* system_timestamp, then what get_nsec_offset reads.
AfterRead == [sys |-> "tsc", tsc |-> "scale", scale |-> "fresh"]
get_nsec_offset(c, x) == \E f \in DOMAIN AfterRead :
  /\ Doing(c, x, f)
  /\ Becomes(c, x, [run[c][x] EXCEPT !.read[f] = shadow[c][f], !.pc = AfterRead[f]])
  /\ UNCHANGED <<ckXen, ckData>>
time_values_up_to_date(c) == shadow[c].version = src[c].version
Refresh(c, x) ==
  /\ Doing(c, x, "fresh")
  /\ Becomes(c, x, IF time_values_up_to_date(c)
                   THEN [run[c][x] EXCEPT !.pc = "compare"]
                   ELSE [run[c][x] EXCEPT !.pc = "load", !.i = 1, !.back = "compare"])
  /\ UNCHANGED <<ckXen, ckData>>
CompareVersions_never(c, x) ==   \* Mutant: the loop is left without comparing.
  /\ Doing(c, x, "compare") /\ Goes(c, x, "time") /\ UNCHANGED <<ckXen, ckData>>
CompareVersions(c, x) ==
  /\ Doing(c, x, "compare")
  /\ Goes(c, x, IF run[c][x].local # shadow[c].version THEN "local" ELSE "time")
  /\ UNCHANGED <<ckXen, ckData>>
ReturnTime(c, x) ==
  /\ Doing(c, x, "time")
  /\ Becomes(c, x, [NoCall EXCEPT !.pc = run[c][x].end])
  /\ UNCHANGED <<ckXen, ckData>>

\* get_time_values_from_xen: each value is loaded and then stored; the copy is
\* taken if the version has not changed and is even.
LoadValue(c, x) ==
  /\ Doing(c, x, "load")
  /\ Becomes(c, x, [run[c][x] EXCEPT !.reg = src[c][Copied[run[c][x].i]], !.pc = "store"])
  /\ UNCHANGED <<ckXen, ckData>>
StoreValue(c, x) ==
  /\ Doing(c, x, "store")
  /\ LET i == run[c][x].i IN
     /\ shadow' = [shadow EXCEPT ![c][Copied[i]] = run[c][x].reg]
     /\ Becomes(c, x, IF i = Len(Copied) THEN [run[c][x] EXCEPT !.pc = "check"]
                      ELSE [run[c][x] EXCEPT !.i = i + 1, !.pc = "load"])
  /\ UNCHANGED <<ckXen, shadow_ts, lock, torn, left>>
CheckVersion(c, x) ==
  /\ Doing(c, x, "check")
  /\ Becomes(c, x, IF src[c].version % 2 = 1 \/ ~time_values_up_to_date(c)
                   THEN [run[c][x] EXCEPT !.pc = "load", !.i = 1]
                   ELSE [run[c][x] EXCEPT !.pc = run[c][x].back])
  /\ UNCHANGED <<ckXen, ckData>>

\* gettimeofday, with interrupts off from spin_lock_irqsave on.
gettimeofday(c) ==
  /\ Doing(c, "thread", "idle") /\ c \in left.on /\ left.reads > 0 /\ lock = Free
  /\ lock' = <<c, "thread">> /\ left' = [left EXCEPT !.reads = @ - 1]
  /\ Becomes(c, "thread", Called(c, "day"))
  /\ UNCHANGED <<ckXen, shadow, shadow_ts, torn>>
ReadDay(c) ==
  /\ Doing(c, "thread", "day")
  /\ Becomes(c, "thread", [run[c]["thread"] EXCEPT
                !.day = [sec |-> shadow_ts.sec, nsec |-> shadow_ts.nsec], !.pc = "unlock"])
  /\ UNCHANGED <<ckXen, ckData>>
EndDay(c) ==
  /\ Doing(c, "thread", "unlock") /\ lock' = Free /\ Becomes(c, "thread", NoCall)
  /\ UNCHANGED <<ckXen, shadow, shadow_ts, torn, left>>

\* timer_handler: get_time_values_from_xen ...
IrqsOff(c) == lock = <<c, "thread">>
timer_handler(c) ==
  /\ Executes(c, "thread") /\ ~IrqsOff(c) /\ c \in left.on /\ left.ticks > 0
  /\ left' = [left EXCEPT !.ticks = @ - 1]
  /\ Becomes(c, "irq", [NoCall EXCEPT !.pc = "load", !.back = "wall lock"])
  /\ torn' = IF run[c]["thread"].pc = "store" /\ run[c]["thread"].i # 1
             THEN torn \cup {c} ELSE torn
  /\ UNCHANGED <<ckXen, shadow, shadow_ts, lock>>
\* ... update_wallclock ...
LockWall(c) ==
  /\ Doing(c, "irq", "wall lock") /\ lock = Free
  /\ lock' = <<c, "irq">>
  /\ Becomes(c, "irq", [run[c]["irq"] EXCEPT !.pc = "wall", !.i = 1])
  /\ UNCHANGED <<ckXen, shadow, shadow_ts, torn, left>>
CopyWall(c) ==
  /\ Doing(c, "irq", "wall")
  /\ LET i == run[c]["irq"].i IN
     /\ shadow_ts' = [shadow_ts EXCEPT ![WallCopied[i]] = wc[WallCopied[i]]]
     /\ Becomes(c, "irq", IF i = Len(WallCopied) THEN [run[c]["irq"] EXCEPT !.pc = "wall check"]
                          ELSE [run[c]["irq"] EXCEPT !.i = i + 1])
  /\ UNCHANGED <<ckXen, shadow, lock, torn, left>>
\* ... and check_need_resched, which may set the timer at a time from now.
CheckWall(c) ==
  /\ Doing(c, "irq", "wall check")
  /\ IF wc.version % 2 = 1 \/ shadow_ts.version # wc.version
     THEN /\ Becomes(c, "irq", [run[c]["irq"] EXCEPT !.pc = "wall", !.i = 1])
          /\ lock' = lock
     ELSE /\ lock' = Free
          /\ Becomes(c, "irq", NoCall) \/ Becomes(c, "irq", Called(c, "idle"))
  /\ UNCHANGED <<ckXen, shadow, shadow_ts, torn, left>>

ClockStep(c, x) ==
  \/ ReadVersion(c, x) \/ get_nsec_offset(c, x) \/ Refresh(c, x)
  \/ CompareVersions(c, x) \/ ReturnTime(c, x)
  \/ LoadValue(c, x) \/ StoreValue(c, x) \/ CheckVersion(c, x)
DayStep(c) == ReadDay(c) \/ EndDay(c)
HandlerStep(c) == LockWall(c) \/ CopyWall(c) \/ CheckWall(c)
CkNext ==
  \/ XenBegins \/ XenWrites \/ XenEnds
  \/ \E c \in ClockCpus : monotonic_clock(c) \/ gettimeofday(c) \/ timer_handler(c)
  \/ \E c \in ClockCpus, x \in {"thread", "irq"} : ClockStep(c, x)
  \/ \E c \in ClockCpus : DayStep(c) \/ HandlerStep(c)

\* ---- Properties ----
\* What monotonic_clock returns is computed from values of one update, which
\* Xen had not replaced when the call began, whatever interrupts and updates
\* come in between (the versions in monotonic_clock and
\* get_time_values_from_xen).  The one exception is an interrupt between the
\* load and the store of a value: it replaces the copy, whose version then
\* covers up for the old value that is stored into it.
TimeBelongsTogether == \A c \in ClockCpus, x \in {"thread", "irq"} :
  run[c][x].pc = "time" /\ c \notin torn =>
    LET r == run[c][x].read IN r.sys = r.tsc /\ r.tsc = r.scale /\ r.sys >= run[c][x].since
\* The same of gettimeofday's seconds and nanoseconds, with no exception.
DayBelongsTogether == \A c \in ClockCpus :
  run[c]["thread"].pc = "unlock" => run[c]["thread"].day.sec = run[c]["thread"].day.nsec
\* The timer interrupt never waits for the lock of the thread it interrupted.
WallLockIsSafe == \A c \in ClockCpus :
  run[c]["irq"].pc = "wall lock" => lock # <<c, "thread">>
=============================================================================
