-------------------------------- MODULE Idle --------------------------------
(* Idle processors: the idle loop and block_domain against threads made     *)
(* ready by other processors, by interrupts and by timeouts (sched.c, the   *)
(* kick of smp.c, block_domain of arch/time.c).                             *)
(*                                                                          *)
(* The idle loop disables interrupts before it looks for work and blocks    *)
(* with them disabled; the other processors are not held off by that, and   *)
(* a processor is kicked only if it has already said that it sleeps.  Which *)
(* ready thread is picked, and the flags of threads, are Sched's matter.    *)
EXTENDS Integers, FiniteSets, FiniteSetsExt

CONSTANTS
  IdCpus,             \* processors; the lowest one boots
  IdThreads, NoIdThread,
  TimeSlice,          \* of a thread, and of the idle thread
  DefaultSleep,       \* how long a processor blocks when no thread sleeps
  IdBudgets           \* bounds: calls, interrupts and ticks of a behaviour

ANYWHERE == -1         \* thread->cpu of a thread that has not run
Never == -1            \* no timer set
ASSUME IdleAssumption ==
  /\ IdCpus \subseteq Nat /\ IdCpus # {} /\ IsFiniteSet(IdCpus)
  /\ NoIdThread \notin IdThreads
  /\ TimeSlice \in Nat \ {0} /\ DefaultSleep \in Nat \ {0}

VARIABLES
  at,          \* the step of each processor
  runs,        \* the thread it runs
  cpu_state,
  home,        \* thread->cpu
  ready,       \* threads on the ready queue that nobody runs
  sleep_queue,      \* its entries: thread and timeout
  kicks,       \* wake-ups of each processor whose kick is not done
  late,        \* threads whose kick found their processor not asleep
  until, timer,   \* what block_domain is given, and Xen's timer
  raised,      \* events pending for each processor
  now,
  idBudget     \* calls, interrupts and ticks left

idVars == <<at, runs, cpu_state, home, ready, sleep_queue, kicks, late, until, timer,
            raised, now, idBudget>>
threadVars == <<runs, home, ready, sleep_queue, late>>
IdGoto(c, step) == at' = [at EXCEPT ![c] = step]

\* init_smp: the other processors are SLEEPING until their idle threads run.
IdInit ==
  /\ at = [c \in IdCpus |-> "start"] /\ runs = [c \in IdCpus |-> NoIdThread]
  /\ cpu_state = [c \in IdCpus |-> IF c = Min(IdCpus) THEN "UP" ELSE "SLEEPING"]
  /\ home = [t \in IdThreads |-> ANYWHERE] /\ ready = IdThreads
  /\ sleep_queue = {} /\ kicks = [c \in IdCpus |-> {}] /\ late = {}
  /\ until = [c \in IdCpus |-> 0] /\ timer = [c \in IdCpus |-> Never]
  /\ raised = [c \in IdCpus |-> {}] /\ now = 0
  /\ idBudget \in IdBudgets
IdleStarts(c) ==
  /\ at[c] = "start"
  /\ cpu_state' = [cpu_state EXCEPT ![c] = "UP"] /\ IdGoto(c, "schedule")
  /\ UNCHANGED <<threadVars, kicks, until, timer, raised, now, idBudget>>

\* ---- Making threads ready ----
\* wake: threads ts go on the ready queue, and the processors of those that are
\* not processor c's own are to be kicked.
WokenBy(c, ts) ==
  /\ ready' = ready \cup ts
  /\ kicks' = [kicks EXCEPT ![c] =
       @ \cup {[thread |-> t, step |-> "test"] : t \in {u \in ts : home[u] \notin {c, ANYWHERE}}}]
\* smp_signal_cpu: look whether the processor sleeps ...
smp_signal_cpu(c, k) ==
  /\ k \in kicks[c] /\ k.step = "test"
  /\ IF cpu_state[home[k.thread]] = "SLEEPING"
     THEN /\ kicks' = [kicks EXCEPT ![c] = (@ \ {k}) \cup {[k EXCEPT !.step = "send"]}]
          /\ UNCHANGED late
     ELSE /\ kicks' = [kicks EXCEPT ![c] = @ \ {k}]
          /\ late' = late \cup ({k.thread} \cap ready)
  /\ UNCHANGED <<at, runs, cpu_state, home, ready, sleep_queue, until, timer, raised, now, idBudget>>
\* ... and notify it.
notify_remote_via_evtchn(c, k) ==
  /\ k \in kicks[c] /\ k.step = "send"
  /\ kicks' = [kicks EXCEPT ![c] = @ \ {k}]
  /\ raised' = [raised EXCEPT ![home[k.thread]] = @ \cup {"ipi"}]
  /\ UNCHANGED <<at, threadVars, cpu_state, until, timer, now, idBudget>>

\* ---- schedule ----
Runnable(t) == t \in ready \/ \E c \in IdCpus : runs[c] = t
\* sched_wake_expired; expired entries stay on the queue until their threads run.
sched_wake_expired(c) ==
  /\ at[c] = "schedule" /\ kicks[c] = {}
  /\ WokenBy(c, {s.thread : s \in {x \in sleep_queue : x.timeout <= now /\ ~Runnable(x.thread)}})
  /\ IdGoto(c, "pick")
  /\ UNCHANGED <<runs, cpu_state, home, sleep_queue, late, until, timer, raised, now, idBudget>>
\* The thread that was preempted is ready again, one that can run here is run,
\* and the timer is set for its time slice or the idle thread's.
Candidates(c) ==
  IF cpu_state[c] # "UP" THEN {}
  ELSE {t \in ready \cup ({runs[c]} \ {NoIdThread}) : home[t] \in {c, ANYWHERE}}
Run(c, t) ==
  /\ runs' = [runs EXCEPT ![c] = t] /\ home' = [home EXCEPT ![t] = c]
  /\ ready' = (ready \cup ({runs[c]} \ {NoIdThread})) \ {t}
  /\ late' = late \ {t} /\ sleep_queue' = {s \in sleep_queue : s.thread # t}
  /\ IdGoto(c, "thread")
pick_thread(c) ==
  /\ at[c] = "pick" /\ kicks[c] = {}
  /\ \/ \E t \in Candidates(c) : Run(c, t)
     \/ Candidates(c) = {} /\ IdGoto(c, "check") /\ UNCHANGED threadVars
  /\ timer' = [timer EXCEPT ![c] = now + TimeSlice]
  /\ UNCHANGED <<cpu_state, kicks, until, raised, now, idBudget>>

\* ---- The idle loop ----
\* check_suspend: a processor that is not UP stays in its loop; then interrupts
\* are disabled.
check_suspend(c) ==
  /\ at[c] = "check"
  /\ IdGoto(c, IF cpu_state[c] = "UP" THEN "until" ELSE "spin")
  /\ UNCHANGED <<threadVars, cpu_state, kicks, until, timer, raised, now, idBudget>>
\* The first timeout of the sleep queue, -1 if it has passed.
sched_blocking_time(c) ==
  /\ at[c] = "until"
  /\ LET first == IF sleep_queue = {} THEN now + DefaultSleep ELSE Min({s.timeout : s \in sleep_queue})
     IN until' = [until EXCEPT ![c] = IF first < now THEN -1 ELSE first]
  /\ IdGoto(c, "look")
  /\ UNCHANGED <<threadVars, cpu_state, kicks, timer, raised, now, idBudget>>
\* A thread that waits for any processor keeps this one from blocking.
runnable_threads(c) ==
  /\ at[c] = "look"
  /\ IF until[c] > 0 /\ ready = {} THEN IdGoto(c, "block_domain") /\ UNCHANGED until
     ELSE IdGoto(c, "schedule") /\ until' = [until EXCEPT ![c] = 0]
  /\ UNCHANGED <<threadVars, cpu_state, kicks, timer, raised, now, idBudget>>
\* block_domain: unless it is late, set the timer, ...
block_domain(c) ==
  /\ at[c] = "block_domain"
  /\ IF now < until[c]
     THEN timer' = [timer EXCEPT ![c] = until[c]] /\ IdGoto(c, "sleep")
     ELSE UNCHANGED timer /\ IdGoto(c, "schedule")
  /\ until' = [until EXCEPT ![c] = 0]
  /\ UNCHANGED <<threadVars, cpu_state, kicks, raised, now, idBudget>>
\* ... say that the processor sleeps, ...
SetSleeping(c) ==
  /\ at[c] = "sleep"
  /\ cpu_state' = [cpu_state EXCEPT ![c] = "SLEEPING"] /\ IdGoto(c, "blocked")
  /\ UNCHANGED <<threadVars, kicks, until, timer, raised, now, idBudget>>
\* ... block with interrupts enabled again until an event has been handled, and
\* say that it is up.
SetUp(c) ==
  /\ at[c] = "up" /\ kicks[c] = {}
  /\ cpu_state' = [cpu_state EXCEPT ![c] = "UP"] /\ IdGoto(c, "schedule")
  /\ UNCHANGED <<threadVars, kicks, until, timer, raised, now, idBudget>>

\* ---- Interrupts and time ----
Open == {"schedule", "pick", "thread", "check", "blocked"}
InterruptsOff == {"until", "look", "block_domain", "sleep"}
\* The callback of a processor: a device's handler wakes a thread, and the
\* timer's has the current thread preempted.
HandleEvents(c, opened) ==
  /\ at[c] \in opened /\ raised[c] # {}
  /\ raised' = [raised EXCEPT ![c] = {}]
  /\ IF "device" \in raised[c]
     THEN \E t \in IdThreads \cup {NoIdThread} :
            /\ t # NoIdThread => ~Runnable(t) /\ \A s \in sleep_queue : s.thread # t
            /\ WokenBy(c, {t} \ {NoIdThread})
     ELSE UNCHANGED <<ready, kicks>>
  /\ at' = [at EXCEPT ![c] =
       CASE @ = "blocked" -> "up" [] @ = "thread" /\ "timer" \in raised[c] -> "schedule"
         [] OTHER -> @]
  /\ UNCHANGED <<runs, cpu_state, home, sleep_queue, late, until, timer, now, idBudget>>
Upcalled_anywhere(c) == HandleEvents(c, Open \cup InterruptsOff)   \* Mutant: interrupts stay enabled in the idle loop.
Upcalled(c) == HandleEvents(c, Open)
DeviceEvent(c) ==
  /\ idBudget.interrupts > 0 /\ idBudget' = [idBudget EXCEPT !.interrupts = @ - 1]
  /\ at[c] # "start" /\ raised' = [raised EXCEPT ![c] = @ \cup {"device"}]
  /\ UNCHANGED <<at, threadVars, cpu_state, kicks, until, timer, now>>
Expires(c) == timer[c] # Never /\ timer[c] <= now + 1
TimePasses ==
  /\ idBudget.ticks > 0 /\ idBudget' = [idBudget EXCEPT !.ticks = @ - 1]
  /\ now' = now + 1
  /\ raised' = [c \in IdCpus |-> raised[c] \cup IF Expires(c) THEN {"timer"} ELSE {}]
  /\ timer' = [c \in IdCpus |-> IF Expires(c) THEN Never ELSE timer[c]]
  /\ UNCHANGED <<at, threadVars, cpu_state, kicks, until>>

\* ---- What threads do ----
IdCall(c) ==
  /\ at[c] = "thread" /\ kicks[c] = {}
  /\ idBudget.calls > 0 /\ idBudget' = [idBudget EXCEPT !.calls = @ - 1]
wake(c, t) ==
  /\ IdCall(c) /\ ~Runnable(t) /\ \A s \in sleep_queue : s.thread # t
  /\ WokenBy(c, {t})
  /\ UNCHANGED <<at, runs, cpu_state, home, sleep_queue, late, until, timer, raised, now>>
Leaves(c) == runs' = [runs EXCEPT ![c] = NoIdThread] /\ IdGoto(c, "schedule")
block(c) ==
  /\ IdCall(c) /\ Leaves(c)
  /\ UNCHANGED <<cpu_state, home, ready, sleep_queue, kicks, late, until, timer, raised, now>>
nanosleep(c, nanosecs) ==
  /\ IdCall(c) /\ Leaves(c)
  /\ sleep_queue' = sleep_queue \cup {[thread |-> runs[c], timeout |-> now + nanosecs]}
  /\ UNCHANGED <<cpu_state, home, ready, kicks, late, until, timer, raised, now>>

IdNext ==
  \/ \E c \in IdCpus : IdleStarts(c) \/ sched_wake_expired(c) \/ pick_thread(c)
  \/ \E c \in IdCpus : check_suspend(c) \/ sched_blocking_time(c) \/ runnable_threads(c)
  \/ \E c \in IdCpus : block_domain(c) \/ SetSleeping(c) \/ SetUp(c)
  \/ \E c \in IdCpus, k \in UNION {kicks[d] : d \in IdCpus} :
       smp_signal_cpu(c, k) \/ notify_remote_via_evtchn(c, k)
  \/ \E c \in IdCpus : Upcalled(c) \/ DeviceEvent(c) \/ block(c)
  \/ \E c \in IdCpus, t \in IdThreads : wake(c, t)
  \/ \E c \in IdCpus, n \in 1..2 : nanosleep(c, n)
  \/ TimePasses

\* ---- Properties ----
KickComing(t) == \E c \in IdCpus : \E k \in kicks[c] : k.thread = t

\* A processor that is blocked in Xen with nothing pending will wake up by
\* itself, no later than the first of its threads that sleep, and leaves no
\* thread of its own ready but those made ready by another processor between
\* its last look and its going to sleep; and no processor is caught in the loop
\* of check_suspend.
SleepersWake ==
  \A c \in IdCpus :
    /\ at[c] = "blocked" /\ raised[c] = {} =>
         /\ timer[c] > now
         /\ \A s \in sleep_queue : home[s.thread] = c /\ ~Runnable(s.thread) => timer[c] <= s.timeout
         /\ \A t \in ready : home[t] = c => t \in late \/ KickComing(t)
    /\ at[c] # "spin"
=============================================================================
