------------------------------- MODULE Sched -------------------------------
(***************************************************************************)
(* The SMP scheduler (sched.c): per-thread flags, the ready queue, the     *)
(* sleep queue, the dead queue and the joiner lists, and the life of a     *)
(* thread through create, yield, sleep, join, hibernate, suspend, cancel,  *)
(* exit and reap, on several processors with preemption.                   *)
(*                                                                         *)
(* A step is the body of one lock section (ready_lock, sleep_lock,         *)
(* dead_lock) or the code between two of them.  struct thread has a single *)
(* list node, ready_list, that is linked on the ready queue, the dead      *)
(* queue or the joiner list of another thread: linking a node that is      *)
(* linked already corrupts both lists, and is recorded as a bug, like every *)
(* BUG() of the code.  The machine stops at a bug.                         *)
(***************************************************************************)
EXTENDS Integers, Sequences, FiniteSets, SequencesExt

CONSTANTS
  Threads, NoThread,
  Cpus, NoCpu,
  Workloads     \* what the threads of a behaviour may do; see below

\* A workload: the threads that exist at the start, the processors that are
\* up, the operations threads call, how many calls each thread and how many
\* preemptions each processor has left, and whether the compiled code clears
\* RUNNING_FLAG in one indivisible step.
ASSUME ThreadsAssumption == NoThread \notin Threads /\ IsFiniteSet(Threads)
ASSUME CpusAssumption    == NoCpu \notin Cpus
ASSUME WorkloadsAssumption ==
  Workloads \subseteq
    [main : SUBSET Threads, cpus : SUBSET Cpus, ops : SUBSET STRING, atomic : BOOLEAN,
     calls : [Threads -> Nat], preempts : [Cpus -> Nat]]

READY == "ready_queue"
DEAD  == "dead_queue"

\* Workloads outside the races the scheduler does not arbitrate.  A flag update
\* that is not indivisible loses a concurrent one.  suspend_thread clears the
\* flags of a thread that another processor may have picked, and leaves a sleeper
\* or joiner that was woken meanwhile on the ready queue.  sched_wake_joiner takes
\* a joiner that its joinee's exit has woken off the ready queue.
Careful(w) ==
  LET OneProcessor == \E c \in Cpus : w.cpus \subseteq {c} IN
  /\ w.atomic \/ OneProcessor
  /\ "suspend" \in w.ops => OneProcessor /\ "sleep" \notin w.ops /\ "join" \notin w.ops
  /\ ~({"exit", "join", "cancel"} \subseteq w.ops)

\* Threads and the two queues name different lists.
ASSUME ListsAssumption == READY \notin Threads /\ DEAD \notin Threads

VARIABLES
  k,            \* thread flags, the lists threads are linked on, the bug hit
  sleep_queue,  \* sleeping threads in the order of their timeouts
  due,          \* how many leading entries of sleep_queue have timed out
  thread_list,  \* threads that exist: created and not reaped
  cpu,          \* thread->cpu
  current,      \* the thread each processor executes, NoThread for idle
  mode,         \* where each processor is in schedule() or its idle loop
  next,         \* pick_thread's result
  prev,         \* the thread switched out
  saved,        \* flags loaded by a clear_running that is not indivisible
  pc, target,   \* each thread's next step and its argument
  dead_lock, reuse_lock,
  workload      \* what is left of the workload of this behaviour

cpuVars  == <<cpu, current, mode, next, prev, saved>>
lockVars == <<dead_lock, reuse_lock>>
vars == <<k, sleep_queue, due, thread_list, cpuVars, pc, target, lockVars,
          workload>>

\* Steps that end in a call of schedule(), and where it returns to.
AfterSchedule ==
  [yield |-> "run", join_sched |-> "join_clear", sleep_sched |-> "sleep_done",
   hib_sched |-> "run", exit_sched |-> "dead"]

\* Steps at which preempt_count is not zero.
NotPreemptible == {"join_add", "sleep_q", "exit_dead", "susp_do", "dead"}

Steps == DOMAIN AfterSchedule \cup NotPreemptible \cup
         {"none", "run", "join_lock", "join_flag", 
          "join_clear", "sleep_done", "cancel_do", "cancel_mark"}

Init ==
  /\ workload \in Workloads
  /\ k = [flags |-> [t \in Threads |-> IF t \in workload.main THEN {"RUNNABLE"} ELSE {}],
          lists |-> [l \in {READY, DEAD} \cup Threads |->
                       IF l = READY THEN SetToSeq(workload.main) ELSE << >>],
          bug   |-> "none"]
  /\ sleep_queue = << >>
  /\ due = 0
  /\ thread_list = workload.main
  /\ cpu = [t \in Threads |-> NoCpu]
  /\ current = [c \in Cpus |-> NoThread]
  /\ mode = [c \in Cpus |-> "exec"]
  /\ next = [c \in Cpus |-> NoThread]
  /\ prev = [c \in Cpus |-> NoThread]
  /\ saved = [c \in Cpus |-> {}]
  /\ pc = [t \in Threads |-> IF t \in workload.main THEN "run" ELSE "none"]
  /\ target = [t \in Threads |-> NoThread]
  /\ dead_lock = NoThread
  /\ reuse_lock = NoThread

-----------------------------------------------------------------------------
(* Operations on the flags and the lists: each maps a state s of k to the  *)
(* next one.                                                               *)

Has(s, t, F) == s.flags[t] \cap F # {}

SetFlags(s, t, F)   == [s EXCEPT !.flags[t] = @ \cup F]
ClearFlags(s, t, F) == [s EXCEPT !.flags[t] = @ \ F]

BUG(s, what) == [s EXCEPT !.bug = what]

Linked(s, t) == \E l \in DOMAIN s.lists : Contains(s.lists[l], t)

list_del_init(s, t) ==
  [s EXCEPT !.lists = [l \in DOMAIN s.lists |-> RemoveFirst(s.lists[l], t)]]

list_add_tail(s, t, l) ==
  IF Linked(s, t) THEN BUG(s, "list") ELSE [s EXCEPT !.lists[l] = Append(@, t)]

make_runnable(s, t) == list_add_tail(SetFlags(s, t, {"RUNNABLE"}), t, READY)

block(s, t) ==
  IF ~Has(s, t, {"RUNNABLE"})
    THEN BUG(s, "block")
    ELSE LET b == ClearFlags(s, t, {"RUNNABLE"})
         IN  IF Has(s, t, {"HIBERNATION", "SUSPENDED", "JOINING"})
               THEN b ELSE list_del_init(b, t)

\* Mutant: a joiner gets its flag but is not put on the ready queue.
wake_unqueued(s, t) ==
  IF Has(s, t, {"DYING"}) THEN BUG(s, "wake")
  ELSE IF Has(s, t, {"RUNNABLE", "HIBERNATION", "SUSPENDED"}) THEN s
  ELSE SetFlags(s, t, {"RUNNABLE"})

wake(s, t) ==
  IF Has(s, t, {"DYING"}) THEN BUG(s, "wake")
  ELSE IF Has(s, t, {"RUNNABLE", "HIBERNATION", "SUSPENDED"}) THEN s
  ELSE make_runnable(s, t)

hibernate(s, t) ==
  LET h == SetFlags(ClearFlags(s, t, {"RUNNABLE", "RUNNING"}), t, {"HIBERNATION"})
  IN  IF Has(s, t, {"SUSPENDED", "SLEEP"}) THEN h ELSE list_del_init(h, t)

restore(s, t) ==
  LET r == ClearFlags(s, t, {"HIBERNATION"})
  IN  IF Has(s, t, {"SUSPENDED", "SLEEP"}) THEN r ELSE make_runnable(r, t)

suspend_thread(s, t) ==
  LET z == SetFlags(ClearFlags(s, t, {"RUNNABLE", "RUNNING"}), t, {"SUSPENDED"})
  IN  IF Has(s, t, {"HIBERNATION", "SLEEP", "JOINING"}) THEN z ELSE list_del_init(z, t)

wake_suspended_thread(s, t) ==
  LET z == ClearFlags(s, t, {"SUSPENDED"})
  IN  IF Has(s, t, {"HIBERNATION", "SLEEP", "JOINING"}) THEN z ELSE make_runnable(z, t)

sched_wake_joiners(s, t) ==
  LET q == s.lists[t]
      w[i \in 0..Len(q)] ==
        IF i = 0 THEN s ELSE wake(list_del_init(w[i - 1], q[i]), q[i])
  IN  w[Len(q)]

\* The threads of the first n entries of the sleep queue are woken in turn.
WakeFirst(s, n) ==
  LET w[i \in 0..n] == IF i = 0 THEN s ELSE wake(w[i - 1], sleep_queue[i])
  IN  w[n]

\* Mutant: the last expired entry is missed.
sched_wake_expired_off_by_one(s) == WakeFirst(s, IF due = 0 THEN 0 ELSE due - 1)

\* Expired entries stay on the sleep queue until their thread removes them, and
\* are woken again by every schedule().
sched_wake_expired(s) == WakeFirst(s, due)

-----------------------------------------------------------------------------
(* schedule() and the idle loop of processor c *)

\* schedule() is entered: expired sleepers are woken.
EnterSchedule(c) ==
  /\ mode' = [mode EXCEPT ![c] = "pick"]
  /\ k' = sched_wake_expired(k)

\* Mutant: RUNNING_FLAG is not tested.
Eligible_running(s, c, t) == Has(s, t, {"RUNNABLE"}) /\ cpu[t] \in {c, NoCpu}

\* May pick_thread choose t on processor c?  A thread is not picked while
\* RUNNING_FLAG is set and stays on the processor that first ran it.
Eligible(s, c, t) ==
  Has(s, t, {"RUNNABLE"}) /\ ~Has(s, t, {"RUNNING"}) /\ cpu[t] \in {c, NoCpu}

\* Mutant: the node is not unlinked first.
Requeue_linked(s, p) ==
  IF p # NoThread /\ Has(s, p, {"RUNNABLE"}) THEN list_add_tail(s, p, READY) ELSE s

\* A thread that remains runnable goes to the tail of the ready queue.
Requeue(s, p) ==
  IF p # NoThread /\ Has(s, p, {"RUNNABLE"})
    THEN list_add_tail(list_del_init(s, p), p, READY) ELSE s

pick_thread(c) ==
  LET s == Requeue(k, current[c])
      q == s.lists[READY]
      e == {i \in 1..Len(q) : Eligible(s, c, q[i])}
      n == IF e = {} THEN NoThread ELSE q[Min(e)]
  IN  /\ k.bug = "none"
      /\ mode[c] = "pick"
      /\ mode' = [mode EXCEPT ![c] = "switch"]
      /\ next' = [next EXCEPT ![c] = n]
      /\ k' = IF n = NoThread THEN s ELSE SetFlags(s, n, {"RUNNING"})
      /\ UNCHANGED <<sleep_queue, due, thread_list, cpu, current, prev, saved,
                     pc, target, lockVars, workload>>

\* The processor continues in the thread that schedule() chose.
Resumed(n) == IF n = NoThread THEN "reap" ELSE "exec"

switch_threads(c) ==
  LET n == next[c]  p == current[c] IN
  /\ k.bug = "none"
  /\ mode[c] = "switch"
  /\ IF n # NoThread /\ (~Has(k, n, {"RUNNABLE"}) \/ Has(k, n, {"DYING"}))
       THEN /\ k' = BUG(k, "schedule")
            /\ UNCHANGED <<cpu, current, mode, next, prev>>
       ELSE /\ cpu' = IF n = NoThread THEN cpu ELSE [cpu EXCEPT ![n] = c]
            /\ current' = [current EXCEPT ![c] = n]
            /\ next' = [next EXCEPT ![c] = NoThread]
            /\ prev' = [prev EXCEPT ![c] = IF n = p THEN NoThread ELSE p]
            /\ mode' = [mode EXCEPT ![c] = IF n = p THEN Resumed(n) ELSE "switch_in"]
            /\ UNCHANGED k
  /\ UNCHANGED <<sleep_queue, due, thread_list, saved, pc, target,
                 lockVars, workload>>

\* Mutant: a dying thread keeps RUNNING_FLAG.
sched_switch_thread_in_dying(c) ==
  LET p == prev[c] IN
  /\ k.bug = "none"
  /\ mode[c] = "switch_in"
  /\ k' = IF p = NoThread \/ Has(k, p, {"DYING"}) THEN k ELSE ClearFlags(k, p, {"RUNNING"})
  /\ mode' = [mode EXCEPT ![c] = Resumed(current[c])]
  /\ prev' = [prev EXCEPT ![c] = NoThread]
  /\ UNCHANGED <<sleep_queue, due, thread_list, cpu, current, next, saved, pc,
                 target, lockVars, workload>>

\* clear_running(prev), outside every lock.  Unless flag updates are
\* indivisible it is a load here and a store in StoreFlags.
sched_switch_thread_in(c) ==
  LET p == prev[c] IN
  /\ k.bug = "none"
  /\ mode[c] = "switch_in"
  /\ IF workload.atomic \/ p = NoThread
       THEN /\ k' = IF p = NoThread THEN k ELSE ClearFlags(k, p, {"RUNNING"})
            /\ mode' = [mode EXCEPT ![c] = Resumed(current[c])]
            /\ prev' = [prev EXCEPT ![c] = NoThread]
            /\ UNCHANGED saved
       ELSE /\ saved' = [saved EXCEPT ![c] = k.flags[p]]
            /\ mode' = [mode EXCEPT ![c] = "store"]
            /\ UNCHANGED <<k, prev>>
  /\ UNCHANGED <<sleep_queue, due, thread_list, cpu, current, next, pc,
                 target, lockVars, workload>>

StoreFlags(c) ==
  /\ k.bug = "none"
  /\ mode[c] = "store"
  /\ k' = [k EXCEPT !.flags[prev[c]] = saved[c] \ {"RUNNING"}]
  /\ mode' = [mode EXCEPT ![c] = Resumed(current[c])]
  /\ prev' = [prev EXCEPT ![c] = NoThread]
  /\ saved' = [saved EXCEPT ![c] = {}]
  /\ UNCHANGED <<sleep_queue, due, thread_list, cpu, current, next,
                 pc, target, lockVars, workload>>

FreeThread(s, t) == sched_wake_joiners(list_del_init(s, t), t)

\* The threads of the dead queue that are in F are freed, in its order.
Reap(c, F) ==
  LET q == k.lists[DEAD]
      w[i \in 0..Len(q)] ==
        IF i = 0 THEN k ELSE IF q[i] \in F THEN FreeThread(w[i - 1], q[i]) ELSE w[i - 1]
  IN  /\ k.bug = "none"
      /\ mode[c] = "reap"
      /\ dead_lock = NoThread
      /\ k' = w[Len(q)]
      /\ thread_list' = thread_list \ F
      /\ mode' = [mode EXCEPT ![c] = "exec"]
      /\ UNCHANGED <<sleep_queue, due, cpu, current, next, prev, saved, pc,
                     target, lockVars, workload>>

\* Dead threads that last ran on processor c and have been switched out.
Reapable(c) ==
  {t \in ToSet(k.lists[DEAD]) :
     Has(k, t, {"DYING"}) /\ ~Has(k, t, {"RUNNING"}) /\ cpu[t] = c}

\* Mutant: every dead thread is freed, on whatever processor.
sched_reap_dead_any(c) == Reap(c, ToSet(k.lists[DEAD]))

\* The idle thread frees the dead threads of its processor.
sched_reap_dead(c) == Reap(c, Reapable(c))

\* Is there a thread on the ready queue that no processor runs (of whatever
\* affinity)?
runnable_threads == \E i \in 1..Len(k.lists[READY]) : ~Has(k, k.lists[READY][i], {"RUNNING"})

\* The idle loop calls schedule() again when a thread is ready or a timeout has
\* passed; otherwise the processor is blocked in block_domain.
idle_thread_fn(c) ==
  /\ k.bug = "none"
  /\ c \in workload.cpus
  /\ mode[c] = "exec" /\ current[c] = NoThread
  /\ runnable_threads \/ due > 0
  /\ EnterSchedule(c)
  /\ UNCHANGED <<sleep_queue, due, thread_list, cpu, current, next, prev, saved,
                 pc, target, lockVars, workload>>

-----------------------------------------------------------------------------
(* Thread t executing on processor c *)

\* Processor c is about to execute step s of thread t.
At(c, t, s) ==
  /\ k.bug = "none"
  /\ mode[c] = "exec"
  /\ current[c] = t
  /\ pc[t] = s

GoTo(t, s) == pc' = [pc EXCEPT ![t] = s]

\* A new call by thread t, within its bound.
Calls(c, t, op) ==
  /\ At(c, t, "run")
  /\ op \in workload.ops
  /\ workload.calls[t] > 0
  /\ workload' = [workload EXCEPT !.calls[t] = @ - 1]
  /\ UNCHANGED cpuVars

\* A further step of a call.
Continues(c, t, s) == At(c, t, s) /\ UNCHANGED <<cpuVars, workload>>

\* The PTE thread has reached PThreadStateLast: it is in or past exit_thread.
Ended(t) == pc[t] \in {"exit_dead", "exit_sched", "dead"}

Alive(t) == pc[t] # "none" /\ ~Ended(t)

schedule(c, t) ==
  /\ k.bug = "none"
  /\ mode[c] = "exec" /\ current[c] = t
  /\ pc[t] \in DOMAIN AfterSchedule
  /\ GoTo(t, AfterSchedule[pc[t]])
  /\ EnterSchedule(c)
  /\ UNCHANGED <<sleep_queue, due, thread_list, cpu, current, next, prev, saved,
                 target, lockVars, workload>>

\* The timer interrupt finds preempt_count = 0.
preempt_schedule(c, t) ==
  /\ k.bug = "none"
  /\ mode[c] = "exec" /\ current[c] = t
  /\ pc[t] \notin NotPreemptible
  /\ workload.preempts[c] > 0
  /\ workload' = [workload EXCEPT !.preempts[c] = @ - 1]
  /\ EnterSchedule(c)
  /\ UNCHANGED <<sleep_queue, due, thread_list, cpu, current, next, prev, saved,
                 pc, target, lockVars>>

\* pthread_create: create_thread, start_thread, then schedule().
create_thread(c, t, u) ==
  /\ Calls(c, t, "create")
  /\ pc[u] = "none"
  /\ thread_list' = thread_list \cup {u}
  /\ k' = make_runnable(k, u)
  /\ pc' = [pc EXCEPT ![t] = "yield", ![u] = "run"]
  /\ UNCHANGED <<sleep_queue, due, target, lockVars>>

\* nanosleep, preemption disabled from block() to sleep_queue_add().
nanosleep(c, t) ==
  /\ Calls(c, t, "sleep")
  /\ k' = block(k, t)
  /\ GoTo(t, "sleep_q")
  /\ UNCHANGED <<sleep_queue, due, thread_list, target, lockVars>>

\* The new timeout lies in the future: the entry goes anywhere behind the
\* entries that have timed out.
sleep_queue_add(c, t) ==
  /\ Continues(c, t, "sleep_q")
  /\ k' = SetFlags(k, t, {"SLEEP"})
  /\ \E i \in (due + 1)..(Len(sleep_queue) + 1) : sleep_queue' = InsertAt(sleep_queue, i, t)
  /\ GoTo(t, "sleep_sched")
  /\ UNCHANGED <<due, thread_list, target, lockVars>>

\* nanosleep after schedule(): the entry is removed.
sleep_queue_del(c, t) ==
  /\ Continues(c, t, "sleep_done")
  /\ GoTo(t, "run")
  /\ k' = ClearFlags(k, t, {"SLEEP"})
  /\ sleep_queue' = RemoveFirst(sleep_queue, t)
  /\ due' = IF Contains(SubSeq(sleep_queue, 1, due), t) THEN due - 1 ELSE due
  /\ UNCHANGED <<thread_list, target, lockVars>>

\* The clock passes the next timeout.
Tick ==
  /\ k.bug = "none"
  /\ due < Len(sleep_queue)
  /\ due' = due + 1
  /\ UNCHANGED <<k, sleep_queue, thread_list, cpuVars, pc, target, lockVars,
                 workload>>

\* The checks of pte_osThreadWaitForEnd, made without any lock.
pte_osThreadWaitForEnd(c, t, u) ==
  /\ Calls(c, t, "join")
  /\ u # t /\ Alive(u) /\ ~Has(k, t, {"CANCELLED"})
  /\ target' = [target EXCEPT ![t] = u]
  /\ GoTo(t, "join_lock")
  /\ UNCHANGED <<k, sleep_queue, due, thread_list, lockVars>>

\* Mutant: thread_list is not looked up.
join_thread_unchecked(c, t) ==
  /\ Continues(c, t, "join_lock")
  /\ dead_lock = NoThread
  /\ dead_lock' = t
  /\ k' = block(k, t)
  /\ GoTo(t, "join_add")
  /\ UNCHANGED <<target, sleep_queue, due, thread_list, reuse_lock>>

\* join_thread up to block(), with dead_lock held from there; a joinee that has
\* been reaped meanwhile is not in thread_list and the call returns -1.
join_thread(c, t) ==
  /\ Continues(c, t, "join_lock")
  /\ dead_lock = NoThread
  /\ \/ /\ target[t] \in thread_list
        /\ dead_lock' = t
        /\ k' = block(k, t)
        /\ GoTo(t, "join_add")
        /\ UNCHANGED target
     \/ /\ target[t] \notin thread_list
        /\ target' = [target EXCEPT ![t] = NoThread]
        /\ GoTo(t, "run")
        /\ UNCHANGED <<k, dead_lock>>
  /\ UNCHANGED <<sleep_queue, due, thread_list, reuse_lock>>

JoinAdd(c, t) ==
  /\ Continues(c, t, "join_add")
  /\ k' = list_add_tail(k, t, target[t])
  /\ dead_lock' = NoThread
  /\ GoTo(t, "join_flag")
  /\ UNCHANGED <<sleep_queue, due, thread_list, target, reuse_lock>>

set_joining(c, t) ==
  /\ Continues(c, t, "join_flag")
  /\ k' = SetFlags(k, t, {"JOINING"})
  /\ GoTo(t, "join_sched")
  /\ UNCHANGED <<sleep_queue, due, thread_list, target, lockVars>>

\* join_thread returns; pte_osThreadWaitForEnd raises a BUG unless the joinee
\* has ended or the joiner was cancelled.
JoinReturn(c, t) ==
  /\ Continues(c, t, "join_clear")
  /\ LET s == ClearFlags(k, t, {"JOINING"}) IN
     k' = IF Ended(target[t]) \/ Has(k, t, {"CANCELLED"}) THEN s ELSE BUG(s, "join")
  /\ target' = [target EXCEPT ![t] = NoThread]
  /\ GoTo(t, "run")
  /\ UNCHANGED <<sleep_queue, due, thread_list, lockVars>>

\* exit_thread up to block(), preemption disabled.
exit_thread(c, t) ==
  /\ Continues(c, t, "run")
  /\ "exit" \in workload.ops
  /\ k' = IF Has(k, t, {"RUNNING"}) THEN block(k, t) ELSE BUG(k, "exit")
  /\ GoTo(t, "exit_dead")
  /\ UNCHANGED <<sleep_queue, due, thread_list, target, lockVars>>

\* The dead_lock section of exit_thread.
ExitDead(c, t) ==
  /\ Continues(c, t, "exit_dead")
  /\ dead_lock = NoThread
  /\ k' = sched_wake_joiners(list_add_tail(SetFlags(k, t, {"DYING"}), t, DEAD), t)
  /\ GoTo(t, "exit_sched")
  /\ UNCHANGED <<sleep_queue, due, thread_list, target, lockVars>>

\* semaphore_pend that must wait: hibernate(current), then schedule().
Hibernate(c, t) ==
  /\ Calls(c, t, "hibernate")
  /\ k' = hibernate(k, t)
  /\ GoTo(t, "hib_sched")
  /\ UNCHANGED <<sleep_queue, due, thread_list, target, lockVars>>

\* semaphore_post restores a waiter.
Restore(c, t, u) ==
  /\ Calls(c, t, "hibernate")
  /\ Has(k, u, {"HIBERNATION"})
  /\ k' = restore(k, u)
  /\ UNCHANGED <<sleep_queue, due, thread_list, pc, target, lockVars>>

\* pthread_kill: suspend_pthread's checks, with pte_thread_reuse_lock held.
suspend_pthread(c, t, u) ==
  /\ Calls(c, t, "suspend")
  /\ reuse_lock = NoThread
  /\ Alive(u) /\ ~Has(k, u, {"DYING", "SUSPENDED"})
  /\ reuse_lock' = t
  /\ target' = [target EXCEPT ![t] = u]
  /\ GoTo(t, "susp_do")
  /\ UNCHANGED <<k, sleep_queue, due, thread_list, dead_lock>>

\* suspend_thread, then schedule() if the thread suspended itself.
SuspendDo(c, t) ==
  /\ Continues(c, t, "susp_do")
  /\ k' = suspend_thread(k, target[t])
  /\ reuse_lock' = NoThread
  /\ target' = [target EXCEPT ![t] = NoThread]
  /\ GoTo(t, IF target[t] = t THEN "yield" ELSE "run")
  /\ UNCHANGED <<sleep_queue, due, thread_list, dead_lock>>

resume_pthread(c, t, u) ==
  /\ Calls(c, t, "suspend")
  /\ reuse_lock = NoThread
  /\ Alive(u) /\ ~Has(k, u, {"DYING"}) /\ Has(k, u, {"SUSPENDED"})
  /\ k' = wake_suspended_thread(k, u)
  /\ UNCHANGED <<sleep_queue, due, thread_list, pc, target, lockVars>>

\* pthread_cancel acts on a thread once: its state is then CancelPending or
\* beyond.
CancelPending(u) ==
  \/ ~Alive(u)
  \/ Has(k, u, {"CANCELLED"})
  \/ \E v \in Threads : pc[v] \in {"cancel_do", "cancel_mark"} /\ target[v] = u

\* pte_osThreadCancel: a joiner is to be woken, without any lock held.
pte_osThreadCancel(c, t, u) ==
  /\ Calls(c, t, "cancel")
  /\ ~CancelPending(u)
  /\ IF Has(k, u, {"JOINING"})
       THEN /\ GoTo(t, "cancel_do")
            /\ target' = [target EXCEPT ![t] = u]
            /\ UNCHANGED k
       ELSE /\ k' = SetFlags(k, u, {"CANCELLED"})
            /\ UNCHANGED <<pc, target>>
  /\ UNCHANGED <<sleep_queue, due, thread_list, lockVars>>

\* Mutant: the joiner is taken off the list and not woken.
sched_wake_joiner_lost(c, t) ==
  /\ Continues(c, t, "cancel_do")
  /\ k' = list_del_init(k, target[t])
  /\ GoTo(t, "cancel_mark")
  /\ UNCHANGED <<sleep_queue, due, thread_list, target, lockVars>>

sched_wake_joiner(c, t) ==
  /\ Continues(c, t, "cancel_do")
  /\ k' = wake(list_del_init(k, target[t]), target[t])
  /\ GoTo(t, "cancel_mark")
  /\ UNCHANGED <<sleep_queue, due, thread_list, target, lockVars>>

\* Only then is the joiner, awake by now, marked as cancelled.
set_cancelled(c, t) ==
  /\ Continues(c, t, "cancel_mark")
  /\ k' = SetFlags(k, target[t], {"CANCELLED"})
  /\ target' = [target EXCEPT ![t] = NoThread]
  /\ GoTo(t, "run")
  /\ UNCHANGED <<sleep_queue, due, thread_list, lockVars>>

-----------------------------------------------------------------------------

\* What a processor does on its own: the scheduler and the idle loop.
CpuStep(c) ==
  \/ pick_thread(c)
  \/ switch_threads(c)
  \/ sched_switch_thread_in(c)
  \/ StoreFlags(c)
  \/ sched_reap_dead(c)
  \/ idle_thread_fn(c)

\* A thread continues the call it is in.
ThreadStep(c, t) ==
  \/ schedule(c, t)
  \/ sleep_queue_add(c, t)
  \/ sleep_queue_del(c, t)
  \/ join_thread(c, t)
  \/ JoinAdd(c, t)
  \/ set_joining(c, t)
  \/ JoinReturn(c, t)
  \/ ExitDead(c, t)
  \/ SuspendDo(c, t)
  \/ sched_wake_joiner(c, t)
  \/ set_cancelled(c, t)

NewCall(c, t) ==
  \/ nanosleep(c, t)
  \/ Hibernate(c, t)
  \/ \E u \in Threads :
       \/ create_thread(c, t, u)
       \/ pte_osThreadWaitForEnd(c, t, u)
       \/ Restore(c, t, u)
       \/ suspend_pthread(c, t, u)
       \/ resume_pthread(c, t, u)
       \/ pte_osThreadCancel(c, t, u)

Next ==
  \/ Tick
  \/ \E c \in Cpus :
       \/ CpuStep(c)
       \/ \E t \in Threads :
            \/ ThreadStep(c, t)
            \/ NewCall(c, t)
            \/ exit_thread(c, t)
            \/ preempt_schedule(c, t)

Spec == Init /\ [][Next]_vars

\* Processors run, time passes, and every thread that reaches user code exits
\* in the end; nobody is obliged to make any other call.
Fairness ==
  /\ WF_vars(Tick)
  /\ \A c \in Cpus :
       /\ WF_vars(CpuStep(c))
       /\ \A t \in Threads :
            /\ WF_vars(ThreadStep(c, t))
            /\ WF_vars(exit_thread(c, t))

FairSpec == Spec /\ Fairness

-----------------------------------------------------------------------------
(* Properties *)

\* No BUG() of sched.c or pte.c is reached: the comment of the one in
\* pte_osThreadWaitForEnd says it would be a thread woken by mistake.
NoBug == k.bug = "none"

\* One is: the BUG() of a joiner that a cancelling thread has woken and not yet
\* marked.  No other is reached and no list node is linked twice.
OnlyLateMarkBug ==
  k.bug # "none" =>
    /\ k.bug = "join"
    /\ \E v \in Threads :
         /\ pc[v] = "cancel_mark" /\ target[v] \in Threads
         /\ pc[target[v]] = "run" /\ ~Has(k, target[v], {"CANCELLED"})

\* RUNNABLE_FLAG and membership of the ready queue agree: no thread is runnable
\* where pick_thread cannot find it, none is queued that may not run.
RunnableIsQueued ==
  k.bug = "none" =>
    \A t \in Threads : Has(k, t, {"RUNNABLE"}) <=> Contains(k.lists[READY], t)

\* No thread executes on two processors.
OneProcessorPerThread ==
  \A c, d \in Cpus : current[c] # NoThread /\ current[c] = current[d] => c = d

\* A reaped thread's structure and stack are free memory: no processor
\* executes it, and no queue, timer or joiner list refers to it.
ReapedIsUnreachable ==
  k.bug = "none" => \A t \in Threads \ thread_list :
    /\ ~Linked(k, t)
    /\ ~Contains(sleep_queue, t)
    /\ \A c \in Cpus : current[c] # t
    /\ k.lists[t] = << >>

\* A joiner that is asleep is on the list of a joinee that will still pass
\* exit_thread or sched_reap_dead, so there is somebody to wake it.
JoinerHasWaker ==
  k.bug = "none" => \A t \in Threads :
    /\ pc[t] \in {"join_flag", "join_sched", "join_clear"}
    /\ ~Has(k, t, {"RUNNABLE", "SUSPENDED"})
    => /\ Contains(k.lists[target[t]], t)
       /\ target[t] \in thread_list

\* join_thread returns once the joinee has exited, unless the joiner stays
\* suspended.
JoinReturns ==
  \A t \in Threads :
    (pc[t] = "join_clear" /\ Ended(target[t]))
      ~> (pc[t] # "join_clear" \/ Has(k, t, {"SUSPENDED"}))

\* nanosleep returns, unless the sleeper stays suspended.
SleepReturns ==
  \A t \in Threads :
    (pc[t] = "sleep_done") ~> (pc[t] = "run" \/ Has(k, t, {"SUSPENDED"}))

\* Every thread that exits is reaped.
ExitedIsReaped == \A t \in Threads : (pc[t] = "dead") ~> (t \notin thread_list)
=============================================================================
