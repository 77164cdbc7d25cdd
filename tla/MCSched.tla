------------------------------ MODULE MCSched ------------------------------
(* TLC instances of Sched. *)
EXTENDS Sched, TLC

CONSTANTS t1, t2, t3, c1, c2

W(main, cpus, ops, ncalls, npreempts, atomic) ==
  [main |-> main, cpus |-> cpus, ops |-> ops, atomic |-> atomic,
   calls |-> [t \in Threads |-> ncalls], preempts |-> [c \in Cpus |-> npreempts]]

\* Threads are created, join one another, exit and are reaped.
Lifecycle == W({t1, t2}, {c1, c2}, {"create", "exit", "join"}, 1, 1, TRUE)
\* Threads sleep and wait on semaphores.
Waiting == W({t1, t2, t3}, {c1, c2}, {"exit", "sleep", "hibernate"}, 1, 0, TRUE)
\* Joins of threads that do not exit are cancelled.
Cancelling == W({t1, t2, t3}, {c1, c2}, {"join", "cancel"}, 1, 1, TRUE)
\* On one processor, threads that run or wait are suspended and resumed.
Suspending(c) == W({t1, t2, t3}, {c}, {"exit", "hibernate", "suspend", "cancel"}, 2, 1, FALSE)

SafetyWorkloads == {Lifecycle, Waiting, Cancelling} \cup {Suspending(c) : c \in Cpus}

\* They are among the workloads the theorems are about.
ASSUME SafetyIsCareful == \A w \in SafetyWorkloads : Careful(w)

\* Processors are interchangeable.
Symmetry == Permutations(Cpus)

LiveWorkloads == {W({t1, t2}, {c1, c2}, {"exit", "sleep", "join"}, 1, 1, TRUE)}

\* The smallest workload that shows the lost wake-up of a joiner.
LostWakeWorkloads == {W({t1, t2}, {c1, c2}, {"exit", "join"}, 1, 0, FALSE)}
=============================================================================
