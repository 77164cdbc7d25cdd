----------------------------- MODULE PteThread -----------------------------
(***************************************************************************)
(* Threads of the POSIX threads library: creation, exit, join, detach and  *)
(* deferred cancellation, and the structures (pte_thread_t) that are never *)
(* freed but queued for reuse with a bumped counter.                       *)
(*                                                                         *)
(* Every access to the reuse queue is under pte_thread_reuse_lock and      *)
(* every change of a state by another thread under the structure's         *)
(* cancelLock; neither is held across a step.  The calls the operating     *)
(* system provides (create, start, exit, wait for the end) are modelled by *)
(* what platform/pte.c promises.  Handles are used as POSIX asks: each is  *)
(* joined or detached once, and not cancelled while that goes on.          *)
(***************************************************************************)
EXTENDS PteCommon, SequencesExt

CONSTANTS
  MaxStructs,     \* bound: structures calloc can give
  CreateFailures, \* bound: creations that fail for want of resources
  ThreadRaces     \* uses and schedules allowed beside the usual ones

ASSUME ThreadAssumption ==
  /\ MaxStructs \in Nat \ {0} /\ CreateFailures \in Nat
  /\ ThreadRaces \subseteq {"early_cancel", "reuse_while_exiting"}

VARIABLES
  thStruct,    \* the structures allocated so far
  thReuse,     \* the reuse queue, top first
  thSelf,      \* the value of pte_selfThreadKey, 0 for NULL
  thOs,        \* the operating system's threads
  thCancelled, \* those with the cancelled flag set
  thHandles,   \* joinable handles that nobody has joined or detached yet
  thArg,       \* the handle the call a thread is in is about
  thFails,     \* creations that failed
  thEnd,       \* the status each thread ended with, "none" before
  thJoined,    \* the status a join of each thread returned, "none" before
  thAsked      \* threads that were successfully asked to cancel themselves

thPool == <<thStruct, thReuse>>
thGhosts == <<thEnd, thJoined, thAsked>>
thVars == <<thPool, thSelf, thOs, thCancelled, thHandles, thArg, thFails, thGhosts>>

PThreadStateInitial == 0
PThreadStateRunning == 1
PThreadStateCancelPending == 3
PThreadStateCanceling == 4
PThreadStateLast == 6

\* owner is the thread a structure was taken for, NoPThread in the queue.
Zeroed(x) ==
  [x |-> x, state |-> PThreadStateInitial, detached |-> FALSE, disabled |-> FALSE,
   exitStatus |-> "NULL", os |-> NoPThread, owner |-> NoPThread]
NoHandle == [p |-> 0, x |-> 0, of |-> NoPThread]
Handle(s, t) == [p |-> s, x |-> thStruct[s].x, of |-> t]

ThVarsInit ==
  /\ thStruct = << >> /\ thReuse = << >> /\ thHandles = {} /\ thCancelled = {} /\ thFails = 0
  /\ thSelf = [t \in PThreads |-> 0]
  /\ thOs = [t \in PThreads |-> IF t = OsThread THEN "running" ELSE "none"]
  /\ thArg = [t \in PThreads |-> NoHandle]
  /\ thEnd = [t \in PThreads |-> "none"] /\ thJoined = [t \in PThreads |-> "none"]
  /\ thAsked = {}

Running(t) == thOs[t] = "running"
-----------------------------------------------------------------------------
(* The pool of structures *)

\* pte_threadReusePop: the top of the queue.
pte_threadReusePop(s) == s = Head(thReuse) /\ thReuse' = Tail(thReuse)

\* pte_new: a structure from the queue, else one from calloc; owner u and what
\* the caller sets at once are filled in.
pte_new(s, u, detached) ==
  LET fresh == [Zeroed(0) EXCEPT !.owner = u, !.detached = detached]
  IN  IF thReuse # << >>
        THEN /\ pte_threadReusePop(s)
             /\ thStruct' = [thStruct EXCEPT ![s] = [fresh EXCEPT !.x = thStruct[s].x]]
        ELSE /\ Len(thStruct) < MaxStructs /\ s = Len(thStruct) + 1
             /\ thStruct' = Append(thStruct, fresh)
             /\ UNCHANGED thReuse

\* pte_threadReusePush: wiped but for the handle, whose counter is bumped, and
\* queued at the bottom.
pte_threadReusePush(s) ==
  /\ thStruct' = [thStruct EXCEPT ![s] = Zeroed(@.x + 1)]
  /\ thReuse' = Append(thReuse, s)

\* pte_threadDestroyCommon works on a copy once the structure is queued.
pte_threadDestroy(s) == pte_threadReusePush(s)

\* pthread_self of a thread without a structure takes one, for ever detached.
pthread_self(t) ==
  IF thSelf[t] # 0 THEN UNCHANGED <<thPool, thSelf>>
  ELSE \E s \in 1..MaxStructs : pte_new(s, t, TRUE) /\ thSelf' = [thSelf EXCEPT ![t] = s]
-----------------------------------------------------------------------------
(* Creation *)

\* pthread_create takes a structure with the attributes' detachState and gives
\* the handle away when the operating system has started the thread.
pthread_create(t, u, detached) ==
  /\ Running(t) /\ thOs[u] = "none"
  /\ u = CHOOSE v \in PThreads : thOs[v] = "none"
  /\ \A v \in PThreads : op[v] = "create" => thArg[v].of # u
  /\ Enter(t, "create", "th_os_create")
  /\ \E s \in 1..MaxStructs :
       /\ pte_new(s, u, detached)
       /\ thArg' = [thArg EXCEPT ![t] = [p |-> s, x |-> thStruct'[s].x, of |-> u]]
  /\ UNCHANGED <<thSelf, thOs, thCancelled, thHandles, thFails, thGhosts>>

pte_osThreadCreate(t) ==
  /\ pc[t] = "th_os_create"
  /\ LET h == thArg[t]
     IN  /\ thStruct' = [thStruct EXCEPT ![h.p].os = h.of]
         /\ thOs' = [thOs EXCEPT ![h.of] = "started"]
         /\ thHandles' = IF thStruct[h.p].detached THEN thHandles ELSE thHandles \cup {h}
  /\ thArg' = [thArg EXCEPT ![t] = NoHandle]
  /\ Return(t)
  /\ UNCHANGED <<thReuse, thSelf, thCancelled, thFails, thGhosts>>
CreateFails(t) ==
  /\ pc[t] = "th_os_create" /\ thFails < CreateFailures
  /\ thFails' = thFails + 1
  /\ pte_threadDestroy(thArg[t].p)
  /\ thArg' = [thArg EXCEPT ![t] = NoHandle]
  /\ Return(t)
  /\ UNCHANGED <<thSelf, thOs, thCancelled, thHandles, thGhosts>>

\* The structure of t's creation is parms->tid; the state is stored without
\* the lock.
pte_threadStart(t) ==
  /\ thOs[t] = "started"
  /\ thOs' = [thOs EXCEPT ![t] = "running"]
  /\ \E s \in DOMAIN thStruct :
       /\ thStruct[s].os = t
       /\ thSelf' = [thSelf EXCEPT ![t] = s]
       /\ thStruct' = [thStruct EXCEPT ![s].state = PThreadStateRunning]
  /\ UNCHANGED <<commonVars, thReuse, thCancelled, thHandles, thArg, thFails, thGhosts>>
-----------------------------------------------------------------------------
(* The end of a thread *)

\* The routine returns, or pthread_exit throws to pte_threadStart.
pthread_exit(t) ==
  /\ Running(t) /\ t # OsThread
  /\ EnterFree(t, "exit", "th_exit")
  /\ thStruct' = [thStruct EXCEPT ![thSelf[t]].exitStatus = t]
  /\ thEnd' = [thEnd EXCEPT ![t] = t]
  /\ UNCHANGED <<thReuse, thSelf, thOs, thCancelled, thHandles, thArg, thFails, thJoined, thAsked>>

\* A pending cancellation is acted upon unless it is disabled.
pthread_testcancel(t) ==
  /\ Running(t) /\ t # OsThread
  /\ thStruct[thSelf[t]].state = PThreadStateCancelPending /\ ~thStruct[thSelf[t]].disabled
  /\ EnterFree(t, "exit", "th_exit")
  /\ thStruct' = [thStruct EXCEPT ![thSelf[t]] =
       [@ EXCEPT !.state = PThreadStateCanceling, !.disabled = TRUE, !.exitStatus = "CANCELED"]]
  /\ thEnd' = [thEnd EXCEPT ![t] = "CANCELED"]
  /\ UNCHANGED <<thReuse, thSelf, thOs, thCancelled, thHandles, thArg, thFails, thJoined, thAsked>>

\* pthread_exit of a thread whose structure is implicit: pte_throw destroys it,
\* but it names no operating system thread to exit, and the jump goes through it.
pte_throw(t) ==
  /\ t = OsThread /\ Running(t) /\ thSelf[t] # 0
  /\ EnterFree(t, "exit", "th_longjmp")
  /\ pte_threadDestroy(thSelf[t])
  /\ UNCHANGED <<thSelf, thOs, thCancelled, thHandles, thArg, thFails, thGhosts>>

\* pte_thread_detach_common, after the destructors of PteKeys.
SetLast(t) ==
  /\ pc[t] = "th_exit"
  /\ thStruct' = [thStruct EXCEPT ![thSelf[t]].state = PThreadStateLast]
  /\ Goto(t, "th_last")
  /\ UNCHANGED <<thReuse, thSelf, thOs, thCancelled, thHandles, thArg, thFails, thGhosts>>

\* detachState is read after cancelLock has been released; the structure of a
\* detached thread is queued and the operating system thread its copy names exits.
DetachAndExit(t) ==
  /\ pc[t] = "th_last"
  /\ LET s == thSelf[t]
     IN  IF thStruct[s].detached
           THEN /\ pte_threadDestroy(s)
                /\ thOs' = [thOs EXCEPT ![thStruct[s].os] = "dying"]
           ELSE /\ thOs' = [thOs EXCEPT ![t] = "dying"]
                /\ UNCHANGED thPool
  /\ Goto(t, "exited")
  /\ UNCHANGED <<thSelf, thCancelled, thHandles, thArg, thFails, thGhosts>>
-----------------------------------------------------------------------------
(* Join and detach *)

Valid(h) == thStruct[h.p].x = h.x
Joinable(h) == Valid(h) /\ ~thStruct[h.p].detached
Cancelling(h) == \E t \in PThreads : op[t] = "cancel" /\ thArg[t] = h

pthread_join(t, h) ==
  /\ Running(t) /\ h \in thHandles /\ ~Cancelling(h) /\ Joinable(h)
  /\ Enter(t, "join", IF h.of = t THEN "idle" ELSE "th_wait")      \* EDEADLK
  /\ pthread_self(t)
  /\ IF h.of = t THEN UNCHANGED <<thHandles, thArg>>
     ELSE thHandles' = thHandles \ {h} /\ thArg' = [thArg EXCEPT ![t] = h]
  /\ UNCHANGED <<thOs, thCancelled, thFails, thGhosts>>

\* Mutant: the thread may end at any time, so its first state is waited for.
Ended_running(s) == thStruct[s].state >= PThreadStateRunning

\* What pte_osThreadWaitForEnd waits for.
Ended(s) ==
  \/ thStruct[s].os = NoPThread
  \/ thOs[thStruct[s].os] = "dying"
  \/ thStruct[s].state = PThreadStateLast

pte_osThreadWaitForEnd(t) ==
  /\ pc[t] = "th_wait" /\ Ended(thArg[t].p)
  /\ thJoined' = [thJoined EXCEPT ![thArg[t].of] = thStruct[thArg[t].p].exitStatus]
  /\ Goto(t, "th_detach")
  /\ UNCHANGED <<thPool, thSelf, thOs, thCancelled, thHandles, thArg, thFails, thEnd, thAsked>>

\* A joiner that is cancelled returns 0 and leaves its target joinable.
WaitInterrupted(t) ==
  /\ pc[t] = "th_wait" /\ ~Ended(thArg[t].p) /\ t \in thCancelled
  /\ thHandles' = thHandles \cup {thArg[t]}
  /\ thArg' = [thArg EXCEPT ![t] = NoHandle]
  /\ Return(t)
  /\ UNCHANGED <<thPool, thSelf, thOs, thCancelled, thFails, thGhosts>>

pthread_detach(t, h) ==
  /\ Running(t) /\ h \in thHandles /\ ~Cancelling(h)
  /\ Enter(t, "detach", "th_detach")
  /\ thHandles' = thHandles \ {h}
  /\ thArg' = [thArg EXCEPT ![t] = h]
  /\ UNCHANGED <<thPool, thSelf, thOs, thCancelled, thFails, thGhosts>>

\* Mutant: the state is not looked at, so the exiting thread is relied on.
Detach_always_marks(t) ==
  /\ pc[t] = "th_detach"
  /\ thStruct' = [thStruct EXCEPT ![thArg[t].p].detached = TRUE]
  /\ thArg' = [thArg EXCEPT ![t] = NoHandle]
  /\ Return(t)
  /\ UNCHANGED <<thReuse, thSelf, thOs, thCancelled, thHandles, thFails, thGhosts>>

\* Under both locks: a thread that is not at its end will destroy its
\* structure itself.
Detach(t) ==
  /\ pc[t] = "th_detach"
  /\ LET h == thArg[t]
     IN  IF Joinable(h) /\ thStruct[h.p].state = PThreadStateLast
           THEN /\ Goto(t, "th_destroy")
                /\ UNCHANGED <<thStruct, thArg>>
           ELSE /\ thStruct' = [thStruct EXCEPT ![h.p].detached = Joinable(h) \/ @]
                /\ thArg' = [thArg EXCEPT ![t] = NoHandle]
                /\ Return(t)
  /\ UNCHANGED <<thReuse, thSelf, thOs, thCancelled, thHandles, thFails, thGhosts>>

\* The wait for the end comes back at once, since the state is Last.
DetachDestroys(t) ==
  /\ pc[t] = "th_destroy" /\ Ended(thArg[t].p)
  /\ "reuse_while_exiting" \in ThreadRaces \/ thOs[thArg[t].of] = "dying"
  /\ pte_threadDestroy(thArg[t].p)
  /\ thArg' = [thArg EXCEPT ![t] = NoHandle]
  /\ Return(t)
  /\ UNCHANGED <<thSelf, thOs, thCancelled, thHandles, thFails, thGhosts>>
-----------------------------------------------------------------------------
(* Cancellation *)

\* pthread_kill(h, 0) finds the thread alive, without a lock.
pthread_cancel(t, h) ==
  /\ Running(t) /\ h \in thHandles /\ h.of # t
  /\ Valid(h) /\ thStruct[h.p].state # PThreadStateLast
  /\ "early_cancel" \in ThreadRaces \/ thStruct[h.p].state # PThreadStateInitial
  /\ Enter(t, "cancel", "th_cancel")
  /\ pthread_self(t)
  /\ thArg' = [thArg EXCEPT ![t] = h]
  /\ UNCHANGED <<thOs, thCancelled, thHandles, thFails, thGhosts>>

\* pte_osThreadCancel sets the flag that wakes a joiner; a thread that is
\* being cancelled or at its end gives ESRCH.
RequestCancel(t) ==
  /\ pc[t] = "th_cancel"
  /\ LET h == thArg[t]
     IN  IF thStruct[h.p].state < PThreadStateCancelPending
           THEN /\ thStruct' = [thStruct EXCEPT ![h.p].state = PThreadStateCancelPending]
                /\ thCancelled' = thCancelled \cup ({thStruct[h.p].os} \ {NoPThread})
                /\ thAsked' = thAsked \cup {h.of}
           ELSE UNCHANGED <<thStruct, thCancelled, thAsked>>
  /\ thArg' = [thArg EXCEPT ![t] = NoHandle]
  /\ Return(t)
  /\ UNCHANGED <<thReuse, thSelf, thOs, thHandles, thFails, thEnd, thJoined>>

\* Mutant: enabling or disabling cancellation makes the state Running again.
pthread_setcancelstate_resets(t) ==
  /\ Running(t) /\ t # OsThread
  /\ Enter(t, "cancelstate", "idle")
  /\ thStruct' = [thStruct EXCEPT ![thSelf[t]] =
       [@ EXCEPT !.disabled = ~@, !.state = PThreadStateRunning]]
  /\ UNCHANGED <<thReuse, thSelf, thOs, thCancelled, thHandles, thArg, thFails, thGhosts>>

\* Cancellation is always deferred: pthread_setcanceltype refuses the other type.
pthread_setcancelstate(t) ==
  /\ Running(t) /\ t # OsThread
  /\ Enter(t, "cancelstate", "idle")
  /\ thStruct' = [thStruct EXCEPT ![thSelf[t]].disabled = ~@]
  /\ UNCHANGED <<thReuse, thSelf, thOs, thCancelled, thHandles, thArg, thFails, thGhosts>>

ThreadNext ==
  \E t \in PThreads :
    \/ \E u \in PThreads, detached \in BOOLEAN : pthread_create(t, u, detached)
    \/ pte_osThreadCreate(t) \/ CreateFails(t) \/ pte_threadStart(t)
    \/ pthread_exit(t) \/ pthread_testcancel(t) \/ pte_throw(t)
    \/ SetLast(t) \/ DetachAndExit(t)
    \/ \E h \in thHandles : pthread_join(t, h) \/ pthread_detach(t, h) \/ pthread_cancel(t, h)
    \/ pte_osThreadWaitForEnd(t) \/ WaitInterrupted(t) \/ Detach(t) \/ DetachDestroys(t)
    \/ RequestCancel(t) \/ pthread_setcancelstate(t)
-----------------------------------------------------------------------------
(* Properties *)

\* A handle that somebody still has to join or detach, or is doing so.
Claimed(s) ==
  \/ \E h \in thHandles : h.p = s
  \/ \E t \in PThreads : op[t] \in {"create", "join", "detach"} /\ thArg[t].p = s

\* From its start to its last look at it a thread has its structure to itself;
\* a structure in the queue is there once and is nobody's; and a structure that is neither queued nor used by its
\* thread is claimed by a handle, so the exiting thread and the one that joins
\* or detaches it never leave it to each other.
StructHasOneThread ==
  component = "thread" =>
    /\ \A t \in PThreads :
         Running(t) /\ thSelf[t] # 0 /\ pc[t] # "th_longjmp" => thStruct[thSelf[t]].owner = t
    /\ IsInjective(thReuse) /\ \A i \in DOMAIN thReuse : thStruct[thReuse[i]].owner = NoPThread
    /\ \A s \in DOMAIN thStruct :
         \/ Contains(thReuse, s) \/ Claimed(s)
         \/ thOs[thStruct[s].owner] \in {"started", "running"}

\* A join returns the status the thread it named ended with, though the
\* structure is reused for others, and a handle whose thread is still to be
\* joined is not taken for another thread's.
JoinGetsStatus ==
  component = "thread" =>
    /\ \A t \in PThreads : thJoined[t] # "none" => thJoined[t] = thEnd[t]
    /\ \A h \in thHandles : Valid(h) /\ thStruct[h.p].owner = h.of

\* pthread_cancel has "successfully requested cancellation" when it returns 0:
\* the request stays with the thread, for its cancellation points and for the
\* joins it waits in, until it is acted upon or the thread ends.
CancelIsKept ==
  component = "thread" =>
    \A t \in thAsked : Running(t) =>
      t \in thCancelled /\ thStruct[thSelf[t]].state >= PThreadStateCancelPending

=============================================================================
