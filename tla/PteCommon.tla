----------------------------- MODULE PteCommon -----------------------------
(***************************************************************************)
(* What the modules of the POSIX threads library (lib/pte) share: the      *)
(* threads that call it, the call each thread is in and the next step of   *)
(* that call.  A step ends at an access to memory that other threads       *)
(* touch; steps under a lock of the platform layer (pte_osMutexLock, a     *)
(* spin mutex) are one step.  The platform's semaphores are used through   *)
(* the contract CountingSemaphore states.                                  *)
(*                                                                         *)
(* component names the library object a behaviour is about; it never       *)
(* changes, so one run can check the objects one after the other.          *)
(***************************************************************************)
EXTENDS Integers, Sequences, FiniteSets

CONSTANTS
  PThreads,    \* the application's threads
  NoPThread,   \* a pthread_t whose p is NULL
  OsThread,    \* the one of PThreads that is not a pthread
  MaxCalls     \* bound: calls each thread starts on each object (the ones
               \* that give back what it holds are always allowed)

ASSUME PThreadsAssumption ==
  IsFiniteSet(PThreads) /\ NoPThread \notin PThreads /\ OsThread \in PThreads
ASSUME MaxCallsAssumption ==
  \A c \in DOMAIN MaxCalls : MaxCalls[c] \in [PThreads -> Nat]

VARIABLES
  component,   \* the object this behaviour is about
  pc,          \* the next step of each thread, "idle" outside the library
  op,          \* the call the thread is in
  calls        \* calls each thread may still start

commonVars == <<component, pc, op, calls>>

CommonInit(c) ==
  /\ component = c
  /\ pc = [t \in PThreads |-> "idle"]
  /\ op = [t \in PThreads |-> "none"]
  /\ calls = MaxCalls[c]

\* Thread t, outside the library, makes call o, which continues at step s.
EnterFree(t, o, s) ==
  /\ pc[t] = "idle"
  /\ op' = IF s = "idle" THEN op ELSE [op EXCEPT ![t] = o]
  /\ pc' = [pc EXCEPT ![t] = s]
  /\ UNCHANGED <<component, calls>>

\* The same for a call that the bound counts.
Enter(t, o, s) ==
  /\ pc[t] = "idle" /\ calls[t] > 0
  /\ calls' = [calls EXCEPT ![t] = @ - 1]
  /\ op' = IF s = "idle" THEN op ELSE [op EXCEPT ![t] = o]
  /\ pc' = [pc EXCEPT ![t] = s]
  /\ UNCHANGED component

\* Thread t moves on to step s of its call; "idle" ends it.
Goto(t, s) ==
  /\ pc' = [pc EXCEPT ![t] = s]
  /\ op' = IF s = "idle" THEN [op EXCEPT ![t] = "none"] ELSE op
  /\ UNCHANGED <<component, calls>>

\* The call returns.
Return(t) == Goto(t, "idle")

\* A cancelled thread leaves the library and the system for good.
Leaves(t) ==
  /\ pc' = [pc EXCEPT ![t] = "exited"]
  /\ op' = [op EXCEPT ![t] = "none"]
  /\ UNCHANGED <<component, calls>>

\* Nobody but t is inside the library.
Alone(t) == \A u \in PThreads \ {t} : pc[u] \in {"idle", "exited"}
=============================================================================
