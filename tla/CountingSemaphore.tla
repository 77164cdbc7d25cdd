-------------------------- MODULE CountingSemaphore --------------------------
(***************************************************************************)
(* What a counting semaphore promises its clients: a permit is either      *)
(* available, or handed directly to the thread that has waited longest; a  *)
(* pend returns only with a permit.  No mutex, no scheduler, no flags.     *)
(***************************************************************************)
EXTENDS Naturals, Sequences

CONSTANTS Threads, InitialValue

VARIABLES
  permits,   \* permits nobody has taken
  waiters,   \* threads waiting for a permit, oldest first
  granted    \* threads that were handed a permit and have not returned yet

absVars == <<permits, waiters, granted>>

Waiting(t) == \E i \in 1..Len(waiters) : waiters[i] = t

AbsInit ==
  /\ permits = InitialValue
  /\ waiters = << >>
  /\ granted = {}

\* A pend or a try_pend that finds a permit.
Take ==
  /\ permits > 0
  /\ permits' = permits - 1
  /\ UNCHANGED <<waiters, granted>>

\* A pend that finds none.
Wait(t) ==
  /\ permits = 0
  /\ ~Waiting(t) /\ t \notin granted
  /\ waiters' = Append(waiters, t)
  /\ UNCHANGED <<permits, granted>>

\* A post with nobody waiting.
Release ==
  /\ waiters = << >>
  /\ permits' = permits + 1
  /\ UNCHANGED <<waiters, granted>>

\* A post that serves the oldest waiter.
HandOff ==
  /\ waiters # << >>
  /\ waiters' = Tail(waiters)
  /\ granted' = granted \cup {Head(waiters)}
  /\ UNCHANGED permits

\* A waiting pend returns.
Return(t) ==
  /\ t \in granted
  /\ granted' = granted \ {t}
  /\ UNCHANGED <<permits, waiters>>

AbsNext ==
  \/ Take
  \/ Release
  \/ HandOff
  \/ \E t \in Threads : Wait(t) \/ Return(t)

AbsSpec == AbsInit /\ [][AbsNext]_absVars
=============================================================================
