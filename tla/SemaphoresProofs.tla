-------------------------- MODULE SemaphoresProofs --------------------------
(***************************************************************************)
(* Theorems about Semaphores for every finite set of threads, every        *)
(* initial value, every number of processors and every number of calls.    *)
(* All but ReadyDisciplineHolds hold whether flag updates are indivisible  *)
(* or not.                                                                 *)
(***************************************************************************)
EXTENDS Semaphores, FiniteSetTheorems, TLAPS

USE ThreadsAssumption, ValueAssumption

\* What appending a waiter does to the list: semaphore_list_append.
LEMMA AppendWaiter ==
  ASSUME NEW s \in Seq(Threads), NEW x \in Threads
  PROVE  /\ Append(s, x) \in Seq(Threads)
         /\ Len(Append(s, x)) = Len(s) + 1
         /\ \A i \in 1..Len(s) : Append(s, x)[i] = s[i]
         /\ Append(s, x)[Len(s) + 1] = x
  OBVIOUS

\* What removing the oldest waiter does: semaphore_list_delete_first.
LEMMA RemoveWaiter ==
  ASSUME NEW s \in Seq(Threads), s # << >>
  PROVE  /\ Tail(s) \in Seq(Threads)
         /\ Len(s) >= 1
         /\ Head(s) = s[1]
         /\ Head(s) \in Threads
         /\ Len(Tail(s)) = Len(s) - 1
         /\ \A i \in 1..(Len(s) - 1) : Tail(s)[i] = s[i + 1]
  OBVIOUS

\* The initial state has the types the variables keep.
LEMMA InitTypeOK == Init => TypeOK
<1> SUFFICES ASSUME Init PROVE TypeOK
  OBVIOUS
<1>1. undone \in BOOLEAN
  BY Zenon DEF Init
<1> QED BY <1>1 DEF Init, TypeOK, Steps

\* Every step keeps the types, as long as a post that wakes a thread finds one
\* on the list (WaitersMatchValue).
LEMMA NextTypeOK ==
  ASSUME TypeOK, WaitersMatchValue, [Next]_vars
  PROVE  TypeOK'
<1> USE DEF TypeOK, Steps, semVars, schedVars, cpuVars
<1>1. ASSUME NEW t \in Threads, NEW c \in Calls, Call(t, c) PROVE TypeOK'
  BY <1>1 DEF Call, Calls
<1>2. ASSUME NEW t \in Threads, semaphore_pend(t) PROVE TypeOK'
  <2>1. CASE value - 1 < 0
    <3>1. Append(head, t) \in Seq(Threads)
      BY AppendWaiter
    <3>2. /\ head' \in Seq(Threads)
          /\ runnable' \in SUBSET Threads
          /\ hibernating' \in SUBSET Threads
          /\ ready' \in SUBSET Threads
      BY <1>2, <2>1, <3>1 DEF semaphore_pend, HibernateThread
    <3>3. pc' \in [Threads -> Steps]
      BY <1>2, <2>1 DEF semaphore_pend
    <3> QED BY <1>2, <2>1, <3>2, <3>3 DEF semaphore_pend
  <2>2. CASE ~(value - 1 < 0)
    <3>1. /\ pc' = [pc EXCEPT ![t] = "unlock"]
          /\ value' = value - 1 /\ acquired' = acquired + 1
          /\ UNCHANGED <<owner, head, posts, runnable, hibernating, suspended,
                         ready, cpuVars, ops>>
      BY <1>2, <2>2 DEF semaphore_pend
    <3>2. pc' \in [Threads -> Steps]
      BY <3>1
    <3> QED BY <3>1, <3>2
  <2> QED BY <2>1, <2>2
<1>3. ASSUME NEW t \in Threads, semaphore_post(t) PROVE TypeOK'
  <2>1. CASE value + 1 <= 0
    <3>1. head # << >>
      BY <2>1 DEF WaitersMatchValue, Max0
    <3>2. Tail(head) \in Seq(Threads) /\ Head(head) \in Threads
      BY <3>1, RemoveWaiter
    <3>3. /\ head' \in Seq(Threads)
          /\ runnable' \in SUBSET Threads
          /\ hibernating' \in SUBSET Threads
          /\ ready' \in SUBSET Threads
      BY <1>3, <2>1, <3>2 DEF semaphore_post, RestoreThread
    <3> QED BY <1>3, <2>1, <3>3 DEF semaphore_post
  <2>2. CASE ~(value + 1 <= 0)
    BY <1>3, <2>2 DEF semaphore_post
  <2> QED BY <2>1, <2>2
<1>4. ASSUME NEW t \in Threads, semaphore_try_pend(t) PROVE TypeOK'
  BY <1>4 DEF semaphore_try_pend
<1>5. ASSUME NEW t \in Threads, semaphore_count(t) PROVE TypeOK'
  BY <1>5 DEF semaphore_count
<1>6. ASSUME NEW t \in Threads, mutex_unlock(t) PROVE TypeOK'
  BY <1>6 DEF mutex_unlock
<1>7. ASSUME NEW t \in Threads, Schedule(t) PROVE TypeOK'
  BY <1>7 DEF Schedule, SwitchOut
<1>8. ASSUME NEW t \in Threads, Dispatch(t) PROVE TypeOK'
  <2>1. CASE pc[t] = "switched_out"
    <3>1. /\ pc' = [pc EXCEPT ![t] = "idle"]
          /\ acquired' = acquired + 1
          /\ onCpu' = onCpu \cup {t}
          /\ UNCHANGED <<owner, value, head, posts, schedVars, leaving, copy, torn, undone, ops>>
      BY <1>8, <2>1 DEF Dispatch
    <3> QED BY <3>1
  <2>2. CASE pc[t] # "switched_out"
    BY <1>8, <2>2 DEF Dispatch
  <2> QED BY <2>1, <2>2
<1>9. ASSUME NEW t \in Threads, Preempt(t) PROVE TypeOK'
  BY <1>9 DEF Preempt, SwitchOut
<1>10. ASSUME NEW t \in Threads, NEW u \in Threads, Suspend(t, u) PROVE TypeOK'
  BY <1>10 DEF Suspend
<1>11. ASSUME NEW t \in Threads, NEW u \in Threads, Resume(t, u) PROVE TypeOK'
  BY <1>11 DEF Resume
<1>12. ASSUME NEW t \in Threads, ClearRunning(t) PROVE TypeOK'
  BY <1>12 DEF ClearRunning
<1>13. ASSUME NEW t \in Threads, LoadFlags(t) PROVE TypeOK'
  <2>1. FlagsOf(t) \in Flags
    BY DEF FlagsOf, Flags
  <2> QED BY <1>13, <2>1 DEF LoadFlags
<1>14. ASSUME NEW t \in Threads, StoreFlags(t) PROVE TypeOK'
  BY <1>14 DEF StoreFlags, Put
<1>15. CASE UNCHANGED vars
  BY <1>15 DEF vars
<1> QED
  BY <1>1, <1>2, <1>3, <1>4, <1>5, <1>6, <1>7, <1>8, <1>9, <1>10, <1>11, <1>12,
     <1>13, <1>14, <1>15
  DEF Next, Step

\* The part of the inductive invariant about the list, the flags and the value.
QueueInv ==
  /\ TypeOK
  /\ WaitersMatchValue
  /\ WaitersSleep
  /\ WaiterStaysInPend

\* A pend that finds no permit: the thread goes to the end of the list.
LEMMA PendBlocks ==
  ASSUME QueueInv, NEW t \in Threads, semaphore_pend(t), value - 1 < 0
  PROVE  /\ WaitersMatchValue' /\ WaitersSleep' /\ WaiterStaysInPend'
         /\ Granted' = Granted
<1> USE DEF QueueInv
<1>1. /\ value' = value - 1
      /\ head' = Append(head, t)
      /\ runnable' = runnable \ {t}
      /\ hibernating' = hibernating \cup {t}
      /\ pc' = [pc EXCEPT ![t] = "unlock_sched"]
      /\ copy' = copy /\ copy[t] = {}
      /\ pc[t] = "pend"
  BY DEF semaphore_pend, HibernateThread, Executing, cpuVars
<1>2. /\ Len(head') = Len(head) + 1
      /\ \A i \in 1..Len(head) : head'[i] = head[i]
      /\ head'[Len(head) + 1] = t
      /\ Len(head) \in Nat
  BY <1>1, AppendWaiter DEF TypeOK
<1>3. InPend' = InPend \cup {t} /\ t \notin InPend
  BY <1>1 DEF TypeOK, InPend
<1>4. ~IsWaiting(t)
  BY <1>3 DEF WaiterStaysInPend
<1>5. \A u \in Threads : IsWaiting(u)' <=> IsWaiting(u) \/ u = t
  <2> SUFFICES ASSUME NEW u \in Threads
               PROVE  IsWaiting(u)' <=> IsWaiting(u) \/ u = t
    OBVIOUS
  <2>1. IsWaiting(u) => IsWaiting(u)'
    BY <1>2 DEF IsWaiting
  <2>2. u = t => IsWaiting(u)'
    BY <1>2 DEF IsWaiting
  <2>3. IsWaiting(u)' => IsWaiting(u) \/ u = t
    BY <1>2 DEF IsWaiting
  <2> QED BY <2>1, <2>2, <2>3
<1>6. WaitersMatchValue'
  BY <1>1, <1>2 DEF WaitersMatchValue, Max0, TypeOK
<1>7. WaitersSleep'
  <2>1. \A i \in 1..Len(head) : head[i] # t
    BY <1>4 DEF IsWaiting
  <2>2. \A i, j \in 1..Len(head') : head'[i] = head'[j] => i = j
    BY <1>2, <2>1 DEF WaitersSleep
  <2>3. \A u \in Threads : IsWaiting(u)' =>
          /\ u \in hibernating' /\ u \notin runnable'
          /\ \A x \in copy'[u] : x.hibernating /\ ~x.runnable
    BY <1>1, <1>5 DEF WaitersSleep
  <2> QED BY <2>2, <2>3 DEF WaitersSleep
<1>9. WaiterStaysInPend'
  BY <1>3, <1>5 DEF WaiterStaysInPend
<1>10. Granted' = Granted
  BY <1>3, <1>5 DEF Granted, InPend
<1> QED BY <1>6, <1>7, <1>9, <1>10

\* A post that wakes the oldest waiter: it leaves the list and holds a permit.
LEMMA PostWakes ==
  ASSUME QueueInv, NEW t \in Threads, semaphore_post(t), value + 1 <= 0
  PROVE  /\ WaitersMatchValue' /\ WaitersSleep' /\ WaiterStaysInPend'
         /\ Granted' = Granted \cup {Head(head)}
         /\ Head(head) \notin Granted
<1> USE DEF QueueInv
<1> DEFINE w == Head(head)
<1>1. /\ value' = value + 1
      /\ head' = Tail(head)
      /\ hibernating' = hibernating \ {w}
      /\ runnable' = IF w \in suspended THEN runnable ELSE runnable \cup {w}
      /\ pc' = [pc EXCEPT ![t] = "unlock"]
      /\ copy' = copy
      /\ pc[t] = "post"
  BY DEF semaphore_post, RestoreThread, cpuVars
<1>2. head # << >>
  BY DEF WaitersMatchValue, Max0, TypeOK
<1>3. /\ Len(head') = Len(head) - 1
      /\ \A i \in 1..(Len(head) - 1) : head'[i] = head[i + 1]
      /\ w = head[1] /\ w \in Threads
      /\ Len(head) \in Nat /\ Len(head) >= 1
  BY <1>1, <1>2, RemoveWaiter DEF TypeOK
<1>4. InPend' = InPend
  BY <1>1 DEF InPend, TypeOK
<1>5. IsWaiting(w)
  BY <1>3 DEF IsWaiting
<1>6. \A u \in Threads : IsWaiting(u)' <=> IsWaiting(u) /\ u # w
  <2> SUFFICES ASSUME NEW u \in Threads
               PROVE  IsWaiting(u)' <=> IsWaiting(u) /\ u # w
    OBVIOUS
  <2>1. ASSUME IsWaiting(u)' PROVE IsWaiting(u) /\ u # w
    <3>1. PICK i \in 1..Len(head') : head'[i] = u
      BY <2>1 DEF IsWaiting
    <3>2. i + 1 \in 1..Len(head) /\ head[i + 1] = u /\ i + 1 # 1
      BY <1>3, <3>1
    <3> QED BY <1>3, <3>2 DEF IsWaiting, WaitersSleep
  <2>2. ASSUME IsWaiting(u), u # w PROVE IsWaiting(u)'
    <3>1. PICK i \in 1..Len(head) : head[i] = u
      BY <2>2 DEF IsWaiting
    <3>2. i # 1 /\ i - 1 \in 1..Len(head')
      BY <1>3, <2>2, <3>1
    <3>3. head'[i - 1] = u
      BY <1>3, <3>1, <3>2
    <3> QED BY <3>2, <3>3 DEF IsWaiting
  <2> QED BY <2>1, <2>2
<1>7. WaitersMatchValue'
  BY <1>1, <1>3 DEF WaitersMatchValue, Max0, TypeOK
<1>8. WaitersSleep'
  <2>1. \A i, j \in 1..Len(head') : head'[i] = head'[j] => i = j
    <3> SUFFICES ASSUME NEW i \in 1..Len(head'), NEW j \in 1..Len(head'),
                        head'[i] = head'[j]
                 PROVE  i = j
      OBVIOUS
    <3>1. i + 1 \in 1..Len(head) /\ j + 1 \in 1..Len(head)
      BY <1>3
    <3>2. head[i + 1] = head[j + 1]
      BY <1>3
    <3>3. i + 1 = j + 1
      BY <3>1, <3>2 DEF WaitersSleep
    <3> QED BY <1>3, <3>3
  <2>2. \A u \in Threads : IsWaiting(u)' =>
          /\ u \in hibernating' /\ u \notin runnable'
          /\ \A x \in copy'[u] : x.hibernating /\ ~x.runnable
    BY <1>1, <1>6 DEF WaitersSleep
  <2> QED BY <2>1, <2>2 DEF WaitersSleep
<1>10. WaiterStaysInPend'
  BY <1>4, <1>6 DEF WaiterStaysInPend
<1>11. Granted' = Granted \cup {w} /\ w \notin Granted
  BY <1>3, <1>4, <1>5, <1>6 DEF Granted, InPend, WaiterStaysInPend
<1> QED BY <1>7, <1>8, <1>10, <1>11

\* Steps that touch neither the list nor a flag nor the value of a waiter.
LEMMA Untouched ==
  ASSUME QueueInv, pc' \in [Threads -> Steps],
         UNCHANGED <<head, schedVars, copy>>,
         Max0(-value') = Max0(-value),
         \A t \in Threads : t \in InPend <=> t \in InPend'
  PROVE  /\ WaitersMatchValue' /\ WaitersSleep' /\ WaiterStaysInPend'
         /\ Granted' = Granted
<1> USE DEF QueueInv
<1>1. \A u : IsWaiting(u)' <=> IsWaiting(u)
  BY DEF IsWaiting
<1>2. InPend' = InPend
  BY DEF InPend
<1>3. WaitersMatchValue'
  BY DEF WaitersMatchValue
<1>4. WaitersSleep'
  BY <1>1 DEF WaitersSleep, schedVars
<1>6. WaiterStaysInPend'
  BY <1>1, <1>2 DEF WaiterStaysInPend
<1>7. Granted' = Granted
  BY <1>1, <1>2 DEF Granted
<1> QED BY <1>3, <1>4, <1>6, <1>7

\* Suspending or resuming a thread, and an update of its flags outside
\* ready_lock, leave the semaphore alone.
LEMMA FlagUpdates ==
  ASSUME QueueInv, NEW t \in Threads,
         \/ \E u \in Threads : Suspend(t, u) \/ Resume(t, u)
         \/ LoadFlags(t) \/ StoreFlags(t)
  PROVE  /\ WaitersMatchValue' /\ WaitersSleep' /\ WaiterStaysInPend'
         /\ Granted' = Granted
         /\ UNCHANGED <<head, value, posts, acquired>>
<1> USE DEF QueueInv
<1>1. UNCHANGED <<head, value, posts, acquired, pc>>
  BY DEF Suspend, Resume, LoadFlags, StoreFlags, semVars
<1>2. \A x : IsWaiting(x)' <=> IsWaiting(x)
  BY <1>1 DEF IsWaiting
<1>3. InPend' = InPend
  BY <1>1 DEF InPend
<1> DEFINE Asleep(x) == /\ x \in hibernating /\ x \notin runnable
                        /\ \A w \in copy[x] : w.hibernating /\ ~w.runnable
<1>4. \A x \in Threads : IsWaiting(x) => Asleep(x)'
  <2> SUFFICES ASSUME NEW x \in Threads, IsWaiting(x) PROVE Asleep(x)'
    OBVIOUS
  <2>1. Asleep(x)
    BY DEF WaitersSleep
  <2>2. Asleep(x)'
    <3>1. ASSUME NEW u \in Threads, Suspend(t, u) PROVE Asleep(x)'
      BY <2>1, <3>1 DEF Suspend, cpuVars
    <3>2. ASSUME NEW u \in Threads, Resume(t, u) PROVE Asleep(x)'
      BY <2>1, <3>2 DEF Resume, cpuVars
    <3>3. CASE LoadFlags(t)
      <4>1. x # t => copy'[x] = copy[x]
        BY <3>3 DEF LoadFlags, TypeOK
      <4>2. x = t => copy'[x] = {FlagsOf(x)}
        BY <3>3 DEF LoadFlags, TypeOK
      <4>3. FlagsOf(x).hibernating /\ ~FlagsOf(x).runnable
        BY <2>1 DEF FlagsOf
      <4> QED BY <2>1, <3>3, <4>1, <4>2, <4>3 DEF LoadFlags, schedVars
    <3>4. CASE StoreFlags(t)
      BY <2>1, <3>4 DEF StoreFlags, Put, TypeOK
    <3> QED BY <3>1, <3>2, <3>3, <3>4
  <2> QED BY <2>2
<1>5. WaitersMatchValue'
  BY <1>1 DEF WaitersMatchValue
<1>6. WaitersSleep'
  BY <1>1, <1>2, <1>4 DEF WaitersSleep
<1>7. WaiterStaysInPend'
  BY <1>2, <1>3 DEF WaiterStaysInPend
<1>8. Granted' = Granted
  BY <1>2, <1>3 DEF Granted
<1> QED BY <1>1, <1>5, <1>6, <1>7, <1>8

\* A waiting pend that returns was granted its permit.
LEMMA PendReturns ==
  ASSUME QueueInv, NEW t \in Threads, Dispatch(t), pc[t] = "switched_out"
  PROVE  /\ WaitersMatchValue' /\ WaitersSleep' /\ WaiterStaysInPend'
         /\ Granted' = Granted \ {t}
         /\ t \in Granted
<1> USE DEF QueueInv
<1>1. /\ UNCHANGED <<head, value, runnable, hibernating, suspended, ready, copy>>
      /\ pc' = [pc EXCEPT ![t] = "idle"]
      /\ t \in runnable
  BY DEF Dispatch, schedVars
<1>2. \A x : IsWaiting(x)' <=> IsWaiting(x)
  BY <1>1 DEF IsWaiting
<1>3. InPend' = InPend \ {t} /\ t \in InPend
  BY <1>1 DEF InPend, TypeOK
<1>4. ~IsWaiting(t)
  BY <1>1 DEF WaitersSleep
<1>5. WaitersMatchValue'
  BY <1>1 DEF WaitersMatchValue
<1>6. WaitersSleep'
  BY <1>1, <1>2 DEF WaitersSleep
<1>7. WaiterStaysInPend'
  BY <1>2, <1>3, <1>4 DEF WaiterStaysInPend
<1>8. Granted' = Granted \ {t} /\ t \in Granted
  BY <1>2, <1>3, <1>4 DEF Granted
<1> QED BY <1>5, <1>6, <1>7, <1>8

-----------------------------------------------------------------------------
(* What each step does to the permits, in the terms of the abstract        *)
(* semaphore; both the conservation of permits and the refinement follow.  *)

NoEffect      == UNCHANGED <<value, head, posts, acquired, Granted>>
TakeEffect    == /\ value > 0 /\ value' = value - 1 /\ acquired' = acquired + 1
                 /\ UNCHANGED <<head, posts, Granted>>
WaitEffect(t) == /\ value <= 0 /\ value' = value - 1
                 /\ ~IsWaiting(t) /\ t \notin Granted /\ head' = Append(head, t)
                 /\ UNCHANGED <<posts, acquired, Granted>>
ReleaseEffect == /\ value >= 0 /\ value' = value + 1 /\ posts' = posts + 1
                 /\ UNCHANGED <<head, acquired, Granted>>
HandOffEffect == /\ value < 0 /\ value' = value + 1 /\ posts' = posts + 1
                 /\ Head(head) \notin Granted
                 /\ Granted' = Granted \cup {Head(head)} /\ head' = Tail(head)
                 /\ UNCHANGED acquired
ReturnEffect(t) == /\ t \in Granted /\ Granted' = Granted \ {t}
                   /\ acquired' = acquired + 1
                   /\ UNCHANGED <<value, head, posts>>

Effect ==
  \/ NoEffect \/ TakeEffect \/ ReleaseEffect \/ HandOffEffect
  \/ \E t \in Threads : WaitEffect(t) \/ ReturnEffect(t)

\* Every step keeps the queue invariant and has one of the abstract effects.
LEMMA NextEffect ==
  ASSUME QueueInv, [Next]_vars
  PROVE  QueueInv' /\ Effect
<1>0. TypeOK'
  BY NextTypeOK DEF QueueInv
<1>pc. pc' \in [Threads -> Steps]
  BY <1>0 DEF TypeOK
<1> DEFINE Goal == /\ WaitersMatchValue' /\ WaitersSleep' /\ WaiterStaysInPend'
                   /\ Effect
<1>1. ASSUME NEW t \in Threads, NEW c \in Calls, Call(t, c) PROVE Goal
  <2>1. \A u \in Threads : u \in InPend <=> u \in InPend'
    BY <1>1 DEF Call, Calls, InPend, QueueInv, TypeOK
  <2>2. UNCHANGED <<head, schedVars, copy, value, posts, acquired>>
    BY <1>1 DEF Call, semVars, cpuVars
  <2> QED BY <1>pc, <2>1, <2>2, Untouched DEF Effect, NoEffect
<1>2. ASSUME NEW t \in Threads, semaphore_pend(t) PROVE Goal
  <2>1. CASE value - 1 < 0
    <3>1. ~IsWaiting(t) /\ t \notin Granted
      BY <1>2 DEF semaphore_pend, Granted, InPend, QueueInv, WaiterStaysInPend
    <3>2. value <= 0
      BY <2>1 DEF QueueInv, TypeOK
    <3>3. /\ value' = value - 1 /\ head' = Append(head, t)
          /\ UNCHANGED <<posts, acquired>>
      BY <1>2, <2>1 DEF semaphore_pend, HibernateThread
    <3> QED BY <1>2, <2>1, <3>1, <3>2, <3>3, PendBlocks DEF Effect, WaitEffect
  <2>2. CASE ~(value - 1 < 0)
    <3>1. \A u \in Threads : u \in InPend <=> u \in InPend'
      BY <1>2, <2>2 DEF semaphore_pend, InPend, QueueInv, TypeOK
    <3>2. /\ UNCHANGED <<head, schedVars, copy, posts>>
          /\ value' = value - 1 /\ acquired' = acquired + 1
      BY <1>2, <2>2 DEF semaphore_pend, schedVars, cpuVars
    <3>3. value > 0 /\ Max0(-value') = Max0(-value)
      BY <2>2, <3>2 DEF QueueInv, TypeOK, Max0
    <3> QED BY <1>pc, <3>1, <3>2, <3>3, Untouched DEF Effect, TakeEffect
  <2> QED BY <2>1, <2>2
<1>3. ASSUME NEW t \in Threads, semaphore_post(t) PROVE Goal
  <2>1. CASE value + 1 <= 0
    <3>1. value < 0
      BY <2>1 DEF QueueInv, TypeOK
    <3>2. /\ value' = value + 1 /\ posts' = posts + 1
          /\ head' = Tail(head) /\ UNCHANGED acquired
      BY <1>3, <2>1 DEF semaphore_post, RestoreThread
    <3> QED BY <1>3, <2>1, <3>1, <3>2, PostWakes DEF Effect, HandOffEffect
  <2>2. CASE ~(value + 1 <= 0)
    <3>1. \A u \in Threads : u \in InPend <=> u \in InPend'
      BY <1>3, <2>2 DEF semaphore_post, InPend, QueueInv, TypeOK
    <3>2. /\ UNCHANGED <<head, schedVars, copy, acquired>>
          /\ value' = value + 1 /\ posts' = posts + 1
      BY <1>3, <2>2 DEF semaphore_post, schedVars, cpuVars
    <3>3. value >= 0 /\ Max0(-value') = Max0(-value)
      BY <2>2, <3>2 DEF QueueInv, TypeOK, Max0
    <3> QED BY <1>pc, <3>1, <3>2, <3>3, Untouched DEF Effect, ReleaseEffect
  <2> QED BY <2>1, <2>2
<1>4. ASSUME NEW t \in Threads, semaphore_try_pend(t) PROVE Goal
  <2>1. \A u \in Threads : u \in InPend <=> u \in InPend'
    BY <1>4 DEF semaphore_try_pend, InPend, QueueInv, TypeOK
  <2>2. UNCHANGED <<head, schedVars, copy, posts>>
    BY <1>4 DEF semaphore_try_pend, cpuVars
  <2>3. CASE value <= 0
    <3>1. UNCHANGED <<value, acquired>>
      BY <1>4, <2>3 DEF semaphore_try_pend
    <3> QED BY <1>pc, <2>1, <2>2, <3>1, Untouched DEF Effect, NoEffect
  <2>4. CASE ~(value <= 0)
    <3>1. value' = value - 1 /\ acquired' = acquired + 1
      BY <1>4, <2>4 DEF semaphore_try_pend
    <3>2. value > 0 /\ Max0(-value') = Max0(-value)
      BY <2>4, <3>1 DEF QueueInv, TypeOK, Max0
    <3> QED BY <1>pc, <2>1, <2>2, <3>1, <3>2, Untouched DEF Effect, TakeEffect
  <2> QED BY <2>3, <2>4
<1>5. ASSUME NEW t \in Threads,
             \/ semaphore_count(t) \/ mutex_unlock(t) \/ Schedule(t) \/ Preempt(t)
             \/ ClearRunning(t)
      PROVE  Goal
  <2>1. \A u \in Threads : u \in InPend <=> u \in InPend'
    BY <1>5 DEF semaphore_count, mutex_unlock, Schedule, Preempt, ClearRunning, InPend, QueueInv, TypeOK
  <2>2. UNCHANGED <<head, schedVars, copy, value, posts, acquired>>
    BY <1>5 DEF semaphore_count, mutex_unlock, Schedule, Preempt, ClearRunning, SwitchOut,
                semVars, cpuVars
  <2> QED BY <1>pc, <2>1, <2>2, Untouched DEF Effect, NoEffect
<1>6. ASSUME NEW t \in Threads, Dispatch(t) PROVE Goal
  <2>1. CASE pc[t] = "switched_out"
    <3>1. acquired' = acquired + 1 /\ UNCHANGED <<value, head, posts>>
      BY <1>6, <2>1 DEF Dispatch
    <3> QED BY <1>6, <2>1, <3>1, PendReturns DEF Effect, ReturnEffect
  <2>2. CASE pc[t] # "switched_out"
    <3>1. UNCHANGED <<head, schedVars, copy, value, posts, acquired, pc>>
      BY <1>6, <2>2 DEF Dispatch
    <3>2. \A u \in Threads : u \in InPend <=> u \in InPend'
      BY <3>1 DEF InPend
    <3> QED BY <1>pc, <3>1, <3>2, Untouched DEF Effect, NoEffect
  <2> QED BY <2>1, <2>2
<1>7. ASSUME NEW t \in Threads,
             \/ \E u \in Threads : Suspend(t, u) \/ Resume(t, u)
             \/ LoadFlags(t) \/ StoreFlags(t)
      PROVE  Goal
  BY <1>7, FlagUpdates DEF Effect, NoEffect
<1>8. ASSUME UNCHANGED vars PROVE Goal
  <2>1. UNCHANGED <<head, schedVars, copy, value, posts, acquired, pc>>
    BY <1>8 DEF vars, semVars, cpuVars
  <2>2. \A u \in Threads : u \in InPend <=> u \in InPend'
    BY <2>1 DEF InPend
  <2> QED BY <1>pc, <2>1, <2>2, Untouched DEF Effect, NoEffect
<1>9. Goal
  <2> HIDE DEF Goal
  <2> QED
    BY <1>1, <1>2, <1>3, <1>4, <1>5, <1>6, <1>7, <1>8 DEF Next, Step
<1> QED BY <1>0, <1>9 DEF QueueInv

-----------------------------------------------------------------------------

IInv == QueueInv /\ PermitsAddUp

\* The set of granted threads is finite, so its cardinality is a number.
LEMMA GrantedFinite ==
  ASSUME TypeOK
  PROVE  IsFiniteSet(Granted) /\ Cardinality(Granted) \in Nat
<1>1. Granted \in SUBSET Threads
  BY DEF Granted, InPend
<1> QED BY <1>1, FS_Subset, FS_CardinalityType

\* Each abstract effect conserves the permits.
LEMMA EffectConserves ==
  ASSUME IInv, Effect, TypeOK'
  PROVE  PermitsAddUp'
<1> USE DEF PermitsAddUp, Max0
<1>1. /\ value \in Int /\ acquired \in Nat /\ posts \in Nat
      /\ IsFiniteSet(Granted) /\ Cardinality(Granted) \in Nat
      /\ PermitsAddUp
  BY GrantedFinite DEF IInv, QueueInv, TypeOK
<1>2. CASE NoEffect
  BY <1>1, <1>2 DEF NoEffect
<1>3. CASE TakeEffect
  BY <1>1, <1>3 DEF TakeEffect
<1>4. CASE ReleaseEffect
  <2>1. Cardinality(Granted') = Cardinality(Granted)
    BY <1>4 DEF ReleaseEffect
  <2>2. Max0(value)' = Max0(value) + 1 /\ acquired' = acquired /\ posts' = posts + 1
    BY <1>1, <1>4 DEF ReleaseEffect
  <2> HIDE DEF Max0
  <2>3. Max0(value) \in Int
    BY <1>1 DEF Max0
  <2> QED BY <1>1, <2>1, <2>2, <2>3
<1>5. CASE HandOffEffect
  <2>1. Cardinality(Granted') = Cardinality(Granted) + 1
    BY <1>1, <1>5, FS_AddElement DEF HandOffEffect
  <2> QED BY <1>1, <1>5, <2>1 DEF HandOffEffect
<1>6. ASSUME NEW t \in Threads, WaitEffect(t) PROVE PermitsAddUp'
  BY <1>1, <1>6 DEF WaitEffect
<1>7. ASSUME NEW t \in Threads, ReturnEffect(t) PROVE PermitsAddUp'
  <2>1. Cardinality(Granted') = Cardinality(Granted) - 1
    BY <1>1, <1>7, FS_RemoveElement DEF ReturnEffect
  <2> QED BY <1>1, <1>7, <2>1 DEF ReturnEffect
<1> QED BY <1>2, <1>3, <1>4, <1>5, <1>6, <1>7 DEF Effect

\* The initial state satisfies the inductive invariant.
LEMMA InitIInv == Init => IInv
<1> SUFFICES ASSUME Init PROVE IInv
  OBVIOUS
<1>1. TypeOK
  BY InitTypeOK
<1>2. Len(head) = 0 /\ \A t : ~IsWaiting(t)
  BY DEF Init, IsWaiting
<1>3. InPend = {} /\ Granted = {}
  BY DEF Init, InPend, Granted
<1>4. WaitersMatchValue
  BY <1>2 DEF Init, WaitersMatchValue, Max0
<1>5. WaitersSleep /\ WaiterStaysInPend
  BY <1>2 DEF Init, WaitersSleep, WaiterStaysInPend
<1>6. PermitsAddUp
  BY <1>3, FS_EmptySet DEF Init, PermitsAddUp, Max0
<1> QED BY <1>1, <1>4, <1>5, <1>6 DEF IInv, QueueInv

\* The invariant is inductive.
LEMMA NextIInv == IInv /\ [Next]_vars => IInv'
<1> SUFFICES ASSUME IInv, [Next]_vars PROVE IInv'
  OBVIOUS
<1>1. QueueInv' /\ Effect
  BY NextEffect DEF IInv
<1>2. PermitsAddUp'
  BY <1>1, EffectConserves DEF QueueInv
<1> QED BY <1>1, <1>2 DEF IInv

\* The specification keeps the inductive invariant.
THEOREM SemaphoreInvariant == Spec => []IInv
  BY InitIInv, NextIInv, PTL DEF Spec

\* Every variable keeps its type (semaphores.c).
THEOREM SemaphoreTypeOK == Spec => []TypeOK
<1>1. IInv => TypeOK
  BY DEF IInv, QueueInv
<1> QED BY <1>1, SemaphoreInvariant, PTL

\* semaphore_pend and semaphore_try_pend never hand out more permits than the
\* initial value and the posts provide, and none is lost, whatever suspension,
\* preemption and hibernation do to the threads.
THEOREM PermitsConserved == Spec => []PermitConservation
<1>1. IInv => PermitConservation
  BY DEF IInv, QueueInv, PermitConservation
<1> QED BY <1>1, SemaphoreInvariant, PTL

-----------------------------------------------------------------------------
(* The ready queue, while no store has undone an update of flags.          *)

FlagsInv == undone \/ (HibernatingAreWaiters /\ ReadyDiscipline)

\* Every step that undoes nothing keeps flags and queue in agreement.
LEMMA NextFlagsInv ==
  ASSUME QueueInv, FlagsInv, [Next]_vars
  PROVE  FlagsInv'
<1> USE DEF QueueInv, TypeOK, FlagsInv, schedVars, cpuVars
<1> DEFINE Agree == /\ HibernatingAreWaiters
                    /\ ready = Threads \ (hibernating \cup suspended) /\ runnable = ready
<1>0. CASE undone
  <2>1. ASSUME NEW t \in Threads,
               \/ semaphore_pend(t) \/ semaphore_post(t) \/ semaphore_try_pend(t)
               \/ semaphore_count(t) \/ mutex_unlock(t) \/ Schedule(t)
               \/ Dispatch(t) \/ Preempt(t) \/ ClearRunning(t) \/ LoadFlags(t)
               \/ StoreFlags(t) \/ \E c \in Calls : Call(t, c)
               \/ \E u \in Threads : Suspend(t, u) \/ Resume(t, u)
        PROVE  undone'
    BY <1>0, <2>1 DEF semaphore_pend, semaphore_post, semaphore_try_pend, semaphore_count,
       mutex_unlock, Schedule, SwitchOut, Dispatch, Preempt, ClearRunning, LoadFlags,
       StoreFlags, Call, Suspend, Resume
  <2>2. CASE UNCHANGED vars
    BY <1>0, <2>2 DEF vars
  <2> QED BY <2>1, <2>2 DEF Next, Step
<1> SUFFICES ASSUME Agree PROVE Agree' \/ undone'
  BY <1>0 DEF ReadyDiscipline
<1>1. ASSUME UNCHANGED <<head, schedVars>> PROVE Agree'
  BY <1>1 DEF HibernatingAreWaiters, IsWaiting
<1>2. ASSUME NEW t \in Threads, semaphore_pend(t) PROVE Agree'
  <2>1. CASE value - 1 < 0
    <3>1. /\ head' = Append(head, t) /\ hibernating' = hibernating \cup {t}
          /\ ready' = Threads \ (hibernating' \cup suspended') /\ runnable' = ready'
      <4>1. /\ head' = Append(head, t) /\ hibernating' = hibernating \cup {t}
            /\ runnable' = runnable \ {t} /\ suspended' = suspended
            /\ ready' = IF t \in suspended THEN ready ELSE ready \ {t}
        BY <1>2, <2>1 DEF semaphore_pend, HibernateThread
      <4> QED BY <4>1
    <3>2. \A u \in hibernating' : IsWaiting(u)'
      BY <3>1, AppendWaiter DEF HibernatingAreWaiters, IsWaiting
    <3> QED BY <3>1, <3>2 DEF HibernatingAreWaiters
  <2>2. CASE ~(value - 1 < 0)
    BY <1>1, <1>2, <2>2 DEF semaphore_pend
  <2> QED BY <2>1, <2>2
<1>3. ASSUME NEW t \in Threads, semaphore_post(t) PROVE Agree'
  <2>1. CASE value + 1 <= 0
    <3>1. head # << >>
      BY <2>1 DEF WaitersMatchValue, Max0
    <3>2. head' = Tail(head) /\ hibernating' = hibernating \ {Head(head)}
      BY <1>3, <2>1 DEF semaphore_post, RestoreThread
    <3>3. ready' = Threads \ (hibernating' \cup suspended') /\ runnable' = ready'
      <4>1. /\ hibernating' = hibernating \ {Head(head)} /\ suspended' = suspended
            /\ runnable' = IF Head(head) \in suspended THEN runnable
                                                       ELSE runnable \cup {Head(head)}
            /\ ready' = IF Head(head) \in suspended THEN ready
                                                    ELSE ready \cup {Head(head)}
        BY <1>3, <2>1 DEF semaphore_post, RestoreThread
      <4> QED BY <3>1, <4>1, RemoveWaiter
    <3>4. ASSUME NEW u \in hibernating' PROVE IsWaiting(u)'
      <4>1. PICK i \in 1..Len(head) : head[i] = u
        BY <3>2 DEF HibernatingAreWaiters, IsWaiting
      <4>2. i # 1 /\ i - 1 \in 1..Len(Tail(head)) /\ Tail(head)[i - 1] = u
        BY <3>1, <3>2, <4>1, RemoveWaiter
      <4> QED BY <3>2, <4>2 DEF IsWaiting
    <3> QED BY <3>2, <3>3, <3>4 DEF HibernatingAreWaiters
  <2>2. CASE ~(value + 1 <= 0)
    BY <1>1, <1>3, <2>2 DEF semaphore_post
  <2> QED BY <2>1, <2>2
<1>4. ASSUME NEW t \in Threads, NEW u \in Threads, Suspend(t, u) \/ Resume(t, u)
      PROVE  Agree'
  <2>1. /\ UNCHANGED <<head, hibernating>>
        /\ \A x : IsWaiting(x)' <=> IsWaiting(x)
    BY <1>4 DEF Suspend, Resume, semVars, IsWaiting
  <2>2. CASE Suspend(t, u)
    BY <2>1, <2>2 DEF Suspend, HibernatingAreWaiters
  <2>3. CASE Resume(t, u)
    BY <2>1, <2>3 DEF Resume, HibernatingAreWaiters
  <2> QED BY <1>4, <2>2, <2>3
<1>5. ASSUME NEW t \in Threads,
             \/ \E c \in Calls : Call(t, c)
             \/ semaphore_try_pend(t) \/ semaphore_count(t) \/ mutex_unlock(t)
             \/ Schedule(t) \/ Dispatch(t) \/ Preempt(t) \/ ClearRunning(t)
             \/ LoadFlags(t)
      PROVE  Agree'
  BY <1>1, <1>5 DEF Call, semaphore_try_pend, semaphore_count, mutex_unlock, Schedule,
     Dispatch, Preempt, ClearRunning, LoadFlags, semVars
<1>6. ASSUME NEW t \in Threads, StoreFlags(t) PROVE Agree' \/ undone'
  <2>1. PICK w \in copy[t] :
           /\ runnable' = Put(runnable, t, w.runnable)
           /\ hibernating' = Put(hibernating, t, w.hibernating)
           /\ suspended' = Put(suspended, t, w.suspended)
           /\ undone' = (undone \/ w # FlagsOf(t))
           /\ UNCHANGED <<head, ready>>
    BY <1>6 DEF StoreFlags, semVars
  <2>2. CASE w # FlagsOf(t)
    BY <2>1, <2>2
  <2>3. CASE w = FlagsOf(t)
    <3>1. /\ w.runnable = (t \in runnable) /\ w.hibernating = (t \in hibernating)
          /\ w.suspended = (t \in suspended)
      BY <2>3 DEF FlagsOf
    <3>2. UNCHANGED schedVars
      BY <2>1, <3>1 DEF Put
    <3> QED BY <1>1, <2>1, <3>2
  <2> QED BY <2>2, <2>3
<1>7. CASE UNCHANGED vars
  BY <1>1, <1>7 DEF vars, semVars
<1> HIDE DEF Agree
<1> QED
  BY <1>2, <1>3, <1>4, <1>5, <1>6, <1>7 DEF Next, Step

\* A thread is runnable and on the ready queue exactly when it neither waits nor is
\* suspended, for every interleaving of hibernate, restore, suspend and resume, until a
\* store undoes another processor's update of flags.
THEOREM ReadyDisciplineHolds == Spec => []ReadyDiscipline
<1>1. Init => FlagsInv
  BY DEF Init, FlagsInv, HibernatingAreWaiters, ReadyDiscipline
<1>2. IInv /\ FlagsInv /\ [Next]_vars => FlagsInv'
  BY NextFlagsInv DEF IInv
<1>3. FlagsInv => ReadyDiscipline
  BY DEF FlagsInv, ReadyDiscipline
<1> QED BY <1>1, <1>2, <1>3, SemaphoreInvariant, PTL DEF Spec

\* The semaphore implements the abstract counting semaphore: FIFO hand-off and
\* no pend that returns without a permit.
THEOREM SemaphoreRefines == Spec => ImplementsCountingSemaphore
<1>1. Init => Abstract!AbsInit
  <2> SUFFICES ASSUME Init PROVE Abstract!AbsInit
    OBVIOUS
  <2>1. Granted = {}
    BY DEF Init, InPend, Granted
  <2> QED BY <2>1 DEF Init, Abstract!AbsInit, Max0
<1>2. IInv /\ [Next]_vars => [Abstract!AbsNext]_(Abstract!absVars)
  <2> SUFFICES ASSUME IInv, [Next]_vars
               PROVE  [Abstract!AbsNext]_(Abstract!absVars)
    OBVIOUS
  <2>0. /\ value \in Int /\ head \in Seq(Threads)
        /\ Len(head) = Max0(-value) /\ Effect
    BY NextEffect DEF IInv, QueueInv, TypeOK, WaitersMatchValue
  <2>1. CASE NoEffect
    BY <2>1 DEF NoEffect, Abstract!absVars
  <2>2. CASE TakeEffect
    <3>1. Max0(value) > 0 /\ Max0(value') = Max0(value) - 1
      BY <2>0, <2>2 DEF TakeEffect, Max0
    <3>2. Abstract!Take
      BY <2>2, <3>1 DEF TakeEffect, Abstract!Take, Max0
    <3> QED BY <3>2 DEF Abstract!AbsNext
  <2>3. CASE ReleaseEffect
    <3>1. Max0(value') = Max0(value) + 1 /\ Len(head) = 0
      BY <2>0, <2>3 DEF ReleaseEffect, Max0
    <3>2. head = << >>
      BY <2>0, <3>1
    <3>3. Abstract!Release
      BY <2>3, <3>1, <3>2 DEF ReleaseEffect, Abstract!Release, Max0
    <3> QED BY <3>3 DEF Abstract!AbsNext
  <2>4. CASE HandOffEffect
    <3>1. Max0(value') = Max0(value) /\ Len(head) > 0
      BY <2>0, <2>4 DEF HandOffEffect, Max0
    <3>2. head # << >>
      BY <3>1
    <3>3. Abstract!HandOff
      BY <2>4, <3>1, <3>2 DEF HandOffEffect, Abstract!HandOff, Max0
    <3> QED BY <3>3 DEF Abstract!AbsNext
  <2>5. ASSUME NEW t \in Threads, WaitEffect(t)
        PROVE  [Abstract!AbsNext]_(Abstract!absVars)
    <3>1. Max0(value) = 0 /\ Max0(value') = 0
      BY <2>0, <2>5 DEF WaitEffect, Max0
    <3>2. ~Abstract!Waiting(t)
      BY <2>5 DEF WaitEffect, IsWaiting, Abstract!Waiting
    <3>3. Abstract!Wait(t)
      BY <2>5, <3>1, <3>2 DEF WaitEffect, Abstract!Wait, Max0
    <3> QED BY <3>3 DEF Abstract!AbsNext
  <2>6. ASSUME NEW t \in Threads, ReturnEffect(t)
        PROVE  [Abstract!AbsNext]_(Abstract!absVars)
    <3>1. Abstract!Return(t)
      BY <2>6 DEF ReturnEffect, Abstract!Return, Max0
    <3> QED BY <3>1 DEF Abstract!AbsNext
  <2> QED BY <2>0, <2>1, <2>2, <2>3, <2>4, <2>5, <2>6 DEF Effect
<1> QED
  BY <1>1, <1>2, SemaphoreInvariant, PTL
  DEF Spec, ImplementsCountingSemaphore, Abstract!AbsSpec
=============================================================================
