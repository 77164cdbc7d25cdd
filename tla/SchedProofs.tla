---------------------------- MODULE SchedProofs ----------------------------
(***************************************************************************)
(* Proofs about the scheduler (Sched), for any numbers of threads and       *)
(* processors.                                                             *)
(*                                                                         *)
(* No thread executes on two processors, in any workload in which threads   *)
(* are suspended on one processor only (SchedInv).  What keeps a thread on  *)
(* one processor is its affinity, not RUNNING_FLAG, which hibernate()       *)
(* clears while the thread still executes: the current and the previous     *)
(* thread of a processor have its number in thread->cpu.  Only a thread     *)
(* that never ran may be picked by any processor, and RUNNING_FLAG keeps it *)
(* to the one that picked it until it is switched in.                       *)
(*                                                                         *)
(* In a careful workload the flags of a thread, the list it is linked on,   *)
(* its timeout and its existence agree with the step it is at, and the      *)
(* threads a processor has chosen and executes are runnable (LinksInv).     *)
(* Hence the ready queue holds the runnable threads, a joiner is on the     *)
(* list of a thread that will wake it, nothing refers to a thread that was  *)
(* reaped, and one BUG() alone is reached: that of a joiner which returns   *)
(* between being woken by pthread_cancel and being marked as cancelled.     *)
(***************************************************************************)
EXTENDS Sched, TLAPS, FiniteSetTheorems, WellFoundedInduction

Flags == {"RUNNABLE", "RUNNING", "HIBERNATION", "SUSPENDED", "SLEEP", "JOINING", "DYING", "CANCELLED"}
Lists == {READY, DEAD} \cup Threads
Bugs == {"none", "list", "block", "wake", "schedule", "join", "exit"}
KStates == [flags : [Threads -> SUBSET Flags], lists : [Lists -> Seq(Threads)], bug : Bugs]
Modes == {"exec", "pick", "switch", "switch_in", "store", "reap"}
WorkloadType ==
  [main : SUBSET Threads, cpus : SUBSET Cpus, ops : SUBSET STRING, atomic : BOOLEAN,
   calls : [Threads -> Nat], preempts : [Cpus -> Nat]]

STypeOK ==
  /\ k \in KStates /\ sleep_queue \in Seq(Threads) /\ due \in 0..Len(sleep_queue)
  /\ cpu \in [Threads -> Cpus \cup {NoCpu}]
  /\ current \in [Cpus -> Threads \cup {NoThread}]
  /\ next \in [Cpus -> Threads \cup {NoThread}]
  /\ prev \in [Cpus -> Threads \cup {NoThread}]
  /\ mode \in [Cpus -> Modes] /\ saved \in [Cpus -> SUBSET Flags]
  /\ pc \in [Threads -> Steps] /\ target \in [Threads -> Threads \cup {NoThread}]
  /\ workload \in WorkloadType

\* The behaviour has one processor at most; only then are threads suspended.
Solo == \E c \in Cpus : workload.cpus \subseteq {c}
SSteps ==
  /\ "suspend" \in workload.ops => Solo
  /\ \A t \in Threads :
       /\ pc[t] = "susp_do" => Solo
       /\ pc[t] \in {"cancel_do", "cancel_mark"} => target[t] \in Threads

\* Processors that are not up stay idle.
SIdle ==
  \A c \in Cpus \ workload.cpus :
    mode[c] = "exec" /\ current[c] = NoThread /\ next[c] = NoThread /\ prev[c] = NoThread

\* Threads are on the processor that first ran them, and a thread that never ran is
\* chosen by one processor.
SPlaces ==
  \A c \in Cpus :
    /\ current[c] # NoThread => cpu[current[c]] = c
    /\ prev[c] # NoThread => cpu[prev[c]] = c
    /\ next[c] # NoThread => cpu[next[c]] \in {c, NoCpu}
    /\ next[c] # NoThread /\ cpu[next[c]] = NoCpu => Solo \/ "RUNNING" \in k.flags[next[c]]
    /\ \A d \in Cpus : next[c] # NoThread /\ next[d] = next[c] => c = d

\* The inductive invariant.
SchedInv == STypeOK /\ SSteps /\ SIdle /\ SPlaces

-----------------------------------------------------------------------------
(* Minima, recursion over an interval, sequences *)

\* A set of natural numbers that is not empty has a least element, and Min is one.
LEMMA MinIsLeast ==
  ASSUME NEW S \in SUBSET Nat, S # {}
  PROVE  Min(S) \in S /\ \A y \in S : Min(S) <= y
<1>1. \E x \in S : \A y \in S : ~(<<y, x>> \in OpToRel(<, Nat))
  BY WFMin, NatLessThanWellFounded
<1>2. PICK x \in S : \A y \in S : ~(<<y, x>> \in OpToRel(<, Nat))
  BY <1>1
<1>3. ASSUME NEW y \in S, ~(x <= y) PROVE FALSE
  <2>1. y < x
    BY <1>3
  <2>2. <<y, x>> \in OpToRel(<, Nat)
    BY <2>1 DEF OpToRel
  <2> QED BY <1>2, <2>2
<1> QED BY <1>3 DEF Min

\* A function over 0..n whose steps stay in S stays in S.
LEMMA Chain ==
  ASSUME NEW S, NEW n \in Nat, NEW w, w[0] \in S,
         \A i \in 1..n : w[i - 1] \in S => w[i] \in S
  PROVE  \A i \in 0..n : w[i] \in S
<1> DEFINE B == {i \in 0..n : w[i] \notin S}
<1>1. SUFFICES ASSUME B # {} PROVE FALSE
  OBVIOUS
<1>2. B \in SUBSET Nat
  OBVIOUS
<1>3. PICK m \in B : \A y \in B : m <= y
  BY <1>1, <1>2, MinIsLeast
<1>4. m \in 1..n /\ m - 1 \in 0..n /\ m - 1 \notin B
  BY <1>3
<1>5. w[m - 1] \in S
  BY <1>4
<1> QED BY <1>3, <1>4, <1>5

Iterates(w, n, x, F) == w[0] = x /\ \A i \in 1..n : w[i] = F[i][w[i - 1]]
\* Recursion over an interval defines a function.
LEMMA Recursion ==
  ASSUME NEW S, NEW n \in Nat, NEW x \in S, NEW F \in [1..n -> [S -> S]]
  PROVE  \E w \in [0..n -> S] : Iterates(w, n, x, F)
<1> DEFINE B == {m \in 0..n : ~\E w \in [0..m -> S] : Iterates(w, m, x, F)}
<1>1. SUFFICES ASSUME B # {} PROVE FALSE
  OBVIOUS
<1>2. B \in SUBSET Nat
  OBVIOUS
<1>3. PICK m \in B : \A y \in B : m <= y
  BY <1>1, <1>2, MinIsLeast
<1>4. m # 0
  <2>1. SUFFICES ASSUME m = 0 PROVE FALSE
    OBVIOUS
  <2>2. [i \in 0..m |-> x] \in [0..m -> S] /\ Iterates([i \in 0..m |-> x], m, x, F)
    BY <2>1 DEF Iterates
  <2> QED BY <1>3, <2>2
<1>5. m \in 1..n /\ m - 1 \in 0..n /\ m - 1 \notin B
  BY <1>3, <1>4
<1>6. PICK w \in [0..(m - 1) -> S] : Iterates(w, m - 1, x, F)
  BY <1>5 DEF B
<1>7. F[m][w[m - 1]] \in S
  BY <1>5, <1>6
<1> DEFINE v == [i \in 0..m |-> IF i = m THEN F[m][w[m - 1]] ELSE w[i]]
<1>8. v \in [0..m -> S]
  BY <1>5, <1>6, <1>7
<1>9. Iterates(v, m, x, F)
  <2>1. v[0] = x
    BY <1>5, <1>6 DEF Iterates
  <2>2. ASSUME NEW i \in 1..m PROVE v[i] = F[i][v[i - 1]]
    <3>1. i - 1 \in 0..m /\ i - 1 # m /\ v[i - 1] = w[i - 1]
      BY <1>5, <2>2
    <3>2. CASE i = m
      BY <1>5, <3>1, <3>2
    <3>3. CASE i # m
      <4>1. i \in 1..(m - 1) /\ v[i] = w[i]
        BY <1>5, <2>2, <3>3
      <4> QED BY <1>6, <3>1, <4>1 DEF Iterates
    <3> QED BY <3>2, <3>3
  <2> HIDE DEF v
  <2> QED BY <2>1, <2>2 DEF Iterates
<1> HIDE DEF v
<1> QED BY <1>3, <1>8, <1>9

\* An empty sequence has length 0; elements of a sequence over S are in S.
LEMMA Lengths ==
  ASSUME NEW S, NEW q \in Seq(S)
  PROVE  Len(q) \in Nat /\ \A i \in 1..Len(q) : q[i] \in S
  OBVIOUS

\* Appending.
LEMMA AppendOne ==
  ASSUME NEW S, NEW q \in Seq(S), NEW v \in S
  PROVE  Append(q, v) \in Seq(S)
  OBVIOUS

\* Concatenating.
LEMMA Concatenation ==
  ASSUME NEW S, NEW q \in Seq(S), NEW r \in Seq(S)
  PROVE  q \o r \in Seq(S) /\ Len(q \o r) = Len(q) + Len(r)
  OBVIOUS

\* Removing an element that is there shortens the sequence by one.
LEMMA Removal ==
  ASSUME NEW S, NEW q \in Seq(S), NEW v
  PROVE  /\ RemoveFirst(q, v) \in Seq(S)
         /\ Len(RemoveFirst(q, v)) = IF \E i \in 1..Len(q) : q[i] = v THEN Len(q) - 1 ELSE Len(q)
<1>1. CASE ~\E i \in 1..Len(q) : q[i] = v
  BY <1>1 DEF RemoveFirst
<1>2. CASE \E i \in 1..Len(q) : q[i] = v
  <2> DEFINE I == {i \in 1..Len(q) : q[i] = v}
  <2>1. I \in SUBSET Nat /\ I # {} /\ Len(q) \in Nat
    BY <1>2
  <2>2. PICK i \in I : i = Min(I)
    BY <2>1, MinIsLeast
  <2>3. RemoveFirst(q, v) = RemoveAt(q, i)
    BY <1>2, <2>1, <2>2 DEF RemoveFirst, SelectInSeq
  <2>4. i \in 1..Len(q)
    BY <2>2
  <2> HIDE DEF I
  <2>5. /\ SubSeq(q, 1, i - 1) \in Seq(S) /\ Len(SubSeq(q, 1, i - 1)) = i - 1
        /\ SubSeq(q, i + 1, Len(q)) \in Seq(S) /\ Len(SubSeq(q, i + 1, Len(q))) = Len(q) - i
    BY <2>1, <2>4
  <2>6. RemoveAt(q, i) = SubSeq(q, 1, i - 1) \o SubSeq(q, i + 1, Len(q))
    BY DEF RemoveAt
  <2>7. /\ RemoveAt(q, i) \in Seq(S)
        /\ Len(RemoveAt(q, i)) = Len(SubSeq(q, 1, i - 1)) + Len(SubSeq(q, i + 1, Len(q)))
    BY <2>5, <2>6, Concatenation
  <2>8. Len(RemoveAt(q, i)) = Len(q) - 1
    <3>1. PICK n \in Nat : n = Len(q)
      BY <2>1
    <3>2. i \in 1..n /\ Len(RemoveAt(q, i)) = (i - 1) + (n - i)
      BY <2>4, <2>5, <2>7, <3>1
    <3>3. (i - 1) + (n - i) = n - 1
      BY <3>2
    <3> QED BY <3>1, <3>2, <3>3
  <2> QED BY <1>2, <2>3, <2>7, <2>8
<1> QED BY <1>1, <1>2

\* Inserting an element lengthens the sequence by one.
LEMMA Insertion ==
  ASSUME NEW S, NEW q \in Seq(S), NEW v \in S, NEW i \in 1..(Len(q) + 1)
  PROVE  InsertAt(q, i, v) \in Seq(S) /\ Len(InsertAt(q, i, v)) = Len(q) + 1
<1>1. Len(q) \in Nat
  OBVIOUS
<1>2. /\ SubSeq(q, 1, i - 1) \in Seq(S) /\ Len(SubSeq(q, 1, i - 1)) = i - 1
      /\ SubSeq(q, i, Len(q)) \in Seq(S) /\ Len(SubSeq(q, i, Len(q))) = Len(q) - i + 1
  BY <1>1
<1>3. <<v>> \in Seq(S) /\ Len(<<v>>) = 1
  OBVIOUS
<1>4. /\ SubSeq(q, 1, i - 1) \o <<v>> \in Seq(S)
      /\ Len(SubSeq(q, 1, i - 1) \o <<v>>) = i
  BY <1>1, <1>2, <1>3, Concatenation
<1>5. PICK x \in Seq(S) : x = SubSeq(q, 1, i - 1) \o <<v>> /\ Len(x) = i
  BY <1>4
<1>6. PICK y \in Seq(S) : y = SubSeq(q, i, Len(q)) /\ Len(y) = Len(q) - i + 1
  BY <1>2
<1>7. x \o y \in Seq(S) /\ Len(x \o y) = Len(q) + 1
  <2>1. x \o y \in Seq(S) /\ Len(x \o y) = Len(x) + Len(y)
    BY Concatenation
  <2>2. PICK n \in Nat : n = Len(q)
    BY <1>1
  <2>3. i \in 1..(n + 1) /\ Len(x \o y) = i + (n - i + 1)
    BY <1>5, <1>6, <2>1, <2>2
  <2>4. i + (n - i + 1) = n + 1
    BY <2>3
  <2> QED BY <2>1, <2>2, <2>3, <2>4
<1>8. InsertAt(q, i, v) = x \o y
  BY <1>5, <1>6 DEF InsertAt
<1> QED BY <1>1, <1>7, <1>8

-----------------------------------------------------------------------------
(* What sequences contain *)

\* No element occurs twice.
Distinct(q) == \A i, j \in 1..Len(q) : q[i] = q[j] => i = j

\* Concatenating sequences: the elements of both, in their order.
LEMMA ConcatElements ==
  ASSUME NEW S, NEW q \in Seq(S), NEW r \in Seq(S)
  PROVE  /\ \A i \in 1..Len(q) : (q \o r)[i] = q[i]
         /\ \A i \in 1..Len(r) : (q \o r)[Len(q) + i] = r[i]
         /\ \A i \in 1..(Len(q) + Len(r)) :
              i \in 1..Len(q) \/ (i - Len(q) \in 1..Len(r) /\ (q \o r)[i] = r[i - Len(q)])
  OBVIOUS

\* Appending an element to a sequence without it.
LEMMA AppendElements ==
  ASSUME NEW S, NEW q \in Seq(S), NEW v \in S
  PROVE  /\ \A x : Contains(Append(q, v), x) <=> Contains(q, x) \/ x = v
         /\ Distinct(q) /\ ~Contains(q, v) => Distinct(Append(q, v))
<1>1. Len(q) \in Nat /\ Len(Append(q, v)) = Len(q) + 1 /\ Append(q, v)[Len(q) + 1] = v
      /\ \A i \in 1..Len(q) : Append(q, v)[i] = q[i]
  OBVIOUS
<1>2. PICK n \in Nat : n = Len(q)
  BY <1>1
<1>3. PICK a : a = Append(q, v)
  OBVIOUS
<1>4. Len(a) = n + 1 /\ a[n + 1] = v /\ \A i \in 1..n : a[i] = q[i]
  BY <1>1, <1>2, <1>3
<1>5. \A i \in 1..(n + 1) : i \in 1..n \/ i = n + 1
  BY <1>2
<1>6. n + 1 \in 1..(n + 1) /\ \A i \in 1..n : i \in 1..(n + 1)
  BY <1>2
<1>7. ASSUME NEW x PROVE Contains(a, x) <=> Contains(q, x) \/ x = v
  BY <1>2, <1>4, <1>5, <1>6 DEF Contains
<1>8. Distinct(q) /\ ~Contains(q, v) => Distinct(a)
  BY <1>2, <1>4, <1>5, <1>6 DEF Contains, Distinct
<1> QED BY <1>3, <1>7, <1>8

\* Taking the element at a position out: the others remain, in their order.
LEMMA RemoveElements ==
  ASSUME NEW S, NEW q \in Seq(S), NEW p \in 1..Len(q)
  PROVE  /\ RemoveAt(q, p) \in Seq(S) /\ Len(RemoveAt(q, p)) = Len(q) - 1
         /\ \A i \in 1..(Len(q) - 1) : RemoveAt(q, p)[i] = IF i < p THEN q[i] ELSE q[i + 1]
<1> DEFINE x == SubSeq(q, 1, p - 1)
           y == SubSeq(q, p + 1, Len(q))
<1>0. Len(q) \in Nat
  OBVIOUS
<1>1. PICK n \in Nat : n = Len(q)
  BY <1>0
<1>a. /\ x \in Seq(S) /\ Len(x) = p - 1 /\ \A i \in 1..(p - 1) : x[i] = q[i]
      /\ y \in Seq(S) /\ Len(y) = Len(q) - p /\ \A i \in 1..(Len(q) - p) : y[i] = q[i + p]
  BY <1>0
<1>2. PICK a \in Seq(S) : a = x /\ Len(a) = p - 1 /\ \A i \in 1..(p - 1) : a[i] = q[i]
  BY <1>a
<1>3. PICK b \in Seq(S) : b = y /\ Len(b) = n - p /\ \A i \in 1..(n - p) : b[i] = q[i + p]
  BY <1>1, <1>a
<1>4. RemoveAt(q, p) = a \o b
  BY <1>2, <1>3 DEF RemoveAt
<1>5. a \o b \in Seq(S) /\ Len(a \o b) = n - 1
  <2>1. a \o b \in Seq(S) /\ Len(a \o b) = Len(a) + Len(b)
    BY Concatenation
  <2>2. p \in 1..n /\ Len(a \o b) = (p - 1) + (n - p)
    BY <1>1, <1>2, <1>3, <2>1
  <2>3. (p - 1) + (n - p) = n - 1
    BY <2>2
  <2> QED BY <2>1, <2>2, <2>3
<1>6. ASSUME NEW i \in 1..(n - 1) PROVE (a \o b)[i] = IF i < p THEN q[i] ELSE q[i + 1]
  <2>1. CASE i < p
    <3>1. i \in 1..(p - 1) /\ i \in 1..Len(a)
      BY <1>1, <1>2, <2>1
    <3> QED BY <1>2, <2>1, <3>1, ConcatElements
  <2>2. CASE ~(i < p)
    <3>1. i - (p - 1) \in 1..(n - p) /\ (p - 1) + (i - (p - 1)) = i /\ (i - (p - 1)) + p = i + 1
      BY <1>1, <2>2
    <3>2. (a \o b)[Len(a) + (i - (p - 1))] = b[i - (p - 1)]
      BY <1>3, <3>1, ConcatElements
    <3>3. (a \o b)[i] = b[i - (p - 1)] /\ b[i - (p - 1)] = q[i + 1]
      BY <1>2, <1>3, <3>1, <3>2
    <3> QED BY <2>2, <3>3
  <2> QED BY <2>1, <2>2
<1> QED BY <1>1, <1>4, <1>5, <1>6

\* Removing the only occurrence of an element.
LEMMA RemovalElements ==
  ASSUME NEW S, NEW q \in Seq(S), NEW v, Distinct(q)
  PROVE  /\ \A x : Contains(RemoveFirst(q, v), x) <=> Contains(q, x) /\ x # v
         /\ Distinct(RemoveFirst(q, v))
<1>1. CASE ~\E i \in 1..Len(q) : q[i] = v
  BY <1>1 DEF RemoveFirst, Contains
<1>2. CASE \E i \in 1..Len(q) : q[i] = v
  <2> DEFINE I == {i \in 1..Len(q) : q[i] = v}
  <2>1. I \in SUBSET Nat /\ I # {} /\ Len(q) \in Nat
    BY <1>2
  <2>2. PICK p \in I : p = Min(I)
    BY <2>1, MinIsLeast
  <2>3. RemoveFirst(q, v) = RemoveAt(q, p)
    BY <1>2, <2>1, <2>2 DEF RemoveFirst, SelectInSeq
  <2>4. p \in 1..Len(q) /\ q[p] = v
    BY <2>2
  <2> HIDE DEF I
  <2>5. PICK n \in Nat : n = Len(q)
    BY <2>1
  <2>6. PICK r : r = RemoveAt(q, p)
    OBVIOUS
  <2>7. Len(r) = n - 1 /\ \A i \in 1..(n - 1) : r[i] = IF i < p THEN q[i] ELSE q[i + 1]
    BY <2>4, <2>5, <2>6, RemoveElements
  <2>8. p \in 1..n /\ \A i \in 1..n : q[i] = v => i = p
    BY <2>4, <2>5 DEF Distinct
  <2>9. ASSUME NEW x PROVE Contains(r, x) <=> Contains(q, x) /\ x # v
    <3>1. ASSUME NEW i \in 1..(n - 1), r[i] = x PROVE Contains(q, x) /\ x # v
      <4>1. CASE i < p
        <5>1. i \in 1..n /\ i # p /\ q[i] = x
          BY <2>7, <3>1, <4>1
        <5> QED BY <2>5, <2>8, <5>1 DEF Contains
      <4>2. CASE ~(i < p)
        <5>1. i + 1 \in 1..n /\ i + 1 # p /\ q[i + 1] = x
          BY <2>7, <2>8, <3>1, <4>2
        <5> QED BY <2>5, <2>8, <5>1 DEF Contains
      <4> QED BY <4>1, <4>2
    <3>2. ASSUME NEW i \in 1..n, q[i] = x, x # v PROVE Contains(r, x)
      <4>1. CASE i < p
        <5>1. i \in 1..(n - 1) /\ r[i] = x
          BY <2>7, <2>8, <3>2, <4>1
        <5> QED BY <2>7, <5>1 DEF Contains
      <4>2. CASE ~(i < p)
        <5>1. i # p
          BY <2>4, <3>2
        <5>2. i - 1 \in 1..(n - 1) /\ ~(i - 1 < p) /\ (i - 1) + 1 = i
          BY <2>8, <4>2, <5>1
        <5>3. r[i - 1] = x
          BY <2>7, <3>2, <5>2
        <5> QED BY <2>7, <5>2, <5>3 DEF Contains
      <4> QED BY <4>1, <4>2
    <3> QED BY <2>5, <2>7, <3>1, <3>2 DEF Contains
  <2>10. ASSUME NEW i \in 1..(n - 1), NEW j \in 1..(n - 1), r[i] = r[j] PROVE i = j
    <3> DEFINE at(m) == IF m < p THEN m ELSE m + 1
    <3>1. at(i) \in 1..n /\ at(j) \in 1..n
      BY <2>8
    <3>2. r[i] = q[at(i)] /\ r[j] = q[at(j)]
      BY <2>7
    <3>3. at(i) = at(j)
      <4> HIDE DEF at
      <4> QED BY <2>5, <2>10, <3>1, <3>2 DEF Distinct
    <3> QED BY <2>8, <3>3
  <2>11. Distinct(r)
    BY <2>7, <2>10 DEF Distinct
  <2> QED BY <2>3, <2>6, <2>9, <2>11
<1> QED BY <1>1, <1>2
\* Concatenating two sequences that share no element.
LEMMA ConcatDistinct ==
  ASSUME NEW S, NEW q \in Seq(S), NEW r \in Seq(S)
  PROVE  /\ \A x : Contains(q \o r, x) <=> Contains(q, x) \/ Contains(r, x)
         /\ Distinct(q) /\ Distinct(r) /\ (\A x : ~(Contains(q, x) /\ Contains(r, x))) => Distinct(q \o r)
<1>1. PICK m \in Nat : m = Len(q)
  BY Lengths
<1>2. PICK n \in Nat : n = Len(r)
  BY Lengths
<1>3. PICK a : a = q \o r
  OBVIOUS
<1>4. Len(a) = m + n
  BY <1>1, <1>2, <1>3, Concatenation
<1>5. /\ \A i \in 1..m : a[i] = q[i]
      /\ \A i \in 1..n : a[m + i] = r[i]
      /\ \A i \in 1..(m + n) : i \in 1..m \/ (i - m \in 1..n /\ a[i] = r[i - m])
  BY <1>1, <1>2, <1>3, ConcatElements
<1>6. /\ \A i \in 1..m : i \in 1..(m + n)
      /\ \A i \in 1..n : m + i \in 1..(m + n)
  BY <1>1, <1>2
<1>7. ASSUME NEW x PROVE Contains(a, x) <=> Contains(q, x) \/ Contains(r, x)
  <2>1. ASSUME NEW i \in 1..(m + n), a[i] = x PROVE Contains(q, x) \/ Contains(r, x)
    BY <1>1, <1>2, <1>5, <2>1 DEF Contains
  <2>2. ASSUME NEW i \in 1..m, q[i] = x PROVE Contains(a, x)
    BY <1>4, <1>5, <1>6, <2>2 DEF Contains
  <2>3. ASSUME NEW i \in 1..n, r[i] = x PROVE Contains(a, x)
    <3>1. m + i \in 1..(m + n) /\ a[m + i] = x
      BY <1>5, <1>6, <2>3
    <3> QED BY <1>4, <3>1 DEF Contains
  <2> QED BY <1>1, <1>2, <1>4, <2>1, <2>2, <2>3 DEF Contains
<1>8. ASSUME Distinct(q), Distinct(r), \A x : ~(Contains(q, x) /\ Contains(r, x)) PROVE Distinct(a)
  <2>1. SUFFICES ASSUME NEW i \in 1..(m + n), NEW j \in 1..(m + n), a[i] = a[j] PROVE i = j
    BY <1>4 DEF Distinct
  <2>2. \A x \in 1..m, y \in 1..n : q[x] # r[y]
    BY <1>1, <1>2, <1>8 DEF Contains
  <2>3. CASE i \in 1..m /\ j \in 1..m
    BY <1>1, <1>5, <1>8, <2>1, <2>3 DEF Distinct
  <2>4. CASE i \notin 1..m /\ j \notin 1..m
    <3>1. i - m \in 1..n /\ j - m \in 1..n /\ r[i - m] = r[j - m]
      BY <1>5, <2>1, <2>4
    <3>2. i - m = j - m
      BY <1>2, <1>8, <3>1 DEF Distinct
    <3> QED BY <1>1, <3>2
  <2>5. CASE i \in 1..m /\ j \notin 1..m
    BY <1>5, <2>1, <2>2, <2>5
  <2>6. CASE i \notin 1..m /\ j \in 1..m
    BY <1>5, <2>1, <2>2, <2>6
  <2> QED BY <2>3, <2>4, <2>5, <2>6
<1> QED BY <1>3, <1>7, <1>8

\* A sequence cut in two.
LEMMA CutElements ==
  ASSUME NEW S, NEW q \in Seq(S), NEW p \in 1..(Len(q) + 1)
  PROVE  /\ SubSeq(q, 1, p - 1) \in Seq(S) /\ SubSeq(q, p, Len(q)) \in Seq(S)
         /\ \A x : Contains(q, x) <=> Contains(SubSeq(q, 1, p - 1), x) \/ Contains(SubSeq(q, p, Len(q)), x)
         /\ Distinct(q) => /\ Distinct(SubSeq(q, 1, p - 1)) /\ Distinct(SubSeq(q, p, Len(q)))
                           /\ \A x : ~(Contains(SubSeq(q, 1, p - 1), x) /\ Contains(SubSeq(q, p, Len(q)), x))
<1> DEFINE x == SubSeq(q, 1, p - 1)
           y == SubSeq(q, p, Len(q))
<1>1. Len(q) \in Nat
  BY Lengths
<1>2. /\ x \in Seq(S) /\ Len(x) = p - 1 /\ \A i \in 1..(p - 1) : x[i] = q[i]
      /\ y \in Seq(S) /\ Len(y) = Len(q) - p + 1 /\ \A i \in 1..(Len(q) - p + 1) : y[i] = q[i + p - 1]
  BY <1>1
<1>3. PICK n \in Nat : n = Len(q)
  BY <1>1
<1> HIDE DEF x, y
<1>4. p \in 1..(n + 1) /\ Len(x) = p - 1 /\ Len(y) = n - p + 1
      /\ (\A i \in 1..(p - 1) : x[i] = q[i]) /\ (\A i \in 1..(n - p + 1) : y[i] = q[i + p - 1])
  BY <1>2, <1>3
<1>5. /\ \A i \in 1..n : i \in 1..(p - 1) \/ (i - p + 1 \in 1..(n - p + 1) /\ y[i - p + 1] = q[i])
      /\ \A i \in 1..(p - 1) : i \in 1..n
      /\ \A i \in 1..(n - p + 1) : i + p - 1 \in 1..n /\ i + p - 1 \notin 1..(p - 1)
  BY <1>4
<1>6. \A v : Contains(q, v) <=> Contains(x, v) \/ Contains(y, v)
  <2> TAKE v
  <2>1. ASSUME NEW i \in 1..n, q[i] = v
        PROVE  (\E j \in 1..(p - 1) : x[j] = v) \/ (\E j \in 1..(n - p + 1) : y[j] = v)
    BY <1>4, <1>5, <2>1
  <2>2. (\E j \in 1..(p - 1) : x[j] = v) => \E i \in 1..n : q[i] = v
    BY <1>4, <1>5
  <2>3. (\E j \in 1..(n - p + 1) : y[j] = v) => \E i \in 1..n : q[i] = v
    BY <1>4, <1>5
  <2> QED BY <1>3, <1>4, <2>1, <2>2, <2>3 DEF Contains
<1>7. ASSUME Distinct(q) PROVE Distinct(x) /\ Distinct(y) /\ \A v : ~(Contains(x, v) /\ Contains(y, v))
  <2>1. \A i, j \in 1..n : q[i] = q[j] => i = j
    BY <1>3, <1>7 DEF Distinct
  <2>2. Distinct(x)
    BY <1>4, <1>5, <2>1 DEF Distinct
  <2>3. Distinct(y)
    <3>1. SUFFICES ASSUME NEW i \in 1..(n - p + 1), NEW j \in 1..(n - p + 1), y[i] = y[j] PROVE i = j
      BY <1>4 DEF Distinct
    <3>2. i + p - 1 = j + p - 1
      BY <1>4, <1>5, <2>1, <3>1
    <3> QED BY <1>4, <3>2
  <2>4. ASSUME NEW v, Contains(x, v), Contains(y, v) PROVE FALSE
    <3>1. PICK i \in 1..(p - 1) : x[i] = v
      BY <1>4, <2>4 DEF Contains
    <3>2. PICK j \in 1..(n - p + 1) : y[j] = v
      BY <1>4, <2>4 DEF Contains
    <3>3. i \in 1..n /\ j + p - 1 \in 1..n /\ j + p - 1 \notin 1..(p - 1) /\ q[i] = q[j + p - 1]
      BY <1>4, <1>5, <3>1, <3>2
    <3>4. i = j + p - 1
      BY <2>1, <3>3
    <3> QED BY <3>1, <3>3, <3>4
  <2> QED BY <2>2, <2>3, <2>4
<1> QED BY <1>2, <1>6, <1>7 DEF x, y

\* Inserting an element into a sequence without it.
LEMMA InsertionElements ==
  ASSUME NEW S, NEW q \in Seq(S), NEW v \in S, NEW p \in 1..(Len(q) + 1), Distinct(q), ~Contains(q, v)
  PROVE  /\ \A x : Contains(InsertAt(q, p, v), x) <=> Contains(q, x) \/ x = v
         /\ Distinct(InsertAt(q, p, v))
<1>1. PICK x \in Seq(S) : x = SubSeq(q, 1, p - 1)
  BY CutElements
<1>2. PICK y \in Seq(S) : y = SubSeq(q, p, Len(q))
  BY CutElements
<1>3. /\ \A z : Contains(q, z) <=> Contains(x, z) \/ Contains(y, z)
      /\ Distinct(x) /\ Distinct(y) /\ \A z : ~(Contains(x, z) /\ Contains(y, z))
  BY <1>1, <1>2, CutElements
<1>4. PICK e \in Seq(S) : e = <<v>>
  <2>1. <<v>> \in Seq(S)
    OBVIOUS
  <2> QED BY <2>1
<1>5. (\A z : Contains(e, z) <=> z = v) /\ Distinct(e)
  BY <1>4 DEF Contains, Distinct
<1>6. PICK h \in Seq(S) : h = x \o e
  BY Concatenation
<1>7. (\A z : Contains(h, z) <=> Contains(x, z) \/ z = v) /\ Distinct(h)
  BY <1>3, <1>5, <1>6, ConcatDistinct
<1>8. (\A z : Contains(h \o y, z) <=> Contains(q, z) \/ z = v) /\ Distinct(h \o y)
  BY <1>3, <1>7, ConcatDistinct
<1>9. InsertAt(q, p, v) = h \o y
  BY <1>1, <1>2, <1>4, <1>6 DEF InsertAt
<1> QED BY <1>8, <1>9

-----------------------------------------------------------------------------
(* Operations on flags and lists *)

USE ThreadsAssumption, CpusAssumption, ListsAssumption

\* The states in which every thread that has RUNNING_FLAG in s has it still.
Above(s) ==
  {r \in KStates : \A t \in Threads : "RUNNING" \in s.flags[t] => "RUNNING" \in r.flags[t]}

\* Setting flags; clearing others than RUNNING_FLAG; recording a bug.
LEMMA SetFlagsEffect ==
  ASSUME NEW s \in KStates, NEW t, NEW F \in SUBSET Flags
  PROVE  SetFlags(s, t, F) \in Above(s)
<1> DEFINE fl == [s.flags EXCEPT ![t] = s.flags[t] \cup F]
<1>1. s.flags \in [Threads -> SUBSET Flags] /\ s.lists \in [Lists -> Seq(Threads)] /\ s.bug \in Bugs
  BY DEF KStates
<1>2. fl \in [Threads -> SUBSET Flags]
  BY <1>1
<1>3. \A u \in Threads : "RUNNING" \in s.flags[u] => "RUNNING" \in fl[u]
  BY <1>1
<1>4. SetFlags(s, t, F) = [s EXCEPT !.flags = fl]
  BY <1>1 DEF SetFlags, KStates
<1> HIDE DEF fl
<1>5. SetFlags(s, t, F) \in KStates /\ SetFlags(s, t, F).flags = fl
  BY <1>1, <1>2, <1>4 DEF KStates
<1> QED BY <1>3, <1>5 DEF Above

\* Clearing flags of one thread goes up, if RUNNING is not among them.
LEMMA ClearFlagsEffect ==
  ASSUME NEW s \in KStates, NEW t, NEW F \in SUBSET Flags
  PROVE  /\ ClearFlags(s, t, F) \in KStates
         /\ ClearFlags(s, t, F).flags = [s.flags EXCEPT ![t] = s.flags[t] \ F]
         /\ "RUNNING" \notin F => ClearFlags(s, t, F) \in Above(s)
<1> DEFINE fl == [s.flags EXCEPT ![t] = s.flags[t] \ F]
<1>1. s.flags \in [Threads -> SUBSET Flags] /\ s.lists \in [Lists -> Seq(Threads)] /\ s.bug \in Bugs
  BY DEF KStates
<1>2. fl \in [Threads -> SUBSET Flags]
  BY <1>1
<1>3. "RUNNING" \notin F => \A u \in Threads : "RUNNING" \in s.flags[u] => "RUNNING" \in fl[u]
  BY <1>1
<1>4. ClearFlags(s, t, F) = [s EXCEPT !.flags = fl]
  BY <1>1 DEF ClearFlags, KStates
<1> HIDE DEF fl
<1>5. ClearFlags(s, t, F) \in KStates /\ ClearFlags(s, t, F).flags = fl
  BY <1>1, <1>2, <1>4 DEF KStates
<1> QED BY <1>3, <1>5 DEF Above, fl

\* A BUG() leaves flags and lists alone.
LEMMA BUGEffect ==
  ASSUME NEW s \in KStates, NEW what \in Bugs
  PROVE  BUG(s, what) \in Above(s)
  BY DEF BUG, KStates, Above

\* What comes above a state above s is above s.
LEMMA AboveAbove ==
  ASSUME NEW s \in KStates, NEW r \in Above(s)
  PROVE  r \in KStates /\ s \in Above(s) /\ \A x \in Above(r) : x \in Above(s)
  BY DEF Above

\* Unlinking a node and linking it leave the flags alone.
LEMMA UnlinkEffect ==
  ASSUME NEW s \in KStates, NEW t
  PROVE  list_del_init(s, t) \in Above(s) /\ list_del_init(s, t).flags = s.flags
<1> DEFINE li == [l \in DOMAIN s.lists |-> RemoveFirst(s.lists[l], t)]
<1>1. s.flags \in [Threads -> SUBSET Flags] /\ s.lists \in [Lists -> Seq(Threads)] /\ s.bug \in Bugs
  BY DEF KStates
<1>2. li \in [Lists -> Seq(Threads)]
  BY <1>1, Removal
<1>3. list_del_init(s, t) = [s EXCEPT !.lists = li]
  BY DEF list_del_init
<1> HIDE DEF li
<1> QED BY <1>1, <1>2, <1>3 DEF KStates, Above

\* Linking a thread to a list leaves the flags alone.
LEMMA LinkEffect ==
  ASSUME NEW s \in KStates, NEW t \in Threads, NEW l
  PROVE  list_add_tail(s, t, l) \in Above(s) /\ list_add_tail(s, t, l).flags = s.flags
<1> DEFINE li == [s.lists EXCEPT ![l] = Append(s.lists[l], t)]
<1>1. s.flags \in [Threads -> SUBSET Flags] /\ s.lists \in [Lists -> Seq(Threads)] /\ s.bug \in Bugs
  BY DEF KStates
<1>2. li \in [Lists -> Seq(Threads)]
  BY <1>1, AppendOne
<1>3. list_add_tail(s, t, l) = IF Linked(s, t) THEN BUG(s, "list") ELSE [s EXCEPT !.lists = li]
  BY <1>1 DEF list_add_tail, KStates
<1> HIDE DEF li
<1>4. [s EXCEPT !.lists = li] \in Above(s) /\ [s EXCEPT !.lists = li].flags = s.flags
  BY <1>1, <1>2 DEF KStates, Above
<1>5. BUG(s, "list") \in Above(s) /\ BUG(s, "list").flags = s.flags
  BY BUGEffect DEF BUG, KStates, Bugs
<1> QED BY <1>3, <1>4, <1>5

\* Waking, blocking and restoring a thread.
LEMMA RunnableEffect ==
  ASSUME NEW s \in KStates, NEW t \in Threads
  PROVE  make_runnable(s, t) \in Above(s)
<1>1. PICK r \in Above(s) : r = SetFlags(s, t, {"RUNNABLE"})
  BY SetFlagsEffect DEF Flags
<1>2. r \in KStates
  BY AboveAbove
<1>3. make_runnable(s, t) \in Above(r)
  BY <1>1, <1>2, LinkEffect DEF make_runnable
<1> QED BY <1>3, AboveAbove

\* wake() goes up.
LEMMA WakeEffect ==
  ASSUME NEW s \in KStates, NEW t \in Threads
  PROVE  wake(s, t) \in Above(s)
  BY RunnableEffect, BUGEffect, AboveAbove DEF wake, Above, Bugs

\* block() goes up.
LEMMA BlockEffect ==
  ASSUME NEW s \in KStates, NEW t \in Threads
  PROVE  block(s, t) \in Above(s)
<1>1. PICK b \in Above(s) : b = ClearFlags(s, t, {"RUNNABLE"})
  BY ClearFlagsEffect DEF Flags
<1>2. b \in KStates /\ list_del_init(b, t) \in Above(s)
  BY UnlinkEffect, AboveAbove
<1>3. BUG(s, "block") \in Above(s)
  BY BUGEffect DEF Bugs
<1> QED BY <1>1, <1>2, <1>3 DEF block

\* restore() and the waking of a suspended thread go up.
LEMMA RestoreEffect ==
  ASSUME NEW s \in KStates, NEW t \in Threads
  PROVE  restore(s, t) \in Above(s) /\ wake_suspended_thread(s, t) \in Above(s)
<1>1. PICK r \in Above(s) : r = ClearFlags(s, t, {"HIBERNATION"})
  BY ClearFlagsEffect DEF Flags
<1>2. PICK z \in Above(s) : z = ClearFlags(s, t, {"SUSPENDED"})
  BY ClearFlagsEffect DEF Flags
<1>3. r \in KStates /\ make_runnable(r, t) \in Above(s)
  BY RunnableEffect, AboveAbove
<1>4. z \in KStates /\ make_runnable(z, t) \in Above(s)
  BY RunnableEffect, AboveAbove
<1> QED BY <1>1, <1>2, <1>3, <1>4 DEF restore, wake_suspended_thread

\* hibernate() and suspend_thread() clear RUNNING_FLAG, of one thread.
LEMMA StopEffect ==
  ASSUME NEW s \in KStates, NEW t
  PROVE  /\ hibernate(s, t) \in KStates /\ suspend_thread(s, t) \in KStates
         /\ \A u \in Threads \ {t} : "RUNNING" \in s.flags[u] => "RUNNING" \in hibernate(s, t).flags[u]
<1>1. PICK c \in KStates : /\ c = ClearFlags(s, t, {"RUNNABLE", "RUNNING"})
                           /\ c.flags = [s.flags EXCEPT ![t] = s.flags[t] \ {"RUNNABLE", "RUNNING"}]
  <2>1. {"RUNNABLE", "RUNNING"} \in SUBSET Flags
    BY DEF Flags
  <2>2. PICK F \in SUBSET Flags : F = {"RUNNABLE", "RUNNING"}
    BY <2>1
  <2>3. ClearFlags(s, t, F) \in KStates /\ ClearFlags(s, t, F).flags = [s.flags EXCEPT ![t] = s.flags[t] \ F]
    BY ClearFlagsEffect
  <2> QED BY <2>2, <2>3
<1>2. PICK h \in Above(c) : h = SetFlags(c, t, {"HIBERNATION"})
  BY SetFlagsEffect DEF Flags
<1>3. PICK z \in Above(c) : z = SetFlags(c, t, {"SUSPENDED"})
  BY SetFlagsEffect DEF Flags
<1>4. h \in KStates /\ z \in KStates
  BY AboveAbove
<1>5. list_del_init(h, t) \in Above(c) /\ list_del_init(z, t) \in Above(c)
  BY <1>4, UnlinkEffect, AboveAbove
<1>6. hibernate(s, t) \in Above(c) /\ suspend_thread(s, t) \in Above(c)
  BY <1>1, <1>2, <1>3, <1>5 DEF hibernate, suspend_thread
<1>7. \A u \in Threads \ {t} : "RUNNING" \in s.flags[u] => "RUNNING" \in c.flags[u]
  BY <1>1 DEF KStates
<1> QED BY <1>6, <1>7 DEF Above

\* A thread that remains runnable goes to the tail of the ready queue.
LEMMA RequeueEffect ==
  ASSUME NEW s \in KStates, NEW p \in Threads \cup {NoThread}
  PROVE  Requeue(s, p) \in Above(s) /\ Requeue(s, p).flags = s.flags
<1>1. CASE p # NoThread
  <2>1. PICK r \in Above(s) : r = list_del_init(s, p) /\ r.flags = s.flags
    BY UnlinkEffect
  <2>2. r \in KStates /\ list_add_tail(r, p, READY) \in Above(s)
        /\ list_add_tail(r, p, READY).flags = r.flags
    BY <1>1, LinkEffect, AboveAbove
  <2> QED BY <1>1, <2>1, <2>2, AboveAbove DEF Requeue
<1>2. CASE p = NoThread
  BY <1>2, AboveAbove DEF Requeue, Above
<1> QED BY <1>1, <1>2

\* Waking the threads of the first entries of the sleep queue, one after the other.
LEMMA WakeFirstSteps ==
  ASSUME NEW s \in KStates, sleep_queue \in Seq(Threads), NEW n \in 0..Len(sleep_queue)
  PROVE  \E w : /\ w[0] = s /\ \A i \in 1..n : w[i] = wake(w[i - 1], sleep_queue[i])
                /\ WakeFirst(s, n) = w[n] /\ w[n] \in Above(s)
<1> DEFINE A == Above(s)
           F == [i \in 1..n |-> [x \in A |-> wake(x, sleep_queue[i])]]
           w[i \in 0..n] == IF i = 0 THEN s ELSE wake(w[i - 1], sleep_queue[i])
<1>1. n \in Nat /\ \A i \in 1..n : sleep_queue[i] \in Threads
  BY Lengths
<1>2. s \in A
  BY DEF Above
<1>3. \A x \in A, t \in Threads : wake(x, t) \in A
  BY WakeEffect, AboveAbove
<1>4. F \in [1..n -> [A -> A]]
  BY <1>1, <1>3
<1>5. \A i \in 1..n, x \in A : F[i][x] = wake(x, sleep_queue[i])
  OBVIOUS
<1> HIDE DEF A, F
<1>6. PICK g \in [0..n -> A] : Iterates(g, n, s, F)
  BY <1>1, <1>2, <1>4, Recursion
<1>7. g[0] = s /\ \A i \in 1..n : g[i] = wake(g[i - 1], sleep_queue[i])
  BY <1>5, <1>6 DEF Iterates
<1>8. g = [i \in 0..n |-> IF i = 0 THEN s ELSE wake(g[i - 1], sleep_queue[i])]
  BY <1>6, <1>7
<1>9. w = [i \in 0..n |-> IF i = 0 THEN s ELSE wake(w[i - 1], sleep_queue[i])]
  BY <1>8
<1>10. WakeFirst(s, n) = w[n]
  BY DEF WakeFirst
<1> HIDE DEF w
<1>11. w[0] = s /\ \A i \in 1..n : w[i] = wake(w[i - 1], sleep_queue[i])
  BY <1>1, <1>9
<1>12. \A i \in 0..n : w[i] \in A
  BY <1>1, <1>2, <1>3, <1>11, Chain
<1> QED BY <1>1, <1>10, <1>11, <1>12 DEF A

\* Waking the threads of the first entries of the sleep queue.
LEMMA WakeFirstEffect ==
  ASSUME NEW s \in KStates, sleep_queue \in Seq(Threads), NEW n \in 0..Len(sleep_queue)
  PROVE  WakeFirst(s, n) \in Above(s)
  BY WakeFirstSteps

\* Waking the joiners of a thread, one after the other.
LEMMA JoinersSteps ==
  ASSUME NEW s \in KStates, NEW t \in Threads
  PROVE  \E w : /\ w[0] = s
                /\ \A i \in 1..Len(s.lists[t]) : w[i] = wake(list_del_init(w[i - 1], s.lists[t][i]), s.lists[t][i])
                /\ sched_wake_joiners(s, t) = w[Len(s.lists[t])] /\ w[Len(s.lists[t])] \in Above(s)
<1> DEFINE A == Above(s)
           q == s.lists[t]
           F == [i \in 1..Len(q) |-> [x \in A |-> wake(list_del_init(x, q[i]), q[i])]]
           w[i \in 0..Len(q)] == IF i = 0 THEN s ELSE wake(list_del_init(w[i - 1], q[i]), q[i])
<1>1. q \in Seq(Threads)
  BY DEF KStates, Lists
<1>2. Len(q) \in Nat /\ \A i \in 1..Len(q) : q[i] \in Threads
  BY <1>1, Lengths
<1>3. s \in A
  BY DEF Above
<1>4. \A x \in A, u \in Threads : wake(list_del_init(x, u), u) \in A
  <2> TAKE x \in A, u \in Threads
  <2>1. x \in KStates
    BY AboveAbove
  <2>2. PICK r \in Above(x) : r = list_del_init(x, u)
    BY <2>1, UnlinkEffect
  <2>3. wake(r, u) \in Above(x)
    BY <2>1, <2>2, WakeEffect, AboveAbove
  <2> QED BY <2>2, <2>3, AboveAbove
<1>5. F \in [1..Len(q) -> [A -> A]]
  BY <1>2, <1>4
<1>6. \A i \in 1..Len(q), x \in A : F[i][x] = wake(list_del_init(x, q[i]), q[i])
  OBVIOUS
<1> HIDE DEF A, F
<1>7. PICK g \in [0..Len(q) -> A] : Iterates(g, Len(q), s, F)
  BY <1>2, <1>3, <1>5, Recursion
<1>8. g[0] = s /\ \A i \in 1..Len(q) : g[i] = wake(list_del_init(g[i - 1], q[i]), q[i])
  BY <1>6, <1>7, SMTT(30) DEF Iterates
<1>9. g = [i \in 0..Len(q) |-> IF i = 0 THEN s ELSE wake(list_del_init(g[i - 1], q[i]), q[i])]
  BY <1>7, <1>8
<1>10. w = [i \in 0..Len(q) |-> IF i = 0 THEN s ELSE wake(list_del_init(w[i - 1], q[i]), q[i])]
  BY <1>9
<1>11. sched_wake_joiners(s, t) = w[Len(q)]
  BY DEF sched_wake_joiners
<1> HIDE DEF w, q
<1>12. w[0] = s /\ \A i \in 1..Len(q) : w[i] = wake(list_del_init(w[i - 1], q[i]), q[i])
  BY <1>2, <1>10
<1>13. \A i \in 0..Len(q) : w[i] \in A
  BY <1>2, <1>3, <1>4, <1>12, Chain
<1> QED BY <1>2, <1>11, <1>12, <1>13 DEF q, A

\* Waking the joiners of a thread.
LEMMA JoinersEffect ==
  ASSUME NEW s \in KStates, NEW t \in Threads
  PROVE  sched_wake_joiners(s, t) \in Above(s)
  BY JoinersSteps

\* The threads of the dead queue that are in D are freed, one after the other.
LEMMA ReapSteps ==
  ASSUME k \in KStates, NEW c, NEW D, Reap(c, D)
  PROVE  \E w : /\ w[0] = k
                /\ \A i \in 1..Len(k.lists[DEAD]) :
                     w[i] = IF k.lists[DEAD][i] \in D THEN FreeThread(w[i - 1], k.lists[DEAD][i]) ELSE w[i - 1]
                /\ k' = w[Len(k.lists[DEAD])] /\ k' \in Above(k)
<1> DEFINE A == Above(k)
           q == k.lists[DEAD]
           F == [i \in 1..Len(q) |-> [x \in A |-> IF q[i] \in D THEN FreeThread(x, q[i]) ELSE x]]
           w[i \in 0..Len(q)] ==
             IF i = 0 THEN k ELSE IF q[i] \in D THEN FreeThread(w[i - 1], q[i]) ELSE w[i - 1]
<1>1. q \in Seq(Threads)
  BY DEF KStates, Lists
<1>2. Len(q) \in Nat /\ \A i \in 1..Len(q) : q[i] \in Threads
  BY <1>1, Lengths
<1>3. k \in A
  BY DEF Above
<1>4. \A x \in A, u \in Threads : FreeThread(x, u) \in A
  <2> TAKE x \in A, u \in Threads
  <2>1. x \in KStates
    BY AboveAbove
  <2>2. PICK r \in Above(x) : r = list_del_init(x, u)
    BY <2>1, UnlinkEffect
  <2>3. sched_wake_joiners(r, u) \in Above(x)
    BY <2>1, <2>2, JoinersEffect, AboveAbove
  <2> QED BY <2>2, <2>3, AboveAbove DEF FreeThread
<1>5. F \in [1..Len(q) -> [A -> A]]
  BY <1>2, <1>4
<1>6. \A i \in 1..Len(q), x \in A : F[i][x] = IF q[i] \in D THEN FreeThread(x, q[i]) ELSE x
  OBVIOUS
<1> HIDE DEF A, F
<1>7. PICK g \in [0..Len(q) -> A] : Iterates(g, Len(q), k, F)
  BY <1>2, <1>3, <1>5, Recursion
<1>8. g[0] = k /\ \A i \in 1..Len(q) :
                    g[i] = IF q[i] \in D THEN FreeThread(g[i - 1], q[i]) ELSE g[i - 1]
  <2>1. g[0] = k /\ \A i \in 1..Len(q) : g[i] = F[i][g[i - 1]]
    BY <1>7 DEF Iterates
  <2>2. \A i \in 1..Len(q) : g[i - 1] \in A
    BY <1>2, <1>7
  <2> HIDE DEF q
  <2> QED BY <1>6, <2>1, <2>2
<1>9. g = [i \in 0..Len(q) |->
             IF i = 0 THEN k ELSE IF q[i] \in D THEN FreeThread(g[i - 1], q[i]) ELSE g[i - 1]]
  BY <1>7, <1>8
<1>10. w = [i \in 0..Len(q) |->
             IF i = 0 THEN k ELSE IF q[i] \in D THEN FreeThread(w[i - 1], q[i]) ELSE w[i - 1]]
  BY <1>9
<1>11. k' = w[Len(q)]
  BY DEF Reap
<1> HIDE DEF w, q
<1>12. w[0] = k /\ \A i \in 1..Len(q) : w[i] = IF q[i] \in D THEN FreeThread(w[i - 1], q[i]) ELSE w[i - 1]
  <2>1. PICK n \in Nat : n = Len(q)
    BY <1>2
  <2>2. w = [i \in 0..n |-> IF i = 0 THEN k ELSE IF q[i] \in D THEN FreeThread(w[i - 1], q[i]) ELSE w[i - 1]]
    BY <1>10, <2>1
  <2>3. 0 \in 0..n /\ \A i \in 1..n : i \in 0..n /\ i # 0
    OBVIOUS
  <2>4. w[0] = k
    BY <2>2, <2>3, Zenon
  <2>5. ASSUME NEW i \in 1..n
        PROVE  w[i] = IF q[i] \in D THEN FreeThread(w[i - 1], q[i]) ELSE w[i - 1]
    BY <2>2, <2>3, Zenon
  <2> QED BY <2>1, <2>4, <2>5
<1>13. \A i \in 0..Len(q) : w[i] \in A
  BY <1>2, <1>3, <1>4, <1>12, Chain
<1> QED BY <1>2, <1>11, <1>12, <1>13 DEF q, A

\* Freeing the dead threads of a processor.
LEMMA ReapEffect ==
  ASSUME k \in KStates, NEW c, NEW D, Reap(c, D)
  PROVE  k' \in Above(k)
  BY ReapSteps

-----------------------------------------------------------------------------
(* Steps that leave the threads where they are *)

\* What such a step does to each part of the state.
FlagsFollow ==
  /\ k' \in KStates
  /\ \A u \in Threads :
       cpu[u] = NoCpu /\ ~Solo /\ "RUNNING" \in k.flags[u] => "RUNNING" \in k'.flags[u]
QueueFollows == sleep_queue' \in Seq(Threads) /\ due' \in 0..Len(sleep_queue')
StepsFollow ==
  /\ pc' \in [Threads -> Steps] /\ target' \in [Threads -> Threads \cup {NoThread}]
  /\ \A u \in Threads : pc'[u] = "susp_do" => Solo
  /\ \A u \in Threads : pc'[u] \in {"cancel_do", "cancel_mark"} => target'[u] \in Threads
WorkFollows ==
  workload' \in WorkloadType /\ workload'.cpus = workload.cpus /\ workload'.ops = workload.ops

\* Such a step preserves the invariant.
LEMMA StayKept ==
  ASSUME SchedInv, FlagsFollow, QueueFollows, StepsFollow, WorkFollows,
         UNCHANGED <<cpu, current, next, prev, saved>>,
         mode' \in [Cpus -> Modes], \A c \in Cpus \ workload.cpus : mode'[c] = mode[c]
  PROVE  SchedInv'
<1> USE DEF SchedInv
<1>1. Solo' <=> Solo
  BY DEF WorkFollows, Solo
<1>2. STypeOK'
  BY DEF STypeOK, FlagsFollow, QueueFollows, StepsFollow, WorkFollows
<1>3. SSteps'
  BY <1>1 DEF SSteps, StepsFollow, WorkFollows
<1>4. SIdle'
  BY DEF SIdle, WorkFollows
<1>5. SPlaces'
  <2>1. next \in [Cpus -> Threads \cup {NoThread}]
    BY DEF STypeOK
  <2> QED BY <1>1, <2>1 DEF SPlaces, FlagsFollow
<1> QED BY <1>2, <1>3, <1>4, <1>5

\* The parts of the state a step does not touch.
LEMMA SameFollows ==
  ASSUME SchedInv
  PROVE  /\ k' \in Above(k) => FlagsFollow
         /\ UNCHANGED k => FlagsFollow
         /\ UNCHANGED <<sleep_queue, due>> => QueueFollows
         /\ UNCHANGED <<pc, target>> => StepsFollow
         /\ UNCHANGED workload => WorkFollows
  BY DEF SchedInv, STypeOK, SSteps, FlagsFollow, QueueFollows, StepsFollow, WorkFollows, Above

\* The names of the steps.
LEMMA StepNames ==
  /\ Steps = {"yield", "join_sched", "sleep_sched", "hib_sched", "exit_sched",
              "join_add", "sleep_q", "exit_dead", "susp_do", "dead",
              "none", "run", "join_lock", "join_flag", "join_clear", "sleep_done", "cancel_do", "cancel_mark"}
  /\ \A s \in DOMAIN AfterSchedule : AfterSchedule[s] \in {"run", "join_clear", "sleep_done", "dead"}
<1>1. DOMAIN AfterSchedule = {"yield", "join_sched", "sleep_sched", "hib_sched", "exit_sched"}
  BY DEF AfterSchedule
<1>2. \A s \in DOMAIN AfterSchedule : AfterSchedule[s] \in {"run", "join_clear", "sleep_done", "dead"}
  BY DEF AfterSchedule
<1> QED BY <1>1, <1>2 DEF Steps, NotPreemptible

\* A thread goes on to another step, but those that suspend or cancel.
LEMMA GoToFollows ==
  ASSUME SchedInv, NEW t \in Threads, NEW s \in Steps \ {"susp_do", "cancel_do", "cancel_mark"}, GoTo(t, s),
         NEW x \in Threads \cup {NoThread},
         target' = target \/ target' = [target EXCEPT ![t] = x]
  PROVE  StepsFollow
<1>1. pc \in [Threads -> Steps] /\ target \in [Threads -> Threads \cup {NoThread}]
  BY DEF SchedInv, STypeOK
<1>2. pc' \in [Threads -> Steps] /\ target' \in [Threads -> Threads \cup {NoThread}]
  BY <1>1 DEF GoTo
<1>3. \A u \in Threads : u # t => pc'[u] = pc[u] /\ target'[u] = target[u]
  BY <1>1 DEF GoTo
<1>4. pc'[t] = s
  BY <1>1 DEF GoTo
<1> QED BY <1>2, <1>3, <1>4 DEF StepsFollow, SchedInv, SSteps

\* A call uses up one of the calls of its thread.
LEMMA CallFollows ==
  ASSUME SchedInv, NEW c \in Cpus, NEW t \in Threads, NEW op, Calls(c, t, op)
  PROVE  /\ WorkFollows /\ op \in workload.ops /\ current[c] = t /\ pc[t] = "run"
         /\ UNCHANGED cpuVars
<1>1. /\ workload' = [workload EXCEPT !.calls[t] = workload.calls[t] - 1] /\ workload.calls[t] > 0
      /\ op \in workload.ops /\ current[c] = t /\ pc[t] = "run" /\ UNCHANGED cpuVars
  BY DEF Calls, At
<1>2. workload \in WorkloadType
  BY DEF SchedInv, STypeOK
<1>3. workload.calls \in [Threads -> Nat]
  BY <1>2 DEF WorkloadType
<1>4. workload.calls[t] - 1 \in Nat
  BY <1>1, <1>3
<1>5. PICK ca : ca = [workload.calls EXCEPT ![t] = workload.calls[t] - 1]
  OBVIOUS
<1>6. ca \in [Threads -> Nat]
  BY <1>3, <1>4, <1>5
<1>7. workload' = [workload EXCEPT !.calls = ca]
  BY <1>1, <1>2, <1>5 DEF WorkloadType
<1>8. workload' \in WorkloadType
  BY <1>2, <1>6, <1>7, Zenon DEF WorkloadType
<1>9. workload'.cpus = workload.cpus /\ workload'.ops = workload.ops
  BY <1>2, <1>7 DEF WorkloadType
<1> QED BY <1>1, <1>8, <1>9 DEF WorkFollows

\* A thread step within a call or a new call.
LEMMA CalledKept ==
  ASSUME SchedInv, FlagsFollow, QueueFollows, StepsFollow, WorkFollows, UNCHANGED cpuVars
  PROVE  SchedInv'
<1>1. mode' \in [Cpus -> Modes] /\ mode' = mode /\ UNCHANGED <<cpu, current, next, prev, saved>>
  BY DEF cpuVars, SchedInv, STypeOK
<1> QED BY <1>1, StayKept

\* schedule() is entered from a thread or the idle loop of a processor that is up.
LEMMA EnterKept ==
  ASSUME SchedInv, NEW c \in Cpus, c \in workload.cpus \/ current[c] # NoThread, EnterSchedule(c),
         StepsFollow, WorkFollows, UNCHANGED <<sleep_queue, due, cpu, current, next, prev, saved>>
  PROVE  SchedInv'
<1>1. k \in KStates /\ sleep_queue \in Seq(Threads) /\ due \in 0..Len(sleep_queue)
      /\ mode \in [Cpus -> Modes]
  BY DEF SchedInv, STypeOK
<1>2. k' \in Above(k)
  BY <1>1, WakeFirstEffect DEF EnterSchedule, sched_wake_expired
<1>3. FlagsFollow /\ QueueFollows
  BY <1>2, SameFollows
<1>4. c \in workload.cpus
  BY DEF SchedInv, SIdle
<1>5. mode' = [mode EXCEPT ![c] = "pick"]
  BY DEF EnterSchedule
<1>6. mode' \in [Cpus -> Modes] /\ \A d \in Cpus \ workload.cpus : mode'[d] = mode[d]
  BY <1>1, <1>4, <1>5 DEF Modes
<1> QED BY <1>3, <1>6, StayKept

\* Entering the scheduler keeps the invariant.
LEMMA EnterActionsKept ==
  ASSUME SchedInv, NEW c \in Cpus, NEW t \in Threads,
         idle_thread_fn(c) \/ schedule(c, t) \/ preempt_schedule(c, t)
  PROVE  SchedInv'
<1>1. CASE idle_thread_fn(c)
  <2>1. /\ c \in workload.cpus /\ EnterSchedule(c)
        /\ UNCHANGED <<sleep_queue, due, cpu, current, next, prev, saved>>
        /\ UNCHANGED <<pc, target>> /\ UNCHANGED workload
    BY <1>1 DEF idle_thread_fn
  <2>2. StepsFollow /\ WorkFollows
    BY <2>1, SameFollows
  <2> QED BY <2>1, <2>2, EnterKept
<1>2. CASE schedule(c, t)
  <2>1. /\ current[c] = t /\ EnterSchedule(c) /\ pc[t] \in DOMAIN AfterSchedule
        /\ UNCHANGED <<sleep_queue, due, cpu, current, next, prev, saved>>
        /\ GoTo(t, AfterSchedule[pc[t]]) /\ target' = target /\ UNCHANGED workload
    BY <1>2 DEF schedule
  <2>2. PICK s \in {"run", "join_clear", "sleep_done", "dead"} : s = AfterSchedule[pc[t]]
    BY <2>1, StepNames
  <2>3. s \in Steps \ {"susp_do", "cancel_do", "cancel_mark"} /\ GoTo(t, s)
    BY <2>1, <2>2, StepNames
  <2>4. StepsFollow /\ WorkFollows
    BY <2>1, <2>3, SameFollows, GoToFollows
  <2>5. current[c] # NoThread
    BY <2>1
  <2> QED BY <2>1, <2>4, <2>5, EnterKept
<1>3. CASE preempt_schedule(c, t)
  <2>1. /\ current[c] = t /\ EnterSchedule(c) /\ workload.preempts[c] > 0
        /\ UNCHANGED <<sleep_queue, due, cpu, current, next, prev, saved>>
        /\ UNCHANGED <<pc, target>>
        /\ workload' = [workload EXCEPT !.preempts[c] = workload.preempts[c] - 1]
    BY <1>3 DEF preempt_schedule
  <2>2. workload \in WorkloadType
    BY DEF SchedInv, STypeOK
  <2>3. workload.preempts \in [Cpus -> Nat]
    BY <2>2 DEF WorkloadType
  <2>4. workload.preempts[c] - 1 \in Nat
    BY <2>1, <2>3
  <2>5. PICK pr : pr = [workload.preempts EXCEPT ![c] = workload.preempts[c] - 1]
    OBVIOUS
  <2>6. pr \in [Cpus -> Nat]
    BY <2>3, <2>4, <2>5
  <2>7. workload' = [workload EXCEPT !.preempts = pr]
    BY <2>1, <2>2, <2>5 DEF WorkloadType
  <2>8. workload' \in WorkloadType
    BY <2>2, <2>6, <2>7, Zenon DEF WorkloadType
  <2>9. workload'.cpus = workload.cpus /\ workload'.ops = workload.ops
    BY <2>2, <2>7 DEF WorkloadType
  <2>10. StepsFollow /\ WorkFollows
    BY <2>1, <2>8, <2>9, SameFollows DEF WorkFollows
  <2>11. current[c] # NoThread
    BY <2>1
  <2> QED BY <2>1, <2>10, <2>11, EnterKept
<1> QED BY <1>1, <1>2, <1>3

\* The clock ticks.
LEMMA TickKept ==
  ASSUME SchedInv, Tick
  PROVE  SchedInv'
<1>1. sleep_queue \in Seq(Threads) /\ due \in 0..Len(sleep_queue) /\ due < Len(sleep_queue)
      /\ sleep_queue' = sleep_queue /\ due' = due + 1
  BY DEF SchedInv, STypeOK, Tick
<1>2. PICK n \in Nat : n = Len(sleep_queue)
  BY <1>1, Lengths
<1>3. due' \in 0..n
  BY <1>1, <1>2
<1>4. QueueFollows
  BY <1>1, <1>2, <1>3 DEF QueueFollows
<1>5. FlagsFollow /\ StepsFollow /\ WorkFollows /\ UNCHANGED cpuVars
  BY SameFollows DEF Tick
<1> QED BY <1>4, <1>5, CalledKept

\* A step of a call that leaves the sleep queue alone and does not suspend or cancel.
LEMMA CallStepKept ==
  ASSUME SchedInv, NEW t \in Threads, NEW s \in Steps \ {"susp_do", "cancel_do", "cancel_mark"},
         NEW x \in Threads \cup {NoThread}, GoTo(t, s),
         target' = target \/ target' = [target EXCEPT ![t] = x],
         k' \in Above(k) \/ UNCHANGED k, UNCHANGED <<sleep_queue, due>>, WorkFollows,
         UNCHANGED cpuVars
  PROVE  SchedInv'
<1>1. FlagsFollow /\ QueueFollows
  BY SameFollows
<1>2. StepsFollow
  BY GoToFollows
<1> QED BY <1>1, <1>2, CalledKept

\* The steps of the calls that other threads do not disturb.
LEMMA ContinueKept ==
  ASSUME SchedInv, NEW c \in Cpus, NEW t \in Threads,
         \/ join_thread(c, t) \/ JoinAdd(c, t) \/ set_joining(c, t) \/ JoinReturn(c, t)
         \/ ExitDead(c, t) \/ sched_wake_joiner(c, t) \/ set_cancelled(c, t) \/ exit_thread(c, t)
  PROVE  SchedInv'
<1>0. k \in KStates /\ UNCHANGED workload /\ UNCHANGED cpuVars /\ UNCHANGED <<sleep_queue, due>>
  BY DEF SchedInv, STypeOK, Continues, join_thread, JoinAdd, set_joining, JoinReturn,
         ExitDead, sched_wake_joiner, set_cancelled, exit_thread
<1>00. WorkFollows /\ NoThread \in Threads \cup {NoThread}
  BY <1>0, SameFollows
<1>1. CASE join_thread(c, t)
  <2>1. block(k, t) \in Above(k)
    BY <1>0, BlockEffect
  <2>2. CASE k' = block(k, t) /\ GoTo(t, "join_add") /\ target' = target
    <3>1. "join_add" \in Steps \ {"susp_do", "cancel_do", "cancel_mark"}
      BY StepNames
    <3> QED BY <1>0, <1>00, <2>1, <2>2, <3>1, CallStepKept
  <2>3. CASE k' = k /\ GoTo(t, "run") /\ target' = [target EXCEPT ![t] = NoThread]
    <3>1. "run" \in Steps \ {"susp_do", "cancel_do", "cancel_mark"}
      BY StepNames
    <3> QED BY <1>0, <1>00, <2>3, <3>1, CallStepKept
  <2> QED BY <1>1, <2>2, <2>3 DEF join_thread
<1>2. CASE JoinAdd(c, t)
  <2>1. "join_flag" \in Steps \ {"susp_do", "cancel_do", "cancel_mark"}
    BY StepNames
  <2>2. k' \in Above(k) /\ GoTo(t, "join_flag") /\ target' = target
    BY <1>0, <1>2, LinkEffect DEF JoinAdd
  <2> QED BY <1>0, <1>00, <2>1, <2>2, CallStepKept
<1>3. CASE set_joining(c, t)
  <2>1. "join_sched" \in Steps \ {"susp_do", "cancel_do", "cancel_mark"}
    BY StepNames
  <2>2. k' \in Above(k) /\ GoTo(t, "join_sched") /\ target' = target
    BY <1>0, <1>3, SetFlagsEffect DEF set_joining, Flags
  <2> QED BY <1>0, <1>00, <2>1, <2>2, CallStepKept
<1>4. CASE JoinReturn(c, t)
  <2>1. "run" \in Steps \ {"susp_do", "cancel_do", "cancel_mark"}
    BY StepNames
  <2>2. PICK s \in Above(k) : s = ClearFlags(k, t, {"JOINING"})
    BY <1>0, ClearFlagsEffect DEF Flags
  <2>3. s \in KStates /\ BUG(s, "join") \in Above(k)
    BY <1>0, BUGEffect, AboveAbove DEF Bugs
  <2>4. k' \in Above(k) /\ GoTo(t, "run") /\ target' = [target EXCEPT ![t] = NoThread]
    BY <1>4, <2>2, <2>3 DEF JoinReturn
  <2> QED BY <1>0, <1>00, <2>1, <2>4, CallStepKept
<1>5. CASE ExitDead(c, t)
  <2>1. "exit_sched" \in Steps \ {"susp_do", "cancel_do", "cancel_mark"}
    BY StepNames
  <2>2. PICK a \in Above(k) : a = SetFlags(k, t, {"DYING"})
    BY <1>0, SetFlagsEffect DEF Flags
  <2>3. PICK b \in Above(a) : b = list_add_tail(a, t, DEAD)
    BY <1>0, <2>2, LinkEffect, AboveAbove
  <2>4. a \in KStates /\ b \in KStates /\ b \in Above(k)
    BY <1>0, <2>2, <2>3, AboveAbove
  <2>5. sched_wake_joiners(b, t) \in Above(k)
    BY <1>0, <2>4, JoinersEffect, AboveAbove
  <2>6. k' \in Above(k) /\ GoTo(t, "exit_sched") /\ target' = target
    BY <1>5, <2>2, <2>3, <2>5 DEF ExitDead
  <2> QED BY <1>0, <1>00, <2>1, <2>6, CallStepKept
<1>6. CASE sched_wake_joiner(c, t)
  <2>1. "cancel_mark" \in Steps /\ pc[t] = "cancel_do" /\ pc' = [pc EXCEPT ![t] = "cancel_mark"] /\ target' = target
    BY <1>6, StepNames DEF sched_wake_joiner, Continues, At, GoTo
  <2>2. PICK u \in Threads : u = target[t]
    BY <1>6 DEF SchedInv, SSteps, sched_wake_joiner, Continues, At
  <2>3. PICK a \in Above(k) : a = list_del_init(k, u)
    BY <1>0, UnlinkEffect
  <2>4. PICK b \in Above(a) : b = wake(a, u)
    BY <1>0, <2>3, WakeEffect, AboveAbove
  <2>5. a \in KStates /\ b \in KStates /\ b \in Above(k)
    BY <1>0, <2>3, <2>4, AboveAbove
  <2>6. k' \in Above(k)
    BY <1>6, <2>2, <2>3, <2>4, <2>5 DEF sched_wake_joiner
  <2>7. FlagsFollow /\ QueueFollows
    BY <1>0, <2>6, SameFollows
  <2>8. StepsFollow
    BY <2>1, <2>2 DEF StepsFollow, SchedInv, STypeOK, SSteps
  <2> QED BY <1>0, <1>00, <2>7, <2>8, CalledKept
<1>8. CASE set_cancelled(c, t)
  <2>1. "run" \in Steps \ {"susp_do", "cancel_do", "cancel_mark"}
    BY StepNames
  <2>2. PICK u \in Threads : u = target[t]
    BY <1>8 DEF SchedInv, SSteps, set_cancelled, Continues, At
  <2>3. SetFlags(k, u, {"CANCELLED"}) \in Above(k)
    BY <1>0, SetFlagsEffect DEF Flags
  <2>4. k' \in Above(k) /\ GoTo(t, "run") /\ target' = [target EXCEPT ![t] = NoThread]
    BY <1>8, <2>2, <2>3 DEF set_cancelled
  <2> QED BY <1>0, <1>00, <2>1, <2>4, CallStepKept
<1>7. CASE exit_thread(c, t)
  <2>1. "exit_dead" \in Steps \ {"susp_do", "cancel_do", "cancel_mark"}
    BY StepNames
  <2>2. k' \in Above(k) /\ GoTo(t, "exit_dead") /\ target' = target
    BY <1>0, <1>7, BlockEffect, BUGEffect DEF exit_thread, Bugs
  <2> QED BY <1>0, <1>00, <2>1, <2>2, CallStepKept
<1> QED BY <1>1, <1>2, <1>3, <1>4, <1>5, <1>6, <1>7, <1>8

\* Sleeping: the sleep queue gains or loses an entry.
LEMMA SleepKept ==
  ASSUME SchedInv, NEW c \in Cpus, NEW t \in Threads,
         sleep_queue_add(c, t) \/ sleep_queue_del(c, t)
  PROVE  SchedInv'
<1>1. k \in KStates /\ sleep_queue \in Seq(Threads) /\ due \in 0..Len(sleep_queue)
  BY DEF SchedInv, STypeOK
<1>2. PICK n \in Nat : n = Len(sleep_queue)
  BY <1>1, Lengths
<1>3. UNCHANGED workload /\ UNCHANGED cpuVars /\ target' = target
  BY DEF Continues, sleep_queue_add, sleep_queue_del
<1>4. WorkFollows /\ NoThread \in Threads \cup {NoThread}
  BY <1>3, SameFollows
<1>5. CASE sleep_queue_add(c, t)
  <2>1. PICK i \in (due + 1)..(Len(sleep_queue) + 1) : sleep_queue' = InsertAt(sleep_queue, i, t)
    BY <1>5 DEF sleep_queue_add
  <2>2. i \in 1..(Len(sleep_queue) + 1) /\ due' = due
    BY <1>1, <1>5, <2>1 DEF sleep_queue_add
  <2>3. sleep_queue' \in Seq(Threads) /\ Len(sleep_queue') = Len(sleep_queue) + 1
    BY <1>1, <2>1, <2>2, Insertion
  <2>4. due' \in 0..(n + 1) /\ Len(sleep_queue') = n + 1
    BY <1>1, <1>2, <2>2, <2>3
  <2>5. QueueFollows
    BY <2>3, <2>4 DEF QueueFollows
  <2>6. k' \in Above(k) /\ GoTo(t, "sleep_sched")
    BY <1>1, <1>5, SetFlagsEffect DEF sleep_queue_add, Flags
  <2>7. "sleep_sched" \in Steps \ {"susp_do", "cancel_do", "cancel_mark"}
    BY StepNames
  <2>8. StepsFollow
    BY <1>3, <1>4, <2>6, <2>7, GoToFollows
  <2> QED BY <1>3, <1>4, <2>5, <2>6, <2>8, SameFollows, CalledKept
<1>6. CASE sleep_queue_del(c, t)
  <2>1. /\ sleep_queue' = RemoveFirst(sleep_queue, t) /\ GoTo(t, "run")
        /\ due' = IF Contains(SubSeq(sleep_queue, 1, due), t) THEN due - 1 ELSE due
        /\ k' = ClearFlags(k, t, {"SLEEP"})
    BY <1>6 DEF sleep_queue_del
  <2>2. /\ sleep_queue' \in Seq(Threads)
        /\ Len(sleep_queue') =
             IF \E i \in 1..Len(sleep_queue) : sleep_queue[i] = t THEN n - 1 ELSE n
    BY <1>1, <1>2, <2>1, Removal
  <2>3. due' \in 0..Len(sleep_queue')
    <3>1. CASE Contains(SubSeq(sleep_queue, 1, due), t)
      <4>1. PICK i \in 1..Len(SubSeq(sleep_queue, 1, due)) : SubSeq(sleep_queue, 1, due)[i] = t
        BY <3>1 DEF Contains
      <4>2. i \in 1..due /\ sleep_queue[i] = t
        BY <1>1, <1>2, <4>1
      <4>3. i \in 1..n /\ Len(sleep_queue') = n - 1
        BY <1>1, <1>2, <2>2, <4>2
      <4>4. due \in 0..n
        BY <1>1, <1>2
      <4> QED BY <2>1, <3>1, <4>2, <4>3, <4>4
    <3>2. CASE ~Contains(SubSeq(sleep_queue, 1, due), t)
      <4>1. \A i \in 1..due : sleep_queue[i] # t
        <5>1. ASSUME NEW i \in 1..due, sleep_queue[i] = t PROVE FALSE
          <6>1. i \in 1..Len(SubSeq(sleep_queue, 1, due)) /\ SubSeq(sleep_queue, 1, due)[i] = t
            BY <1>1, <1>2, <5>1
          <6> QED BY <3>2, <6>1 DEF Contains
        <5> QED BY <5>1
      <4>2. due' = due /\ due \in 0..n
        BY <1>1, <1>2, <2>1, <3>2
      <4>3. CASE due = n
        BY <1>2, <2>2, <4>1, <4>2, <4>3
      <4>4. CASE due # n
        BY <2>2, <4>2, <4>4
      <4> QED BY <4>3, <4>4
    <3> QED BY <3>1, <3>2
  <2>4. QueueFollows
    BY <2>2, <2>3 DEF QueueFollows
  <2>5. k' \in Above(k)
    BY <1>1, <2>1, ClearFlagsEffect DEF Flags
  <2>6. "run" \in Steps \ {"susp_do", "cancel_do", "cancel_mark"}
    BY StepNames
  <2>7. StepsFollow
    BY <1>3, <1>4, <2>1, <2>6, GoToFollows
  <2> QED BY <1>3, <1>4, <2>4, <2>5, <2>7, SameFollows, CalledKept
<1> QED BY <1>5, <1>6

\* The calls that neither suspend nor cancel.
LEMMA NewCallKept ==
  ASSUME SchedInv, NEW c \in Cpus, NEW t \in Threads, NEW u \in Threads,
         \/ nanosleep(c, t) \/ create_thread(c, t, u) \/ pte_osThreadWaitForEnd(c, t, u)
         \/ Restore(c, t, u) \/ resume_pthread(c, t, u) \/ Hibernate(c, t)
  PROVE  SchedInv'
<1>0. k \in KStates /\ UNCHANGED <<sleep_queue, due>> /\ \E op : Calls(c, t, op)
  BY DEF SchedInv, STypeOK, nanosleep, create_thread, pte_osThreadWaitForEnd, Restore,
         resume_pthread, Hibernate
<1>00. WorkFollows /\ UNCHANGED cpuVars /\ current[c] = t /\ pc[t] = "run"
       /\ NoThread \in Threads \cup {NoThread}
  BY <1>0, CallFollows
<1>1. CASE nanosleep(c, t)
  <2>1. "sleep_q" \in Steps \ {"susp_do", "cancel_do", "cancel_mark"}
    BY StepNames
  <2>2. k' \in Above(k) /\ GoTo(t, "sleep_q") /\ target' = target
    BY <1>0, <1>1, BlockEffect DEF nanosleep
  <2> QED BY <1>0, <1>00, <2>1, <2>2, CallStepKept
<1>2. CASE create_thread(c, t, u)
  <2>1. k' \in Above(k) /\ pc' = [pc EXCEPT ![t] = "yield", ![u] = "run"] /\ target' = target
    BY <1>0, <1>2, RunnableEffect DEF create_thread
  <2>2. {"yield", "run"} \subseteq Steps
    BY StepNames
  <2>3. pc \in [Threads -> Steps] /\ target \in [Threads -> Threads \cup {NoThread}] /\ SSteps
    BY DEF SchedInv, STypeOK
  <2>4. pc' \in [Threads -> Steps] /\ \A v \in Threads : pc'[v] \in {pc[v], "yield", "run"}
    BY <2>1, <2>2, <2>3
  <2>5. StepsFollow
    BY <2>1, <2>3, <2>4 DEF StepsFollow, SSteps
  <2>6. FlagsFollow /\ QueueFollows
    BY <1>0, <2>1, SameFollows
  <2> QED BY <1>00, <2>5, <2>6, CalledKept
<1>3. CASE pte_osThreadWaitForEnd(c, t, u)
  <2>1. "join_lock" \in Steps \ {"susp_do", "cancel_do", "cancel_mark"}
    BY StepNames
  <2>2. UNCHANGED k /\ GoTo(t, "join_lock") /\ target' = [target EXCEPT ![t] = u]
    BY <1>3 DEF pte_osThreadWaitForEnd
  <2> QED BY <1>0, <1>00, <2>1, <2>2, CallStepKept
<1>4. CASE Restore(c, t, u) \/ resume_pthread(c, t, u)
  <2>1. k' \in Above(k) /\ UNCHANGED <<pc, target>>
    BY <1>0, <1>4, RestoreEffect DEF Restore, resume_pthread
  <2>2. FlagsFollow /\ QueueFollows /\ StepsFollow
    BY <1>0, <2>1, SameFollows
  <2> QED BY <1>00, <2>2, CalledKept
<1>5. CASE Hibernate(c, t)
  <2>1. k' = hibernate(k, t) /\ GoTo(t, "hib_sched") /\ target' = target
    BY <1>5 DEF Hibernate
  <2>2. cpu[t] # NoCpu
    BY <1>00 DEF SchedInv, SPlaces
  <2>3. FlagsFollow
    <3>1. k' \in KStates
      BY <1>0, <2>1, StopEffect
    <3>2. \A v \in Threads \ {t} : "RUNNING" \in k.flags[v] => "RUNNING" \in k'.flags[v]
      BY <1>0, <2>1, StopEffect
    <3> QED BY <2>2, <3>1, <3>2 DEF FlagsFollow
  <2>4. "hib_sched" \in Steps \ {"susp_do", "cancel_do", "cancel_mark"}
    BY StepNames
  <2>5. StepsFollow
    BY <1>00, <2>1, <2>4, GoToFollows
  <2>6. QueueFollows
    BY <1>0, SameFollows
  <2> QED BY <1>00, <2>3, <2>5, <2>6, CalledKept
<1> QED BY <1>1, <1>2, <1>3, <1>4, <1>5

\* Suspending and cancelling another thread.
LEMMA SuspendKept ==
  ASSUME SchedInv, NEW c \in Cpus, NEW t \in Threads, NEW u \in Threads,
         suspend_pthread(c, t, u) \/ SuspendDo(c, t) \/ pte_osThreadCancel(c, t, u)
  PROVE  SchedInv'
<1>0. /\ k \in KStates /\ UNCHANGED <<sleep_queue, due>> /\ SSteps
      /\ pc \in [Threads -> Steps] /\ target \in [Threads -> Threads \cup {NoThread}]
  BY DEF SchedInv, STypeOK, suspend_pthread, SuspendDo, pte_osThreadCancel
<1>00. QueueFollows
  BY <1>0, SameFollows
<1>1. CASE suspend_pthread(c, t, u)
  <2>1. Calls(c, t, "suspend") /\ UNCHANGED k /\ GoTo(t, "susp_do")
        /\ target' = [target EXCEPT ![t] = u]
    BY <1>1 DEF suspend_pthread
  <2>2. WorkFollows /\ UNCHANGED cpuVars /\ "suspend" \in workload.ops
    BY <2>1, CallFollows
  <2>3. Solo
    BY <1>0, <2>2 DEF SSteps
  <2>4. "susp_do" \in Steps
    BY StepNames
  <2>5. pc' \in [Threads -> Steps] /\ target' \in [Threads -> Threads \cup {NoThread}]
    BY <1>0, <2>1, <2>4 DEF GoTo
  <2>6. \A v \in Threads : pc'[v] \in {"cancel_do", "cancel_mark"} => target'[v] \in Threads
    BY <1>0, <2>1 DEF SSteps, GoTo
  <2>7. StepsFollow
    BY <2>3, <2>5, <2>6 DEF StepsFollow
  <2>8. FlagsFollow
    BY <2>1, SameFollows
  <2> QED BY <1>00, <2>2, <2>7, <2>8, CalledKept
<1>2. CASE SuspendDo(c, t)
  <2>1. /\ k' = suspend_thread(k, target[t]) /\ target' = [target EXCEPT ![t] = NoThread]
        /\ GoTo(t, IF target[t] = t THEN "yield" ELSE "run") /\ pc[t] = "susp_do"
        /\ UNCHANGED cpuVars /\ UNCHANGED workload
    BY <1>2 DEF SuspendDo, Continues, At
  <2>2. Solo
    BY <1>0, <2>1 DEF SSteps
  <2>3. FlagsFollow
    BY <1>0, <2>1, <2>2, StopEffect DEF FlagsFollow
  <2>4. PICK s \in {"yield", "run"} : s = IF target[t] = t THEN "yield" ELSE "run"
    OBVIOUS
  <2>5. s \in Steps \ {"susp_do", "cancel_do", "cancel_mark"} /\ GoTo(t, s)
    BY <2>1, <2>4, StepNames
  <2>6. StepsFollow
    BY <2>1, <2>5, GoToFollows
  <2>7. WorkFollows
    BY <2>1, SameFollows
  <2> QED BY <1>00, <2>1, <2>3, <2>6, <2>7, CalledKept
<1>3. CASE pte_osThreadCancel(c, t, u)
  <2>1. WorkFollows /\ UNCHANGED cpuVars
    BY <1>3, CallFollows DEF pte_osThreadCancel
  <2>2. CASE UNCHANGED k /\ GoTo(t, "cancel_do") /\ target' = [target EXCEPT ![t] = u]
    <3>1. "cancel_do" \in Steps
      BY StepNames
    <3>2. pc' \in [Threads -> Steps] /\ target' \in [Threads -> Threads \cup {NoThread}]
      BY <1>0, <2>2, <3>1 DEF GoTo
    <3>3. \A v \in Threads : pc'[v] \in {"cancel_do", "cancel_mark"} => target'[v] \in Threads
      BY <1>0, <2>2 DEF SSteps, GoTo
    <3>4. \A v \in Threads : pc'[v] = "susp_do" => Solo
      BY <1>0, <2>2 DEF SSteps, GoTo
    <3>5. StepsFollow
      BY <3>2, <3>3, <3>4 DEF StepsFollow
    <3>6. FlagsFollow
      BY <2>2, SameFollows
    <3> QED BY <1>00, <2>1, <3>5, <3>6, CalledKept
  <2>3. CASE k' = SetFlags(k, u, {"CANCELLED"}) /\ UNCHANGED <<pc, target>>
    <3>1. k' \in Above(k)
      BY <1>0, <2>3, SetFlagsEffect DEF Flags
    <3>2. FlagsFollow /\ StepsFollow
      BY <2>3, <3>1, SameFollows
    <3> QED BY <1>00, <2>1, <3>2, CalledKept
  <2> QED BY <1>3, <2>2, <2>3 DEF pte_osThreadCancel
<1> QED BY <1>1, <1>2, <1>3

-----------------------------------------------------------------------------
(* Steps that move threads *)

\* A thread that pick_thread may choose is not being picked by another processor.
LEMMA EligibleIsFree ==
  ASSUME SchedInv, NEW c \in Cpus, NEW n \in Threads, Eligible(k, c, n), mode[c] = "pick",
         NEW d \in Cpus, next[d] = n
  PROVE  d = c
<1>1. cpu[n] \in {c, NoCpu} /\ "RUNNING" \notin k.flags[n]
  BY DEF Eligible, Has
<1>2. c \in workload.cpus /\ d \in workload.cpus
  BY DEF SchedInv, SIdle
<1>3. CASE Solo
  BY <1>2, <1>3 DEF Solo
<1>4. CASE ~Solo
  <2>1. cpu[n] \in {d, NoCpu} /\ cpu[n] # NoCpu
    BY <1>1, <1>4 DEF SchedInv, SPlaces
  <2> QED BY <1>1, <2>1
<1> QED BY <1>3, <1>4

\* Choosing the next thread keeps the invariant.
LEMMA PickKept ==
  ASSUME SchedInv, NEW c \in Cpus, pick_thread(c)
  PROVE  SchedInv'
<1> DEFINE s == Requeue(k, current[c])
           q == s.lists[READY]
           e == {i \in 1..Len(q) : Eligible(s, c, q[i])}
           n == IF e = {} THEN NoThread ELSE q[Min(e)]
<1>1. /\ k \in KStates /\ current[c] \in Threads \cup {NoThread}
      /\ mode \in [Cpus -> Modes] /\ next \in [Cpus -> Threads \cup {NoThread}]
  BY DEF SchedInv, STypeOK
<1>2. /\ mode[c] = "pick" /\ mode' = [mode EXCEPT ![c] = "switch"]
      /\ next' = [next EXCEPT ![c] = n]
      /\ k' = IF n = NoThread THEN s ELSE SetFlags(s, n, {"RUNNING"})
      /\ UNCHANGED <<sleep_queue, due, cpu, current, prev, saved, pc, target, workload>>
  BY DEF pick_thread
<1>3. s \in Above(k) /\ s.flags = k.flags
  BY <1>1, RequeueEffect
<1>4. s \in KStates
  BY <1>1, <1>3, AboveAbove
<1>5. q \in Seq(Threads)
  BY <1>4 DEF KStates, Lists
<1>6. n \in Threads \cup {NoThread} /\ (n # NoThread => Eligible(s, c, n))
  <2>1. CASE e = {}
    BY <2>1
  <2>2. CASE e # {}
    <3>1. e \in SUBSET Nat
      OBVIOUS
    <3>2. PICK i \in e : i = Min(e)
      BY <2>2, <3>1, MinIsLeast
    <3>3. n = q[i] /\ i \in 1..Len(q) /\ Eligible(s, c, q[i])
      BY <2>2, <3>2
    <3>4. q[i] \in Threads
      BY <1>5, <3>3, Lengths
    <3> QED BY <3>3, <3>4
  <2> QED BY <2>1, <2>2
<1> HIDE DEF n, e, q, s
<1>7. n # NoThread => Eligible(k, c, n)
  BY <1>3, <1>6 DEF Eligible, Has
<1>8. k' \in Above(k)
  <2>1. SetFlags(s, n, {"RUNNING"}) \in Above(s)
    BY <1>4, SetFlagsEffect DEF Flags
  <2> QED BY <1>1, <1>2, <1>3, <2>1, AboveAbove
<1>9. k' \in KStates /\ \A u \in Threads : "RUNNING" \in k.flags[u] => "RUNNING" \in k'.flags[u]
  BY <1>8 DEF Above
<1>10. n # NoThread => "RUNNING" \in k'.flags[n]
  BY <1>2, <1>4, <1>6 DEF SetFlags, KStates
<1>11. c \in workload.cpus
  BY <1>2 DEF SchedInv, SIdle
<1>12. Solo' <=> Solo
  BY <1>2 DEF Solo
<1>13. STypeOK'
  BY <1>1, <1>2, <1>6, <1>9 DEF SchedInv, STypeOK, Modes
<1>14. SSteps'
  BY <1>2, <1>12 DEF SchedInv, SSteps
<1>15. SIdle'
  BY <1>1, <1>2, <1>11 DEF SchedInv, SIdle
<1>16. SPlaces'
  <2>1. next'[c] = n /\ \A d \in Cpus \ {c} : next'[d] = next[d]
    BY <1>1, <1>2
  <2>2. n # NoThread => cpu[n] \in {c, NoCpu}
    BY <1>7 DEF Eligible
  <2>3. \A d \in Cpus : next'[d] # NoThread =>
           cpu[next'[d]] \in {d, NoCpu} /\ (cpu[next'[d]] = NoCpu => Solo \/ "RUNNING" \in k'.flags[next'[d]])
    <3> TAKE d \in Cpus
    <3>1. CASE d = c
      BY <1>10, <2>1, <2>2, <3>1
    <3>2. CASE d # c
      BY <1>1, <1>9, <2>1, <3>2 DEF SchedInv, SPlaces
    <3> QED BY <3>1, <3>2
  <2>4. \A d \in Cpus : n # NoThread /\ next[d] = n => d = c
    BY <1>2, <1>6, <1>7, EligibleIsFree
  <2>5. \A a, d \in Cpus : next'[a] # NoThread /\ next'[d] = next'[a] => a = d
    BY <2>1, <2>4 DEF SchedInv, SPlaces
  <2> QED BY <1>2, <1>12, <2>3, <2>5 DEF SchedInv, SPlaces
<1> QED BY <1>13, <1>14, <1>15, <1>16 DEF SchedInv

\* Switching to the chosen thread keeps the invariant.
LEMMA SwitchKept ==
  ASSUME SchedInv, NEW c \in Cpus, switch_threads(c)
  PROVE  SchedInv'
<1>1. CASE /\ k' = BUG(k, "schedule") /\ UNCHANGED <<cpu, current, mode, next, prev>>
           /\ UNCHANGED <<sleep_queue, due, saved, pc, target, workload>>
  <2>1. k' \in Above(k)
    BY <1>1, BUGEffect DEF SchedInv, STypeOK, Bugs
  <2>2. FlagsFollow /\ QueueFollows /\ StepsFollow /\ WorkFollows /\ UNCHANGED cpuVars
    BY <1>1, <2>1, SameFollows DEF cpuVars
  <2> QED BY <2>2, CalledKept
<1>2. CASE /\ cpu' = IF next[c] = NoThread THEN cpu ELSE [cpu EXCEPT ![next[c]] = c]
           /\ current' = [current EXCEPT ![c] = next[c]]
           /\ next' = [next EXCEPT ![c] = NoThread]
           /\ prev' = [prev EXCEPT ![c] = IF next[c] = current[c] THEN NoThread ELSE current[c]]
           /\ mode' = [mode EXCEPT ![c] = IF next[c] = current[c] THEN Resumed(next[c]) ELSE "switch_in"]
           /\ UNCHANGED k /\ mode[c] = "switch"
           /\ UNCHANGED <<sleep_queue, due, saved, pc, target, workload>>
  <2>1. /\ cpu \in [Threads -> Cpus \cup {NoCpu}]
        /\ current \in [Cpus -> Threads \cup {NoThread}]
        /\ next \in [Cpus -> Threads \cup {NoThread}]
        /\ prev \in [Cpus -> Threads \cup {NoThread}]
        /\ mode \in [Cpus -> Modes]
    BY DEF SchedInv, STypeOK
  <2>2. PICK n \in Threads \cup {NoThread} : n = next[c]
    BY <2>1
  <2>3. c \in workload.cpus
    BY <1>2 DEF SchedInv, SIdle
  <2>4. Solo' <=> Solo
    BY <1>2 DEF Solo
  <2>5. cpu' \in [Threads -> Cpus \cup {NoCpu}]
    BY <1>2, <2>1
  <2>6. /\ current' \in [Cpus -> Threads \cup {NoThread}]
        /\ next' \in [Cpus -> Threads \cup {NoThread}]
        /\ prev' \in [Cpus -> Threads \cup {NoThread}]
    BY <1>2, <2>1
  <2>7. mode' \in [Cpus -> Modes]
    BY <1>2, <2>1 DEF Resumed, Modes
  <2>8. STypeOK'
    BY <1>2, <2>5, <2>6, <2>7 DEF SchedInv, STypeOK
  <2>9. SSteps'
    BY <1>2, <2>4 DEF SchedInv, SSteps
  <2>10. SIdle'
    BY <1>2, <2>1, <2>3 DEF SchedInv, SIdle
  <2>11. /\ current'[c] = n /\ next'[c] = NoThread /\ prev'[c] \in {NoThread, current[c]}
         /\ \A d \in Cpus \ {c} : current'[d] = current[d] /\ next'[d] = next[d] /\ prev'[d] = prev[d]
    BY <1>2, <2>1, <2>2
  <2>12. \A t \in Threads : cpu'[t] = IF t = n THEN c ELSE cpu[t]
    BY <1>2, <2>1, <2>2
  <2>13. n # NoThread => cpu[n] \in {c, NoCpu}
    BY <2>2 DEF SchedInv, SPlaces
  <2>14. \A d \in Cpus : /\ current[d] # NoThread => cpu[current[d]] = d
                         /\ prev[d] # NoThread => cpu[prev[d]] = d
    BY DEF SchedInv, SPlaces
  <2>15. \A t \in Threads, d \in Cpus : cpu[t] = d => cpu'[t] = d
    BY <2>12, <2>13
  <2>16. \A d \in Cpus : /\ current'[d] # NoThread => cpu'[current'[d]] = d
                         /\ prev'[d] # NoThread => cpu'[prev'[d]] = d
    <3> TAKE d \in Cpus
    <3>1. CASE d = c
      BY <2>1, <2>2, <2>11, <2>12, <2>14, <2>15, <3>1
    <3>2. CASE d # c
      BY <2>1, <2>11, <2>14, <2>15, <3>2
    <3> QED BY <3>1, <3>2
  <2>17. \A d \in Cpus \ {c} : next[d] # NoThread => next[d] # n
    BY <2>2 DEF SchedInv, SPlaces
  <2>18. \A d \in Cpus : next'[d] # NoThread =>
            /\ d # c /\ next'[d] = next[d] /\ cpu'[next'[d]] = cpu[next[d]]
    BY <2>1, <2>11, <2>12, <2>17
  <2>19. \A d \in Cpus : next'[d] # NoThread =>
            /\ cpu'[next'[d]] \in {d, NoCpu}
            /\ (cpu'[next'[d]] = NoCpu => Solo \/ "RUNNING" \in k.flags[next'[d]])
    BY <2>18 DEF SchedInv, SPlaces
  <2>20. \A a, d \in Cpus : next'[a] # NoThread /\ next'[d] = next'[a] => a = d
    BY <2>18 DEF SchedInv, SPlaces
  <2>21. SPlaces'
    BY <1>2, <2>4, <2>16, <2>19, <2>20 DEF SPlaces
  <2> QED BY <2>8, <2>9, <2>10, <2>21 DEF SchedInv
<1> QED BY <1>1, <1>2 DEF switch_threads

\* The previous thread of a processor is switched out, and loses RUNNING_FLAG.
LEMMA SwitchInKept ==
  ASSUME SchedInv, NEW c \in Cpus, sched_switch_thread_in(c) \/ StoreFlags(c)
  PROVE  SchedInv'
<1> DEFINE p == prev[c]
<1>1. /\ k \in KStates /\ p \in Threads \cup {NoThread} /\ saved \in [Cpus -> SUBSET Flags]
      /\ mode \in [Cpus -> Modes] /\ prev \in [Cpus -> Threads \cup {NoThread}]
  BY DEF SchedInv, STypeOK
<1>2. p # NoThread => cpu[p] = c /\ cpu[p] # NoCpu
  BY DEF SchedInv, SPlaces
<1>3. /\ mode[c] \in {"switch_in", "store"}
      /\ UNCHANGED <<sleep_queue, due, cpu, current, next, pc, target, workload>>
  BY DEF sched_switch_thread_in, StoreFlags
<1>4. c \in workload.cpus
  BY <1>3 DEF SchedInv, SIdle
<1>5. mode' \in [Cpus -> Modes] /\ \A d \in Cpus \ {c} : mode'[d] = mode[d]
  BY <1>1 DEF sched_switch_thread_in, StoreFlags, Resumed, Modes
<1>6. prev' \in [Cpus -> Threads \cup {NoThread}]
      /\ prev'[c] \in {p, NoThread} /\ \A d \in Cpus \ {c} : prev'[d] = prev[d]
  BY <1>1 DEF sched_switch_thread_in, StoreFlags
<1>7. saved' \in [Cpus -> SUBSET Flags]
  <2>1. p # NoThread => k.flags[p] \in SUBSET Flags
    BY <1>1 DEF KStates
  <2> QED BY <1>1, <2>1 DEF sched_switch_thread_in, StoreFlags
<1>8. /\ k' \in KStates
      /\ \A u \in Threads \ {p} : "RUNNING" \in k.flags[u] => "RUNNING" \in k'.flags[u]
  <2>1. CASE UNCHANGED k
    BY <1>1, <2>1
  <2>2. CASE k' = ClearFlags(k, p, {"RUNNING"})
    <3>0. {"RUNNING"} \in SUBSET Flags
      BY DEF Flags
    <3>a. PICK x \in KStates : /\ x = ClearFlags(k, p, {"RUNNING"})
                               /\ x.flags = [k.flags EXCEPT ![p] = k.flags[p] \ {"RUNNING"}]
      <4>0. PICK y \in KStates : y = k
        BY <1>1
      <4>1. PICK pp \in Threads \cup {NoThread} : pp = p
        BY <1>1
      <4>2. /\ ClearFlags(y, pp, {"RUNNING"}) \in KStates
            /\ ClearFlags(y, pp, {"RUNNING"}).flags = [y.flags EXCEPT ![pp] = y.flags[pp] \ {"RUNNING"}]
        BY <3>0, ClearFlagsEffect, ZenonT(90)
      <4> QED BY <4>0, <4>1, <4>2
    <3>1. k' \in KStates /\ k'.flags = [k.flags EXCEPT ![p] = k.flags[p] \ {"RUNNING"}]
      BY <2>2, <3>a
    <3>2. k.flags \in [Threads -> SUBSET Flags]
      BY <1>1 DEF KStates
    <3> QED BY <3>1, <3>2
  <2>3. CASE k' = [k EXCEPT !.flags[p] = saved[c] \ {"RUNNING"}]
    <3>1. k.flags \in [Threads -> SUBSET Flags] /\ k.lists \in [Lists -> Seq(Threads)] /\ k.bug \in Bugs
      BY <1>1 DEF KStates
    <3>2. PICK fl : fl = [k.flags EXCEPT ![p] = saved[c] \ {"RUNNING"}]
      OBVIOUS
    <3>3. fl \in [Threads -> SUBSET Flags] /\ \A u \in Threads \ {p} : fl[u] = k.flags[u]
      BY <1>1, <3>1, <3>2
    <3>4. k' = [k EXCEPT !.flags = fl]
      BY <1>1, <2>3, <3>2 DEF KStates
    <3>5. k' \in KStates /\ k'.flags = fl
      BY <1>1, <3>1, <3>3, <3>4 DEF KStates
    <3> QED BY <3>3, <3>5
  <2> QED BY <2>1, <2>2, <2>3 DEF sched_switch_thread_in, StoreFlags
<1> HIDE DEF p
<1>9. Solo' <=> Solo
  BY <1>3 DEF Solo
<1>10. STypeOK'
  BY <1>3, <1>5, <1>6, <1>7, <1>8 DEF SchedInv, STypeOK
<1>11. SSteps'
  BY <1>3, <1>9 DEF SchedInv, SSteps
<1>12. SIdle'
  BY <1>3, <1>4, <1>5, <1>6 DEF SchedInv, SIdle
<1>13. SPlaces'
  <2>1. \A d \in Cpus : prev'[d] # NoThread => prev'[d] = prev[d]
    BY <1>6 DEF p
  <2>2. \A u \in Threads : cpu[u] = NoCpu /\ "RUNNING" \in k.flags[u] => "RUNNING" \in k'.flags[u]
    BY <1>1, <1>2, <1>8, ThreadsAssumption
  <2>3. next \in [Cpus -> Threads \cup {NoThread}]
    BY DEF SchedInv, STypeOK
  <2> QED BY <1>3, <1>9, <2>1, <2>2, <2>3 DEF SchedInv, SPlaces
<1> QED BY <1>10, <1>11, <1>12, <1>13 DEF SchedInv

\* The idle thread frees dead threads.
LEMMA ReapKept ==
  ASSUME SchedInv, NEW c \in Cpus, sched_reap_dead(c)
  PROVE  SchedInv'
<1>1. /\ mode[c] = "reap" /\ mode' = [mode EXCEPT ![c] = "exec"] /\ Reap(c, Reapable(c))
      /\ UNCHANGED <<sleep_queue, due>> /\ UNCHANGED <<pc, target>> /\ UNCHANGED workload
      /\ UNCHANGED <<cpu, current, next, prev, saved>>
  BY DEF sched_reap_dead, Reap
<1>2. k \in KStates /\ mode \in [Cpus -> Modes]
  BY DEF SchedInv, STypeOK
<1>3. k' \in Above(k)
  BY <1>1, <1>2, ReapEffect
<1>4. FlagsFollow /\ QueueFollows /\ StepsFollow /\ WorkFollows
  BY <1>1, <1>3, SameFollows
<1>5. c \in workload.cpus
  BY <1>1 DEF SchedInv, SIdle
<1>6. mode' \in [Cpus -> Modes] /\ \A d \in Cpus \ workload.cpus : mode'[d] = mode[d]
  BY <1>1, <1>2, <1>5 DEF Modes
<1> QED BY <1>1, <1>4, <1>6, StayKept

-----------------------------------------------------------------------------
(* The theorem *)

\* SetToSeq of a set of threads contains each of them once.
LEMMA OrderIsWhole ==
  ASSUME NEW S \in SUBSET Threads
  PROVE  /\ SetToSeq(S) \in Seq(Threads) /\ Distinct(SetToSeq(S))
         /\ \A t \in Threads : Contains(SetToSeq(S), t) <=> t \in S
<1>1. IsFiniteSet(S)
  BY FS_Subset
<1>2. PICK n \in Nat : n = Cardinality(S) /\ ExistsBijection(1..n, S)
  BY <1>1, FS_CardinalityType
<1>3. PICK f \in [1..n -> S] : IsInjective(f)
  <2>1. PICK f \in Bijection(1..n, S) : TRUE
    BY <1>2 DEF ExistsBijection
  <2>2. f \in [1..n -> S] /\ \A a, b \in 1..n : f[a] = f[b] => a = b
    BY <2>1 DEF Bijection, Injection, Surjection, IsInjective
  <2> QED BY <2>2 DEF IsInjective
<1>4. PICK q : q = SetToSeq(S)
  OBVIOUS
<1>5. q \in [1..n -> S] /\ IsInjective(q)
  BY <1>2, <1>3, <1>4 DEF SetToSeq
<1>6. q \in Seq(Threads) /\ Len(q) = n /\ Distinct(q)
  BY <1>5 DEF IsInjective, Distinct
<1>7. \A t \in S : \E i \in 1..n : q[i] = t
  <2>1. IsFiniteSet(1..n) /\ Cardinality(1..n) = n
    BY FS_Interval
  <2>2. q \in Injection(1..n, S)
    BY <1>5 DEF Injection
  <2>3. q \in Surjection(1..n, S)
    BY <1>1, <1>2, <2>1, <2>2, FS_Injection
  <2> QED BY <2>3 DEF Surjection
<1>8. \A t \in Threads : Contains(q, t) <=> t \in S
  BY <1>5, <1>6, <1>7 DEF Contains
<1> QED BY <1>4, <1>6, <1>8

\* The initial states satisfy the invariant.
LEMMA SchedInit ==
  ASSUME Init, \A w \in Workloads : "suspend" \in w.ops => \E c \in Cpus : w.cpus \subseteq {c}
  PROVE  SchedInv
<1>1. workload \in WorkloadType /\ workload \in Workloads
  BY WorkloadsAssumption DEF Init, WorkloadType
<1>2. k \in KStates
  <2>1. k.flags \in [Threads -> SUBSET Flags] /\ k.bug \in Bugs
    BY DEF Init, Flags, Bugs
  <2>2. workload.main \in SUBSET Threads
    BY <1>1 DEF WorkloadType
  <2>3. PICK q \in Seq(Threads) : q = SetToSeq(workload.main)
    BY <2>2, OrderIsWhole
  <2>4. k.lists = [l \in Lists |-> IF l = READY THEN q ELSE << >>]
    BY <2>3 DEF Init, Lists
  <2>5. k.lists \in [Lists -> Seq(Threads)]
    BY <2>3, <2>4
  <2>6. k = [flags |-> k.flags, lists |-> k.lists, bug |-> k.bug]
    BY DEF Init
  <2> QED BY <2>1, <2>5, <2>6 DEF KStates
<1>3. sleep_queue \in Seq(Threads) /\ due \in 0..Len(sleep_queue)
  BY DEF Init
<1>4. pc \in [Threads -> Steps] /\ \A t \in Threads : pc[t] \in {"run", "none"}
  BY StepNames DEF Init
<1>5. STypeOK
  BY <1>1, <1>2, <1>3, <1>4 DEF Init, STypeOK, Modes
<1>6. SSteps
  BY <1>1, <1>4 DEF SSteps, Solo
<1>7. SIdle /\ SPlaces
  BY DEF Init, SIdle, SPlaces
<1> QED BY <1>5, <1>6, <1>7 DEF SchedInv

\* Every step preserves the invariant.
LEMMA SchedStep ==
  ASSUME SchedInv, [Next]_vars
  PROVE  SchedInv'
<1>1. CASE UNCHANGED vars
  <2>1. UNCHANGED cpuVars /\ UNCHANGED k /\ UNCHANGED <<sleep_queue, due>>
        /\ UNCHANGED <<pc, target>> /\ UNCHANGED workload
    BY <1>1 DEF vars
  <2>2. FlagsFollow /\ QueueFollows /\ StepsFollow /\ WorkFollows
    BY <2>1, SameFollows
  <2> QED BY <2>1, <2>2, CalledKept
<1>2. CASE Tick
  BY <1>2, TickKept
<1>3. ASSUME NEW c \in Cpus, CpuStep(c) PROVE SchedInv'
  <2>1. CASE idle_thread_fn(c)
    <3>1. /\ c \in workload.cpus /\ EnterSchedule(c)
          /\ UNCHANGED <<sleep_queue, due, cpu, current, next, prev, saved>>
          /\ UNCHANGED <<pc, target>> /\ UNCHANGED workload
      BY <2>1 DEF idle_thread_fn
    <3>2. StepsFollow /\ WorkFollows
      BY <3>1, SameFollows
    <3> QED BY <3>1, <3>2, EnterKept
  <2>2. CASE ~idle_thread_fn(c)
    BY <1>3, <2>2, PickKept, SwitchKept, SwitchInKept, ReapKept DEF CpuStep
  <2> QED BY <2>1, <2>2
<1>4. ASSUME NEW c \in Cpus, NEW t \in Threads,
             ThreadStep(c, t) \/ NewCall(c, t) \/ exit_thread(c, t) \/ preempt_schedule(c, t)
      PROVE  SchedInv'
  <2>1. CASE ThreadStep(c, t)
    BY <2>1, EnterActionsKept, SleepKept, ContinueKept, SuspendKept DEF ThreadStep
  <2>2. CASE NewCall(c, t)
    BY <2>2, NewCallKept, SuspendKept DEF NewCall
  <2>3. CASE exit_thread(c, t)
    BY <2>3, ContinueKept
  <2>4. CASE preempt_schedule(c, t)
    BY <2>4, EnterActionsKept
  <2> QED BY <1>4, <2>1, <2>2, <2>3, <2>4
<1> QED BY <1>1, <1>2, <1>3, <1>4 DEF Next

\* No thread executes on two processors at once, whatever the numbers of threads and
\* processors, with preemption, and with clear_running either indivisible or not, as
\* long as threads are suspended on one processor only: suspend_thread clears the
\* RUNNING_FLAG of a thread that another processor may have just picked.
THEOREM ThreadStaysOnProcessor ==
  ASSUME \A w \in Workloads : "suspend" \in w.ops => \E c \in Cpus : w.cpus \subseteq {c}
  PROVE  Spec => []OneProcessorPerThread
<1>1. Init => SchedInv
  BY SchedInit
<1>2. SchedInv /\ [Next]_vars => SchedInv'
  BY SchedStep
<1>3. SchedInv => OneProcessorPerThread
  BY DEF SchedInv, SPlaces, OneProcessorPerThread
<1> QED BY <1>1, <1>2, <1>3, PTL DEF Spec

-----------------------------------------------------------------------------
(* Lists without duplicates, and what the operations do to them *)

\* No bug, and every thread is linked once at most.
Proper(s) ==
  /\ s.bug = "none"
  /\ \A l \in Lists : Distinct(s.lists[l])
  /\ \A t \in Threads : \A l, m \in Lists :
       Contains(s.lists[l], t) /\ Contains(s.lists[m], t) => l = m
Sound == {s \in KStates : Proper(s)}

\* The list of a thread that is not linked.
Off == CHOOSE l : l \notin Lists
\* Off is no list.
LEMMA OffIsNoList ==
  Off \notin Lists
<1>1. \E l : l \notin Lists
  BY NoSetContainsEverything
<1> QED BY <1>1 DEF Off

\* From s to r only the flags of t change; or thread t gets flags F and is linked on
\* list l alone; or thread u is as it was.
Turned(s, r, t, F) == r \in Sound /\ r.flags = [s.flags EXCEPT ![t] = F] /\ r.lists = s.lists
Moved(s, r, t, F, l) ==
  /\ r \in Sound /\ r.flags = [s.flags EXCEPT ![t] = F]
  /\ \A m \in Lists : Contains(r.lists[m], t) <=> m = l
  /\ \A u \in Threads \ {t}, m \in Lists : Contains(r.lists[m], u) <=> Contains(s.lists[m], u)
Same(s, r, u) ==
  r.flags[u] = s.flags[u] /\ \A m \in Lists : Contains(r.lists[m], u) <=> Contains(s.lists[m], u)
Woken(s, r, u) ==
  /\ "RUNNABLE" \notin s.flags[u] /\ r.flags[u] = s.flags[u] \cup {"RUNNABLE"}
  /\ \A m \in Lists : Contains(r.lists[m], u) <=> m = READY

\* The parts of a sound state.
LEMMA SoundParts ==
  ASSUME NEW s \in Sound
  PROVE  /\ s \in KStates /\ s.flags \in [Threads -> SUBSET Flags]
         /\ s.lists \in [Lists -> Seq(Threads)] /\ s.bug = "none" /\ Proper(s)
         /\ s = [flags |-> s.flags, lists |-> s.lists, bug |-> s.bug]
  BY DEF Sound, KStates, Proper

\* Setting and clearing flags.
LEMMA FlagsTurned ==
  ASSUME NEW s \in Sound, NEW t \in Threads, NEW F \in SUBSET Flags
  PROVE  /\ Turned(s, SetFlags(s, t, F), t, s.flags[t] \cup F)
         /\ Turned(s, ClearFlags(s, t, F), t, s.flags[t] \ F)
<1>1. /\ s \in KStates /\ s.flags \in [Threads -> SUBSET Flags]
      /\ s.lists \in [Lists -> Seq(Threads)] /\ s.bug = "none" /\ Proper(s)
      /\ s = [flags |-> s.flags, lists |-> s.lists, bug |-> s.bug]
  BY SoundParts
<1>2. ASSUME NEW fl \in [Threads -> SUBSET Flags]
      PROVE  LET r == [s EXCEPT !.flags = fl] IN r \in Sound /\ r.flags = fl /\ r.lists = s.lists
  BY <1>1 DEF Sound, KStates, Proper
<1>3. PICK a \in [Threads -> SUBSET Flags] : a = [s.flags EXCEPT ![t] = s.flags[t] \cup F]
  BY <1>1
<1>4. PICK b \in [Threads -> SUBSET Flags] : b = [s.flags EXCEPT ![t] = s.flags[t] \ F]
  BY <1>1
<1>5. SetFlags(s, t, F) = [s EXCEPT !.flags = a] /\ ClearFlags(s, t, F) = [s EXCEPT !.flags = b]
  BY <1>1, <1>3, <1>4 DEF SetFlags, ClearFlags, KStates
<1> QED BY <1>2, <1>3, <1>4, <1>5 DEF Turned

\* A flag change before or after another change of the same thread.
LEMMA TurnedMoved ==
  ASSUME NEW s \in Sound, NEW t \in Threads, NEW r, NEW x, NEW F, NEW G, NEW l, 
         Turned(s, r, t, F), Moved(r, x, t, G, l)
  PROVE  Moved(s, x, t, G, l)
<1>1. s.flags \in [Threads -> SUBSET Flags]
  BY SoundParts
<1>2. x.flags = [s.flags EXCEPT ![t] = G]
  BY <1>1 DEF Turned, Moved
<1> QED BY <1>2 DEF Turned, Moved

\* Two flag changes of the same thread.
LEMMA TurnedTurned ==
  ASSUME NEW s \in Sound, NEW t \in Threads, NEW r, NEW x, NEW F, NEW G, NEW l, 
         Turned(s, r, t, F), Turned(r, x, t, G)
  PROVE  Turned(s, x, t, G)
<1>1. s.flags \in [Threads -> SUBSET Flags]
  BY SoundParts
<1>2. x.flags = [s.flags EXCEPT ![t] = G]
  BY <1>1 DEF Turned, Moved
<1> QED BY <1>2 DEF Turned, Moved

\* A flag change after a thread was linked or unlinked.
LEMMA MovedTurned ==
  ASSUME NEW s \in Sound, NEW t \in Threads, NEW r, NEW x, NEW F, NEW G, NEW l, 
         Moved(s, r, t, F, l), Turned(r, x, t, G)
  PROVE  Moved(s, x, t, G, l)
<1>1. s.flags \in [Threads -> SUBSET Flags]
  BY SoundParts
<1>2. x.flags = [s.flags EXCEPT ![t] = G]
  BY <1>1 DEF Turned, Moved
<1> QED BY <1>2 DEF Turned, Moved

\* A thread unlinked and linked again.
LEMMA MovedMoved ==
  ASSUME NEW s \in Sound, NEW t \in Threads, NEW r, NEW x, NEW F, NEW G, NEW l, NEW m,
         Moved(s, r, t, F, l), Moved(r, x, t, G, m)
  PROVE  Moved(s, x, t, G, m)
<1>1. s.flags \in [Threads -> SUBSET Flags]
  BY SoundParts
<1>2. x.flags = [s.flags EXCEPT ![t] = G]
  BY <1>1 DEF Turned, Moved
<1> QED BY <1>2 DEF Turned, Moved

\* The threads other than t are as they were.
LEMMA MovedOthers ==
  ASSUME NEW s \in Sound, NEW t \in Threads, NEW r, NEW F, NEW l, Moved(s, r, t, F, l) \/ Turned(s, r, t, F)
  PROVE  r \in Sound /\ r.flags[t] = F /\ \A u \in Threads \ {t} : Same(s, r, u)
<1>1. s.flags \in [Threads -> SUBSET Flags]
  BY SoundParts
<1> QED BY <1>1 DEF Moved, Turned, Same

\* The threads after one of them is moved to another list or off its list.
LEMMA MovedParts ==
  ASSUME NEW s \in Sound, NEW t \in Threads, NEW r, NEW F, NEW l, Moved(s, r, t, F, l)
  PROVE  /\ r \in Sound /\ r.flags[t] = F /\ \A u \in Threads \ {t} : Same(s, r, u)
         /\ \A m \in Lists : Contains(r.lists[m], t) <=> m = l
         /\ l = Off => \A m \in Lists : ~Contains(r.lists[m], t)
<1>1. r \in Sound /\ r.flags[t] = F /\ \A u \in Threads \ {t} : Same(s, r, u)
  BY MovedOthers
<1>2. \A m \in Lists : Contains(r.lists[m], t) <=> m = l
  BY DEF Moved
<1> QED BY <1>1, <1>2, OffIsNoList

\* The threads after the flags of one of them change.
LEMMA TurnedParts ==
  ASSUME NEW s \in Sound, NEW t \in Threads, NEW r, NEW F, Turned(s, r, t, F)
  PROVE  /\ r \in Sound /\ r.flags[t] = F /\ \A u \in Threads \ {t} : Same(s, r, u)
         /\ \A m \in Lists : Contains(r.lists[m], t) <=> Contains(s.lists[m], t)
<1>1. r \in Sound /\ r.flags[t] = F /\ \A u \in Threads \ {t} : Same(s, r, u)
  BY MovedOthers
<1> QED BY <1>1 DEF Turned

\* list_del_init().
LEMMA UnlinkMoved ==
  ASSUME NEW s \in Sound, NEW t \in Threads
  PROVE  Moved(s, list_del_init(s, t), t, s.flags[t], Off)
<1>1. /\ s \in KStates /\ s.flags \in [Threads -> SUBSET Flags]
      /\ s.lists \in [Lists -> Seq(Threads)] /\ s.bug = "none" /\ Proper(s)
      /\ s = [flags |-> s.flags, lists |-> s.lists, bug |-> s.bug]
  BY SoundParts
<1>2. PICK li : li = [l \in Lists |-> RemoveFirst(s.lists[l], t)]
  OBVIOUS
<1>3. list_del_init(s, t) = [s EXCEPT !.lists = li]
  BY <1>1, <1>2 DEF list_del_init
<1>4. \A l \in Lists : /\ li[l] \in Seq(Threads) /\ Distinct(li[l])
                       /\ \A u : Contains(li[l], u) <=> Contains(s.lists[l], u) /\ u # t
  <2> TAKE l \in Lists
  <2>1. s.lists[l] \in Seq(Threads) /\ Distinct(s.lists[l]) /\ li[l] = RemoveFirst(s.lists[l], t)
    BY <1>1, <1>2 DEF Proper
  <2> QED BY <2>1, Removal, RemovalElements
<1>5. li \in [Lists -> Seq(Threads)]
  BY <1>2, <1>4
<1>6. PICK r : r = [s EXCEPT !.lists = li]
  OBVIOUS
<1>7. r \in KStates /\ r.lists = li /\ r.bug = "none" /\ r.flags = s.flags
  BY <1>1, <1>5, <1>6 DEF KStates
<1>8. Proper(r)
  BY <1>1, <1>4, <1>7 DEF Proper
<1>9. r.flags = [s.flags EXCEPT ![t] = s.flags[t]]
  BY <1>1, <1>7
<1> QED BY <1>3, <1>4, <1>6, <1>7, <1>8, <1>9, OffIsNoList DEF Moved, Sound

\* list_add_tail() of a node that is not linked.
LEMMA LinkMoved ==
  ASSUME NEW s \in Sound, NEW t \in Threads, NEW l \in Lists, \A m \in Lists : ~Contains(s.lists[m], t)
  PROVE  Moved(s, list_add_tail(s, t, l), t, s.flags[t], l)
<1>1. /\ s \in KStates /\ s.flags \in [Threads -> SUBSET Flags]
      /\ s.lists \in [Lists -> Seq(Threads)] /\ s.bug = "none" /\ Proper(s)
      /\ s = [flags |-> s.flags, lists |-> s.lists, bug |-> s.bug]
  BY SoundParts
<1>2. PICK q \in Seq(Threads) : q = Append(s.lists[l], t)
  BY <1>1, AppendOne
<1>3. Distinct(q) /\ \A u : Contains(q, u) <=> Contains(s.lists[l], u) \/ u = t
  <2>1. s.lists[l] \in Seq(Threads) /\ Distinct(s.lists[l]) /\ ~Contains(s.lists[l], t)
    BY <1>1 DEF Proper
  <2> QED BY <1>2, <2>1, AppendElements
<1>4. PICK li : li = [s.lists EXCEPT ![l] = q]
  OBVIOUS
<1>5. li \in [Lists -> Seq(Threads)] /\ li[l] = q /\ \A m \in Lists \ {l} : li[m] = s.lists[m]
  BY <1>1, <1>2, <1>4
<1>6. ~Linked(s, t)
  BY <1>1 DEF Linked
<1>7. PICK r : r = [s EXCEPT !.lists = li]
  OBVIOUS
<1>8. list_add_tail(s, t, l) = r
  BY <1>1, <1>2, <1>4, <1>6, <1>7 DEF list_add_tail, KStates
<1>9. r \in KStates /\ r.lists = li /\ r.bug = "none" /\ r.flags = s.flags
  BY <1>1, <1>5, <1>7 DEF KStates
<1>10. \A m \in Lists : /\ Contains(li[m], t) <=> m = l
                        /\ \A u \in Threads \ {t} : Contains(li[m], u) <=> Contains(s.lists[m], u)
  BY <1>3, <1>5
<1>11. \A m \in Lists : Distinct(li[m])
  BY <1>1, <1>3, <1>5 DEF Proper
<1>12. Proper(r)
  <2>1. ASSUME NEW u \in Threads, NEW a \in Lists, NEW b \in Lists, Contains(li[a], u), Contains(li[b], u)
        PROVE  a = b
    <3>1. CASE u = t
      BY <1>10, <2>1, <3>1
    <3>2. CASE u # t
      <4>1. Contains(s.lists[a], u) /\ Contains(s.lists[b], u)
        BY <1>10, <2>1, <3>2
      <4> QED BY <1>1, <4>1 DEF Proper
    <3> QED BY <3>1, <3>2
  <2> QED BY <1>9, <1>11, <2>1 DEF Proper
<1>13. r.flags = [s.flags EXCEPT ![t] = s.flags[t]]
  BY <1>1, <1>9
<1> QED BY <1>8, <1>9, <1>10, <1>12, <1>13 DEF Moved, Sound

\* make_runnable() of a thread that is not linked.
LEMMA RunnableMoved ==
  ASSUME NEW s \in Sound, NEW t \in Threads, \A m \in Lists : ~Contains(s.lists[m], t)
  PROVE  Moved(s, make_runnable(s, t), t, s.flags[t] \cup {"RUNNABLE"}, READY)
<1>1. PICK r : r = SetFlags(s, t, {"RUNNABLE"})
  OBVIOUS
<1>2. Turned(s, r, t, s.flags[t] \cup {"RUNNABLE"})
  BY <1>1, FlagsTurned DEF Flags
<1>3. r \in Sound /\ r.flags[t] = s.flags[t] \cup {"RUNNABLE"} /\ \A m \in Lists : ~Contains(r.lists[m], t)
  BY <1>2, MovedOthers DEF Turned
<1>4. READY \in Lists
  BY DEF Lists
<1>5. Moved(r, list_add_tail(r, t, READY), t, r.flags[t], READY)
  BY <1>3, <1>4, LinkMoved
<1>6. Moved(r, make_runnable(s, t), t, s.flags[t] \cup {"RUNNABLE"}, READY)
  BY <1>1, <1>3, <1>5 DEF make_runnable
<1> QED BY <1>2, <1>6, TurnedMoved
\* wake() of a thread that waits on no list, and of one that need not be woken.
LEMMA WakeMoved ==
  ASSUME NEW s \in Sound, NEW t \in Threads, "DYING" \notin s.flags[t]
  PROVE  /\ s.flags[t] \cap {"RUNNABLE", "HIBERNATION", "SUSPENDED"} # {} => wake(s, t) = s
         /\ s.flags[t] \cap {"RUNNABLE", "HIBERNATION", "SUSPENDED"} = {}
            /\ (\A m \in Lists : ~Contains(s.lists[m], t))
            => Moved(s, wake(s, t), t, s.flags[t] \cup {"RUNNABLE"}, READY)
  BY RunnableMoved DEF wake, Has

\* block() of a runnable thread.
LEMMA BlockMoved ==
  ASSUME NEW s \in Sound, NEW t \in Threads, "RUNNABLE" \in s.flags[t],
         s.flags[t] \cap {"HIBERNATION", "SUSPENDED", "JOINING"} = {}
  PROVE  Moved(s, block(s, t), t, s.flags[t] \ {"RUNNABLE"}, Off)
<1>1. PICK b : b = ClearFlags(s, t, {"RUNNABLE"})
  OBVIOUS
<1>2. Turned(s, b, t, s.flags[t] \ {"RUNNABLE"})
  BY <1>1, FlagsTurned DEF Flags
<1>3. b \in Sound /\ b.flags[t] = s.flags[t] \ {"RUNNABLE"}
  BY <1>2, MovedOthers
<1>4. Moved(b, list_del_init(b, t), t, s.flags[t] \ {"RUNNABLE"}, Off)
  BY <1>3, UnlinkMoved
<1>5. block(s, t) = list_del_init(b, t)
  BY <1>1 DEF block, Has
<1> QED BY <1>2, <1>4, <1>5, TurnedMoved

\* hibernate() and suspend_thread(): a thread that waits already keeps its place.
LEMMA StopMoved ==
  ASSUME NEW s \in Sound, NEW t \in Threads
  PROVE  /\ s.flags[t] \cap {"SUSPENDED", "SLEEP"} = {} =>
              Moved(s, hibernate(s, t), t, (s.flags[t] \ {"RUNNABLE", "RUNNING"}) \cup {"HIBERNATION"}, Off)
         /\ s.flags[t] \cap {"HIBERNATION", "SLEEP", "JOINING"} = {} =>
              Moved(s, suspend_thread(s, t), t, (s.flags[t] \ {"RUNNABLE", "RUNNING"}) \cup {"SUSPENDED"}, Off)
         /\ s.flags[t] \cap {"HIBERNATION", "SLEEP", "JOINING"} # {} =>
              Turned(s, suspend_thread(s, t), t, (s.flags[t] \ {"RUNNABLE", "RUNNING"}) \cup {"SUSPENDED"})
<1>1. PICK b : b = ClearFlags(s, t, {"RUNNABLE", "RUNNING"})
  OBVIOUS
<1>2. PICK F : F = s.flags[t] \ {"RUNNABLE", "RUNNING"}
  OBVIOUS
<1>3. Turned(s, b, t, F)
  BY <1>1, <1>2, FlagsTurned DEF Flags
<1>4. b \in Sound /\ b.flags[t] = F
  BY <1>3, MovedOthers
<1>5. ASSUME NEW f \in {"HIBERNATION", "SUSPENDED"}
      PROVE  /\ Turned(s, SetFlags(b, t, {f}), t, F \cup {f})
             /\ Moved(s, list_del_init(SetFlags(b, t, {f}), t), t, F \cup {f}, Off)
  <2>1. PICK h : h = SetFlags(b, t, {f})
    OBVIOUS
  <2>2. Turned(b, h, t, F \cup {f})
    BY <1>4, <2>1, FlagsTurned DEF Flags
  <2>3. Turned(s, h, t, F \cup {f})
    BY <1>3, <2>2, TurnedTurned
  <2>4. h \in Sound /\ h.flags[t] = F \cup {f}
    BY <2>3, MovedOthers
  <2>5. Moved(h, list_del_init(h, t), t, F \cup {f}, Off)
    BY <2>4, UnlinkMoved
  <2> QED BY <2>1, <2>3, <2>5, TurnedMoved
<1>6. /\ s.flags[t] \cap {"SUSPENDED", "SLEEP"} = {} =>
            hibernate(s, t) = list_del_init(SetFlags(b, t, {"HIBERNATION"}), t)
      /\ s.flags[t] \cap {"HIBERNATION", "SLEEP", "JOINING"} = {} =>
            suspend_thread(s, t) = list_del_init(SetFlags(b, t, {"SUSPENDED"}), t)
      /\ s.flags[t] \cap {"HIBERNATION", "SLEEP", "JOINING"} # {} =>
            suspend_thread(s, t) = SetFlags(b, t, {"SUSPENDED"})
  BY <1>1 DEF hibernate, suspend_thread, Has
<1> QED BY <1>2, <1>5, <1>6

\* restore() and wake_suspended_thread(): a thread that waits for nothing else is runnable.
LEMMA RestoreMoved ==
  ASSUME NEW s \in Sound, NEW t \in Threads, \A m \in Lists : ~Contains(s.lists[m], t)
  PROVE  /\ IF s.flags[t] \cap {"SUSPENDED", "SLEEP"} = {}
              THEN Moved(s, restore(s, t), t, (s.flags[t] \ {"HIBERNATION"}) \cup {"RUNNABLE"}, READY)
              ELSE Turned(s, restore(s, t), t, s.flags[t] \ {"HIBERNATION"})
         /\ IF s.flags[t] \cap {"HIBERNATION", "SLEEP", "JOINING"} = {}
              THEN Moved(s, wake_suspended_thread(s, t), t, (s.flags[t] \ {"SUSPENDED"}) \cup {"RUNNABLE"}, READY)
              ELSE Turned(s, wake_suspended_thread(s, t), t, s.flags[t] \ {"SUSPENDED"})
<1>1. ASSUME NEW f \in {"HIBERNATION", "SUSPENDED"}
      PROVE  /\ Turned(s, ClearFlags(s, t, {f}), t, s.flags[t] \ {f})
             /\ Moved(s, make_runnable(ClearFlags(s, t, {f}), t), t, (s.flags[t] \ {f}) \cup {"RUNNABLE"}, READY)
  <2>1. PICK r : r = ClearFlags(s, t, {f})
    OBVIOUS
  <2>2. Turned(s, r, t, s.flags[t] \ {f})
    <3>1. PICK F \in SUBSET Flags : F = {f}
      BY DEF Flags
    <3>2. Turned(s, ClearFlags(s, t, F), t, s.flags[t] \ F)
      BY FlagsTurned
    <3> QED BY <2>1, <3>1, <3>2
  <2>3. r \in Sound /\ r.flags[t] = s.flags[t] \ {f} /\ \A m \in Lists : ~Contains(r.lists[m], t)
    BY <2>2, TurnedParts
  <2>4. Moved(r, make_runnable(r, t), t, (s.flags[t] \ {f}) \cup {"RUNNABLE"}, READY)
    BY <2>3, RunnableMoved
  <2> QED BY <2>1, <2>2, <2>4, TurnedMoved
<1>2. /\ restore(s, t) = IF s.flags[t] \cap {"SUSPENDED", "SLEEP"} = {}
                            THEN make_runnable(ClearFlags(s, t, {"HIBERNATION"}), t)
                            ELSE ClearFlags(s, t, {"HIBERNATION"})
      /\ wake_suspended_thread(s, t) = IF s.flags[t] \cap {"HIBERNATION", "SLEEP", "JOINING"} = {}
                            THEN make_runnable(ClearFlags(s, t, {"SUSPENDED"}), t)
                            ELSE ClearFlags(s, t, {"SUSPENDED"})
  BY DEF restore, wake_suspended_thread, Has
<1>3. /\ Turned(s, ClearFlags(s, t, {"HIBERNATION"}), t, s.flags[t] \ {"HIBERNATION"})
      /\ Moved(s, make_runnable(ClearFlags(s, t, {"HIBERNATION"}), t), t, (s.flags[t] \ {"HIBERNATION"}) \cup {"RUNNABLE"}, READY)
  BY <1>1
<1>4. /\ Turned(s, ClearFlags(s, t, {"SUSPENDED"}), t, s.flags[t] \ {"SUSPENDED"})
      /\ Moved(s, make_runnable(ClearFlags(s, t, {"SUSPENDED"}), t), t, (s.flags[t] \ {"SUSPENDED"}) \cup {"RUNNABLE"}, READY)
  BY <1>1
<1> QED BY <1>2, <1>3, <1>4

\* A thread that is as it was, or woken, after two steps of which one changed it.
LEMMA SameSame ==
  ASSUME NEW s, NEW r, NEW x, NEW u
  PROVE  /\ Same(s, s, u)
         /\ Same(s, r, u) /\ Same(r, x, u) => Same(s, x, u)
         /\ Woken(s, r, u) /\ Same(r, x, u) => Woken(s, x, u)
         /\ Same(s, r, u) /\ Woken(r, x, u) => Woken(s, x, u)
  BY DEF Same, Woken

\* wake() in a state where the thread is linked nowhere unless it is runnable or stopped:
\* the thread is woken or nothing happens.
LEMMA WakeWoken ==
  ASSUME NEW s \in Sound, NEW t \in Threads, "DYING" \notin s.flags[t],
         s.flags[t] \cap {"RUNNABLE", "HIBERNATION", "SUSPENDED"} = {} =>
           \A m \in Lists : ~Contains(s.lists[m], t)
  PROVE  /\ wake(s, t) \in Sound /\ \A u \in Threads \ {t} : Same(s, wake(s, t), u)
         /\ IF s.flags[t] \cap {"RUNNABLE", "HIBERNATION", "SUSPENDED"} = {}
              THEN Woken(s, wake(s, t), t) ELSE wake(s, t) = s
<1>1. CASE s.flags[t] \cap {"RUNNABLE", "HIBERNATION", "SUSPENDED"} = {}
  <2>1. PICK r : r = wake(s, t) /\ Moved(s, r, t, s.flags[t] \cup {"RUNNABLE"}, READY)
    BY <1>1, WakeMoved
  <2>2. r \in Sound /\ r.flags[t] = s.flags[t] \cup {"RUNNABLE"} /\ \A u \in Threads \ {t} : Same(s, r, u)
    BY <2>1, MovedOthers
  <2>3. Woken(s, r, t)
    BY <1>1, <2>1, <2>2 DEF Woken, Moved
  <2> QED BY <1>1, <2>1, <2>2, <2>3
<1>2. CASE s.flags[t] \cap {"RUNNABLE", "HIBERNATION", "SUSPENDED"} # {}
  BY <1>2, WakeMoved, SameSame
<1> QED BY <1>1, <1>2

\* Sleepers whose timeout has passed are woken; nothing else changes.
LEMMA WakeFirstWoken ==
  ASSUME NEW s \in Sound, sleep_queue \in Seq(Threads), NEW n \in 0..Len(sleep_queue),
         \A u \in Threads : Contains(sleep_queue, u) =>
           /\ "DYING" \notin s.flags[u]
           /\ s.flags[u] \cap {"RUNNABLE", "HIBERNATION", "SUSPENDED"} = {} =>
                \A m \in Lists : ~Contains(s.lists[m], u)
  PROVE  /\ WakeFirst(s, n) \in Sound
         /\ \A u \in Threads : \/ Same(s, WakeFirst(s, n), u)
                               \/ Contains(sleep_queue, u) /\ Woken(s, WakeFirst(s, n), u)
<1> DEFINE A == {x \in Sound : \A u \in Threads : Same(s, x, u) \/ (Contains(sleep_queue, u) /\ Woken(s, x, u))}
<1>1. n \in Nat /\ \A i \in 1..n : sleep_queue[i] \in Threads /\ Contains(sleep_queue, sleep_queue[i])
  BY Lengths DEF Contains
<1>2. PICK w : /\ w[0] = s /\ \A i \in 1..n : w[i] = wake(w[i - 1], sleep_queue[i])
               /\ WakeFirst(s, n) = w[n]
  BY WakeFirstSteps, SoundParts
<1>3. s \in A
  BY SameSame
<1>4. ASSUME NEW x \in A, NEW t \in Threads, Contains(sleep_queue, t) PROVE wake(x, t) \in A
  <2>1. x \in Sound /\ (Same(s, x, t) \/ Woken(s, x, t))
    BY <1>4
  <2>2. "DYING" \notin x.flags[t]
        /\ (x.flags[t] \cap {"RUNNABLE", "HIBERNATION", "SUSPENDED"} = {} =>
             Same(s, x, t) /\ \A m \in Lists : ~Contains(x.lists[m], t))
    BY <1>4, <2>1 DEF Same, Woken
  <2>3. PICK y : y = wake(x, t)
    OBVIOUS
  <2>4. y \in Sound /\ (\A u \in Threads \ {t} : Same(x, y, u)) /\
        (IF x.flags[t] \cap {"RUNNABLE", "HIBERNATION", "SUSPENDED"} = {} THEN Woken(x, y, t) ELSE y = x)
    BY <2>1, <2>2, <2>3, WakeWoken
  <2>5. Same(s, y, t) \/ Woken(s, y, t)
    BY <2>1, <2>2, <2>4, SameSame
  <2>6. \A u \in Threads \ {t} : Same(s, y, u) \/ (Contains(sleep_queue, u) /\ Woken(s, y, u))
    BY <1>4, <2>4, SameSame
  <2> QED BY <1>4, <2>3, <2>4, <2>5, <2>6
<1> HIDE DEF A
<1>5. \A i \in 1..n : w[i - 1] \in A => w[i] \in A
  BY <1>1, <1>2, <1>4
<1>6. \A i \in 0..n : w[i] \in A
  BY <1>1, <1>2, <1>3, <1>5, Chain
<1>7. WakeFirst(s, n) \in A
  BY <1>1, <1>2, <1>6
<1> QED BY <1>7 DEF A

\* A thread that stays runnable goes from its place on the ready queue to the tail.
LEMMA RequeueSame ==
  ASSUME NEW s \in Sound, NEW p \in Threads \cup {NoThread},
         p # NoThread /\ "RUNNABLE" \in s.flags[p] => Contains(s.lists[READY], p)
  PROVE  Requeue(s, p) \in Sound /\ Requeue(s, p).flags = s.flags
         /\ \A u \in Threads : Same(s, Requeue(s, p), u)
<1>1. CASE p # NoThread /\ "RUNNABLE" \in s.flags[p]
  <2>1. s.flags \in [Threads -> SUBSET Flags] /\ Proper(s) /\ READY \in Lists
    BY SoundParts DEF Lists
  <2>2. PICK r : r = list_del_init(s, p)
    OBVIOUS
  <2>3. Moved(s, r, p, s.flags[p], Off)
    BY <1>1, <2>2, UnlinkMoved
  <2>4. r \in Sound /\ r.flags[p] = s.flags[p] /\ \A m \in Lists : ~Contains(r.lists[m], p)
    BY <1>1, <2>3, OffIsNoList, MovedOthers DEF Moved
  <2>5. PICK x : x = list_add_tail(r, p, READY)
    OBVIOUS
  <2>6. Moved(r, x, p, s.flags[p], READY)
    BY <1>1, <2>1, <2>4, <2>5, LinkMoved
  <2>7. Moved(s, x, p, s.flags[p], READY)
    BY <1>1, <2>3, <2>6, MovedMoved
  <2>8. x \in Sound /\ x.flags = s.flags
    BY <2>1, <2>7 DEF Moved
  <2>9. \A u \in Threads \ {p} : Same(s, x, u)
    BY <1>1, <2>7, MovedOthers
  <2>10. Same(s, x, p)
    BY <1>1, <2>1, <2>7, <2>8 DEF Same, Moved, Proper
  <2>11. Requeue(s, p) = x
    BY <1>1, <2>2, <2>5 DEF Requeue, Has
  <2> QED BY <2>8, <2>9, <2>10, <2>11
<1>2. CASE ~(p # NoThread /\ "RUNNABLE" \in s.flags[p])
  <2>1. Requeue(s, p) = s
    BY <1>2 DEF Requeue, Has
  <2> QED BY <2>1, SameSame
<1> QED BY <1>1, <1>2

\* A function over 0..n whose steps lead from one set of a series to the next.
LEMMA ChainAlong ==
  ASSUME NEW n \in Nat, NEW w, NEW G, w[0] \in G[0],
         \A i \in 1..n : w[i - 1] \in G[i - 1] => w[i] \in G[i]
  PROVE  w[n] \in G[n]
<1> DEFINE B == {i \in 0..n : w[i] \notin G[i]}
<1>1. SUFFICES ASSUME B # {} PROVE FALSE
  OBVIOUS
<1>2. B \in SUBSET Nat
  OBVIOUS
<1>3. PICK m \in B : \A y \in B : m <= y
  BY <1>1, <1>2, MinIsLeast
<1>4. m \in 1..n /\ m - 1 \in 0..n /\ m - 1 \notin B
  BY <1>3
<1>5. w[m - 1] \in G[m - 1]
  BY <1>4
<1> QED BY <1>3, <1>4, <1>5

\* A thread that is linked is unlinked and woken.
LEMMA UnlinkWoken ==
  ASSUME NEW s \in Sound, NEW t \in Threads,
         s.flags[t] \cap {"DYING", "RUNNABLE", "HIBERNATION", "SUSPENDED"} = {}
  PROVE  /\ wake(list_del_init(s, t), t) \in Sound /\ Woken(s, wake(list_del_init(s, t), t), t)
         /\ \A u \in Threads \ {t} : Same(s, wake(list_del_init(s, t), t), u)
<1>1. PICK r : r = list_del_init(s, t)
  OBVIOUS
<1>2. Moved(s, r, t, s.flags[t], Off)
  BY <1>1, UnlinkMoved
<1>3. r \in Sound /\ r.flags[t] = s.flags[t] /\ \A m \in Lists : ~Contains(r.lists[m], t)
  BY <1>2, OffIsNoList, MovedOthers DEF Moved
<1>4. Moved(r, wake(r, t), t, s.flags[t] \cup {"RUNNABLE"}, READY)
  BY <1>3, WakeMoved
<1>5. Moved(s, wake(r, t), t, s.flags[t] \cup {"RUNNABLE"}, READY)
  BY <1>2, <1>4, MovedMoved
<1>6. wake(r, t) \in Sound /\ wake(r, t).flags[t] = s.flags[t] \cup {"RUNNABLE"}
      /\ \A u \in Threads \ {t} : Same(s, wake(r, t), u)
  BY <1>5, MovedOthers
<1>7. Woken(s, wake(r, t), t)
  BY <1>5, <1>6 DEF Woken, Moved
<1> QED BY <1>1, <1>6, <1>7

\* The joiners of a thread are woken, all of them; nothing else changes.
LEMMA JoinersWoken ==
  ASSUME NEW s \in Sound, NEW t \in Threads,
         \A u \in Threads : Contains(s.lists[t], u) =>
           s.flags[u] \cap {"DYING", "RUNNABLE", "HIBERNATION", "SUSPENDED"} = {}
  PROVE  /\ sched_wake_joiners(s, t) \in Sound
         /\ \A u \in Threads : IF Contains(s.lists[t], u) THEN Woken(s, sched_wake_joiners(s, t), u)
                                                          ELSE Same(s, sched_wake_joiners(s, t), u)
<1>1. PICK q \in Seq(Threads) : q = s.lists[t] /\ Distinct(q)
  BY SoundParts DEF Proper, Lists
<1>2. PICK n \in Nat : n = Len(q)
  BY Lengths
<1>3. \A i \in 1..n : q[i] \in Threads /\ Contains(q, q[i])
  BY <1>2, Lengths DEF Contains
<1>4. PICK w : /\ w[0] = s /\ \A i \in 1..n : w[i] = wake(list_del_init(w[i - 1], q[i]), q[i])
               /\ sched_wake_joiners(s, t) = w[n]
  BY <1>1, <1>2, JoinersSteps, SoundParts
<1> DEFINE G == [i \in 0..n |-> {x \in Sound : \A u \in Threads :
                                   IF \E j \in 1..i : q[j] = u THEN Woken(s, x, u) ELSE Same(s, x, u)}]
<1>5. w[0] \in G[0]
  BY <1>4, SameSame
<1>6. ASSUME NEW i \in 1..n, w[i - 1] \in G[i - 1] PROVE w[i] \in G[i]
  <2>1. PICK x : x = w[i - 1]
    OBVIOUS
  <2>2. i - 1 \in 0..n /\ i \in 0..n /\ i \notin 1..(i - 1) /\ \A j \in 1..i : j \in 1..(i - 1) \/ j = i
    OBVIOUS
  <2>3. x \in Sound /\ \A u \in Threads :
          IF \E j \in 1..(i - 1) : q[j] = u THEN Woken(s, x, u) ELSE Same(s, x, u)
    BY <1>6, <2>1, <2>2
  <2>4. PICK e \in Threads : e = q[i]
    BY <1>3
  <2>5. ~\E j \in 1..(i - 1) : q[j] = e
    BY <1>1, <1>2, <2>4 DEF Distinct
  <2>6. Same(s, x, e) /\ s.flags[e] \cap {"DYING", "RUNNABLE", "HIBERNATION", "SUSPENDED"} = {}
    BY <1>1, <1>3, <2>3, <2>4, <2>5
  <2>7. x.flags[e] \cap {"DYING", "RUNNABLE", "HIBERNATION", "SUSPENDED"} = {}
    BY <2>6 DEF Same
  <2>8. PICK y : y = wake(list_del_init(x, e), e)
    OBVIOUS
  <2>9. y \in Sound /\ Woken(x, y, e) /\ \A u \in Threads \ {e} : Same(x, y, u)
    BY <2>3, <2>7, <2>8, UnlinkWoken
  <2>10. Woken(s, y, e)
    BY <2>6, <2>9, SameSame
  <2>11. \A u \in Threads \ {e} :
           IF \E j \in 1..(i - 1) : q[j] = u THEN Woken(s, y, u) ELSE Same(s, y, u)
    BY <2>3, <2>9, SameSame
  <2>12. \A u \in Threads : (\E j \in 1..i : q[j] = u) <=> u = e \/ \E j \in 1..(i - 1) : q[j] = u
    BY <2>2, <2>4
  <2>13. \A u \in Threads : IF \E j \in 1..i : q[j] = u THEN Woken(s, y, u) ELSE Same(s, y, u)
    BY <2>10, <2>11, <2>12
  <2>14. w[i] = y
    BY <1>4, <2>1, <2>4, <2>8
  <2> QED BY <2>2, <2>9, <2>13, <2>14
<1>7. n \in 0..n /\ G[n] = {x \in Sound : \A u \in Threads :
                                   IF \E j \in 1..n : q[j] = u THEN Woken(s, x, u) ELSE Same(s, x, u)}
  <2>1. n \in 0..n
    OBVIOUS
  <2> QED BY <2>1, Zenon
<1> HIDE DEF G
<1>8. w[n] \in G[n]
  BY <1>5, <1>6, ChainAlong
<1> QED BY <1>1, <1>2, <1>4, <1>7, <1>8 DEF Contains

\* From s to x the threads of E have been freed: they are linked nowhere, and their
\* joiners have been woken.
Freed(s, x, E) ==
  /\ x \in Sound
  /\ \A u \in Threads :
       IF u \in E THEN x.flags[u] = s.flags[u] /\ \A m \in Lists : ~Contains(x.lists[m], u)
       ELSE IF \E f \in E : Contains(s.lists[f], u) THEN Woken(s, x, u) ELSE Same(s, x, u)

\* Freeing one more thread of the dead queue.
LEMMA FreeMore ==
  ASSUME NEW s \in Sound, NEW E \in SUBSET Threads, NEW f \in Threads \ E, NEW x, Freed(s, x, E),
         Contains(s.lists[DEAD], f),
         \A u \in Threads : Contains(s.lists[f], u) =>
           s.flags[u] \cap {"DYING", "RUNNABLE", "HIBERNATION", "SUSPENDED"} = {}
  PROVE  Freed(s, FreeThread(x, f), E \cup {f})
<1>1. x \in Sound /\ Proper(s) /\ DEAD \in Lists /\ READY \in Lists /\ Threads \subseteq Lists
      /\ READY # f /\ READY # DEAD
  BY SoundParts DEF Freed, Lists, READY, DEAD
<1>2. \A e \in Threads, u \in Threads, m \in Lists :
        Contains(s.lists[e], u) /\ Contains(s.lists[m], u) => e = m
  BY <1>1 DEF Proper
<1>3. \A e \in Threads : ~Contains(s.lists[e], f)
  BY <1>1, <1>2
<1>4. Same(s, x, f)
  BY <1>3 DEF Freed
<1>5. PICK y : y = list_del_init(x, f)
  OBVIOUS
<1>6. Moved(x, y, f, x.flags[f], Off)
  BY <1>1, <1>5, UnlinkMoved
<1>7. /\ y \in Sound /\ y.flags[f] = s.flags[f] /\ \A m \in Lists : ~Contains(y.lists[m], f)
      /\ \A u \in Threads \ {f} : Same(x, y, u)
  BY <1>1, <1>4, <1>6, OffIsNoList, MovedOthers DEF Moved, Same
<1>8. ASSUME NEW u \in Threads
      PROVE  Contains(y.lists[f], u) <=> u # f /\ Contains(s.lists[f], u) /\ u \notin E /\ ~\E e \in E : Contains(s.lists[e], u)
  <2>1. CASE u = f
    BY <1>1, <1>7, <2>1
  <2>2. CASE u # f /\ u \in E
    BY <1>1, <1>7, <2>2 DEF Freed, Same
  <2>3. CASE u # f /\ u \notin E /\ \E e \in E : Contains(s.lists[e], u)
    BY <1>1, <1>7, <2>3 DEF Freed, Same, Woken
  <2>4. CASE u # f /\ u \notin E /\ ~\E e \in E : Contains(s.lists[e], u)
    BY <1>1, <1>7, <2>4 DEF Freed, Same
  <2> QED BY <2>1, <2>2, <2>3, <2>4
<1>9. ASSUME NEW u \in Threads, Contains(y.lists[f], u)
      PROVE  y.flags[u] \cap {"DYING", "RUNNABLE", "HIBERNATION", "SUSPENDED"} = {}
  <2>1. u # f /\ Contains(s.lists[f], u) /\ Same(s, x, u)
    BY <1>8, <1>9 DEF Freed
  <2> QED BY <1>7, <2>1 DEF Same
<1>10. PICK z : z = sched_wake_joiners(y, f)
  OBVIOUS
<1>11. z \in Sound /\ \A u \in Threads : IF Contains(y.lists[f], u) THEN Woken(y, z, u) ELSE Same(y, z, u)
  BY <1>7, <1>9, <1>10, JoinersWoken
<1>12. ASSUME NEW u \in Threads
       PROVE  IF u \in E \cup {f} THEN z.flags[u] = s.flags[u] /\ \A m \in Lists : ~Contains(z.lists[m], u)
              ELSE IF \E e \in E \cup {f} : Contains(s.lists[e], u) THEN Woken(s, z, u) ELSE Same(s, z, u)
  <2>1. CASE u = f
    BY <1>7, <1>8, <1>11, <2>1 DEF Same
  <2>2. CASE u # f /\ u \in E
    <3>1. Same(x, y, u) /\ Same(y, z, u)
      BY <1>7, <1>8, <1>11, <2>2
    <3> QED BY <2>2, <3>1 DEF Freed, Same
  <2>3. CASE u # f /\ u \notin E /\ \E e \in E : Contains(s.lists[e], u)
    <3>1. Same(x, y, u) /\ Same(y, z, u) /\ Woken(s, x, u)
      BY <1>7, <1>8, <1>11, <2>3 DEF Freed
    <3>2. Woken(s, z, u)
      BY <3>1, SameSame
    <3> QED BY <2>3, <3>2
  <2>4. CASE u # f /\ u \notin E /\ (~\E e \in E : Contains(s.lists[e], u)) /\ Contains(s.lists[f], u)
    <3>1. Same(x, y, u) /\ Woken(y, z, u) /\ Same(s, x, u)
      BY <1>7, <1>8, <1>11, <2>4 DEF Freed
    <3>2. Woken(s, z, u)
      BY <3>1, SameSame
    <3> QED BY <2>4, <3>2
  <2>5. CASE u # f /\ u \notin E /\ (~\E e \in E : Contains(s.lists[e], u)) /\ ~Contains(s.lists[f], u)
    <3>1. Same(x, y, u) /\ Same(y, z, u) /\ Same(s, x, u)
      BY <1>7, <1>8, <1>11, <2>5 DEF Freed
    <3>2. Same(s, z, u)
      BY <3>1, SameSame
    <3> QED BY <2>5, <3>2
  <2> QED BY <2>1, <2>2, <2>3, <2>4, <2>5
<1> QED BY <1>5, <1>10, <1>11, <1>12 DEF Freed, FreeThread

\* sched_reap_dead(): the dead threads of the processor are freed.
LEMMA ReapFrees ==
  ASSUME k \in Sound, NEW c, NEW D, Reap(c, D), \A u \in D : u \in Threads /\ Contains(k.lists[DEAD], u),
         \A f \in D, u \in Threads : Contains(k.lists[f], u) =>
           k.flags[u] \cap {"DYING", "RUNNABLE", "HIBERNATION", "SUSPENDED"} = {}
  PROVE  Freed(k, k', D)
<1>1. PICK q \in Seq(Threads) : q = k.lists[DEAD] /\ Distinct(q)
  BY SoundParts DEF Proper, Lists
<1>2. PICK n \in Nat : n = Len(q)
  BY Lengths
<1>3. \A i \in 1..n : q[i] \in Threads /\ Contains(q, q[i])
  BY <1>2, Lengths DEF Contains
<1>4. PICK w : /\ w[0] = k
               /\ \A i \in 1..n : w[i] = IF q[i] \in D THEN FreeThread(w[i - 1], q[i]) ELSE w[i - 1]
               /\ k' = w[n]
  <2>1. k \in KStates
    BY SoundParts
  <2>2. PICK w : /\ w[0] = k
                 /\ \A i \in 1..Len(k.lists[DEAD]) :
                      w[i] = IF k.lists[DEAD][i] \in D THEN FreeThread(w[i - 1], k.lists[DEAD][i]) ELSE w[i - 1]
                 /\ k' = w[Len(k.lists[DEAD])]
    BY <2>1, ReapSteps, Zenon
  <2>3. k.lists[DEAD] = q /\ Len(q) = n
    BY <1>1, <1>2
  <2>4. /\ w[0] = k
        /\ \A i \in 1..n : w[i] = IF q[i] \in D THEN FreeThread(w[i - 1], q[i]) ELSE w[i - 1]
        /\ k' = w[n]
    BY <2>2, <2>3, Zenon
  <2> QED BY <2>4
<1> DEFINE E(i) == {u \in D : \E j \in 1..i : q[j] = u}
           G == [i \in 0..n |-> {x \in Sound : Freed(k, x, E(i))}]
<1>5. w[0] \in G[0]
  BY <1>4, SameSame DEF Freed
<1>6. ASSUME NEW i \in 1..n, w[i - 1] \in G[i - 1] PROVE w[i] \in G[i]
  <2>1. PICK x : x = w[i - 1]
    OBVIOUS
  <2>2. i - 1 \in 0..n /\ i \in 0..n /\ i \notin 1..(i - 1) /\ \A j \in 1..i : j \in 1..(i - 1) \/ j = i
    OBVIOUS
  <2>3. PICK d \in SUBSET Threads : d = E(i - 1)
    OBVIOUS
  <2>4. Freed(k, x, d)
    BY <1>6, <2>1, <2>2, <2>3
  <2>5. CASE q[i] \notin D
    <3>1. E(i) = d
      BY <2>2, <2>3, <2>5
    <3>2. w[i] = x
      BY <1>4, <2>1, <2>5
    <3> QED BY <2>2, <2>4, <3>1, <3>2 DEF Freed
  <2>6. CASE q[i] \in D
    <3>1. PICK f \in D : f = q[i]
      BY <2>6
    <3>2. f \notin d
      <4>1. \A j \in 1..(i - 1) : j \in 1..n /\ i \in 1..n /\ j # i
        OBVIOUS
      <4>2. \A j \in 1..(i - 1) : q[j] # q[i]
        BY <1>1, <1>2, <4>1 DEF Distinct
      <4> QED BY <2>3, <3>1, <4>2
    <3>3. E(i) = d \cup {f}
      BY <2>2, <2>3, <3>1
    <3>4. Freed(k, FreeThread(x, f), d \cup {f})
      <4> HIDE DEF E, G
      <4> QED BY <2>4, <3>1, <3>2, FreeMore
    <3>5. w[i] = FreeThread(x, f)
      BY <1>4, <2>1, <3>1
    <3> HIDE DEF E
    <3> QED BY <2>2, <3>3, <3>4, <3>5 DEF Freed
  <2> QED BY <2>5, <2>6
<1>7. n \in 0..n /\ G[n] = {x \in Sound : Freed(k, x, E(n))}
  OBVIOUS
<1>8. E(n) = D
  BY <1>1, <1>2 DEF Contains
<1> HIDE DEF E, G
<1>9. w[n] \in G[n]
  BY <1>5, <1>6, ChainAlong
<1> QED BY <1>4, <1>7, <1>8, <1>9

-----------------------------------------------------------------------------
(* Where the threads are linked: the second inductive invariant *)

\* The steps of a joiner that is on the list of its joinee unless it was woken.
JoinSteps == {"join_flag", "join_sched", "join_clear"}

\* The flags of a thread belong to the step it is at.
FlagsFit(t) ==
  /\ "RUNNABLE" \in k.flags[t] =>
       /\ pc[t] \notin {"none", "sleep_q", "join_add", "exit_dead", "exit_sched", "dead"}
       /\ "HIBERNATION" \notin k.flags[t] /\ "SUSPENDED" \notin k.flags[t]
  /\ "SLEEP" \in k.flags[t] <=> pc[t] \in {"sleep_sched", "sleep_done"}
  /\ "JOINING" \in k.flags[t] <=> pc[t] \in {"join_sched", "join_clear"}
  /\ "DYING" \in k.flags[t] <=> pc[t] \in {"exit_sched", "dead"}
  /\ "HIBERNATION" \in k.flags[t] \/ "SUSPENDED" \in k.flags[t] => pc[t] \in {"run", "yield", "hib_sched"}

\* So does the list it is linked on.
PlaceFits(t) ==
  /\ Contains(k.lists[READY], t) <=> "RUNNABLE" \in k.flags[t]
  /\ Contains(k.lists[DEAD], t) => pc[t] \in {"exit_sched", "dead"} /\ t \in thread_list
  /\ \A u \in Threads : Contains(k.lists[u], t) => pc[t] \in JoinSteps /\ target[t] = u /\ u \in thread_list

\* A thread has woken the joiner t and is about to mark it as cancelled.
Marking(t) == \E v \in Threads : pc[v] = "cancel_mark" /\ target[v] = t

\* A joiner is on the list of its joinee until that has ended or the joiner is cancelled.
JoinFits(t) ==
  /\ pc[t] \in JoinSteps \cup {"join_lock", "join_add"} => target[t] \in Threads
  /\ pc[t] \in JoinSteps =>
       IF "RUNNABLE" \in k.flags[t] THEN Ended(target[t]) \/ "CANCELLED" \in k.flags[t] \/ Marking(t)
                                    ELSE Contains(k.lists[target[t]], t)
  /\ pc[t] = "join_add" => target[t] \in thread_list /\ dead_lock = t

\* Only sleepers have timeouts, and only ended threads have been reaped.
LifeFits(t) ==
  /\ Contains(sleep_queue, t) => pc[t] \in {"sleep_sched", "sleep_done"}
  /\ t \notin thread_list => pc[t] \in {"none", "exit_sched", "dead"}
  /\ pc[t] = "none" => t \notin thread_list

\* A thread is in a call the workload has.
CallFits(t) ==
  /\ pc[t] \in {"sleep_q", "sleep_sched", "sleep_done"} => "sleep" \in workload.ops
  /\ pc[t] \in JoinSteps \cup {"join_lock", "join_add"} => "join" \in workload.ops
  /\ pc[t] \in {"exit_dead", "exit_sched", "dead"} => "exit" \in workload.ops
  /\ pc[t] \in {"cancel_do", "cancel_mark"} => "cancel" \in workload.ops
  /\ pc[t] = "susp_do" => "suspend" \in workload.ops

ThreadFits(t) == FlagsFit(t) /\ PlaceFits(t) /\ JoinFits(t) /\ LifeFits(t) /\ CallFits(t)

\* A joiner that is to be cancelled is still in schedule() or past it, with JOINING_FLAG
\* set, and one thread cancels it.
CancelFits(t) ==
  pc[t] \in {"cancel_do", "cancel_mark"} =>
    /\ "JOINING" \in k.flags[target[t]] /\ "CANCELLED" \notin k.flags[target[t]]
    /\ \A u \in Threads : pc[u] \in {"cancel_do", "cancel_mark"} /\ target[u] = target[t] => u = t

\* A thread to be suspended has not ended.
SuspendFits(t) == pc[t] = "susp_do" => target[t] \in Threads /\ Alive(target[t])

\* A thread that cannot be preempted is executing, until it has exited.
Pinned(t) ==
  pc[t] \in {"join_add", "sleep_q", "exit_dead", "susp_do"} => \E c \in Cpus : current[c] = t /\ mode[c] = "exec"

\* Steps at which a thread executes with RUNNABLE_FLAG and RUNNING_FLAG set.
Executing == {"run", "join_lock", "join_clear", "sleep_done", "cancel_do", "cancel_mark", "susp_do", "none", "dead"}

\* The thread a processor has chosen and the one it executes are runnable and marked
\* as running.
CpuFits(c) ==
  /\ mode[c] \in {"exec", "pick", "reap"} => next[c] = NoThread /\ prev[c] = NoThread
  /\ mode[c] = "switch" => prev[c] = NoThread
  /\ mode[c] \in {"switch_in", "store"} => next[c] = NoThread /\ (prev[c] # NoThread => prev[c] # current[c])
  /\ mode[c] = "reap" => current[c] = NoThread
  /\ mode[c] = "store" => Solo /\ prev[c] # NoThread /\ saved[c] = k.flags[prev[c]]
  /\ next[c] # NoThread => {"RUNNABLE", "RUNNING"} \subseteq k.flags[next[c]]
  /\ current[c] # NoThread => current[c] \in thread_list
  /\ current[c] # NoThread /\ (mode[c] \in {"switch_in", "store"} \/ (mode[c] = "exec" /\ pc[current[c]] \in Executing))
       => {"RUNNABLE", "RUNNING"} \subseteq k.flags[current[c]]

\* The second inductive invariant.
LinksInv ==
  /\ k \in Sound /\ Distinct(sleep_queue)
  /\ \A t \in Threads : ThreadFits(t) /\ CancelFits(t) /\ SuspendFits(t) /\ Pinned(t)
  /\ \A c \in Cpus : CpuFits(c)
  /\ Careful(workload)

-----------------------------------------------------------------------------
(* Threads a step does not concern *)

\* A thread stays at its step or enters schedule().
Goes(u) == pc'[u] = pc[u] \/ (pc[u] \in DOMAIN AfterSchedule /\ pc'[u] = AfterSchedule[pc[u]])

\* Whoever is about to mark u still is.
MarkStays(u) == Marking(u) => Marking(u)'

\* A thread stays where it is, or is woken from its sleep or because its joinee has
\* ended; or it enters schedule().
Stays(u) ==
  /\ \/ Same(k, k', u)
     \/ Woken(k, k', u) /\ pc[u] \in {"sleep_sched", "sleep_done"}
     \/ Woken(k, k', u) /\ pc[u] \in JoinSteps /\ pc'[target[u]] \in {"exit_dead", "exit_sched", "dead"}
  /\ Goes(u)
  /\ target'[u] = target[u]
  /\ Contains(sleep_queue', u) => Contains(sleep_queue, u)
  /\ u \in thread_list' <=> u \in thread_list
  /\ workload'.ops = workload.ops
  /\ target[u] \in Threads /\ Ended(target[u]) => pc'[target[u]] \in {"exit_dead", "exit_sched", "dead"}
  /\ pc[u] = "join_add" => target[u] \in thread_list' /\ dead_lock' = dead_lock
  /\ \A v \in Threads : Contains(k'.lists[v], u) => v \in thread_list'
  /\ MarkStays(u)

\* The step a thread enters schedule() from allows what the one after it does.
LEMMA AfterNames ==
  ASSUME NEW s \in DOMAIN AfterSchedule
  PROVE  \/ s = "yield" /\ AfterSchedule[s] = "run"
         \/ s = "join_sched" /\ AfterSchedule[s] = "join_clear"
         \/ s = "sleep_sched" /\ AfterSchedule[s] = "sleep_done"
         \/ s = "hib_sched" /\ AfterSchedule[s] = "run"
         \/ s = "exit_sched" /\ AfterSchedule[s] = "dead"
  BY DEF AfterSchedule

\* Such a thread fits as before.
LEMMA StaysFits ==
  ASSUME SchedInv, NEW u \in Threads, ThreadFits(u), Stays(u)
  PROVE  ThreadFits(u)'
<1>1. /\ READY \in Lists /\ DEAD \in Lists /\ Threads \subseteq Lists /\ READY # DEAD
      /\ READY \notin Threads /\ DEAD \notin Threads
  BY DEF Lists, READY, DEAD
<1>2. PICK p, q : p = pc[u] /\ q = pc'[u]
  OBVIOUS
<1>3. \/ q = p
      \/ p = "yield" /\ q = "run"
      \/ p = "join_sched" /\ q = "join_clear"
      \/ p = "sleep_sched" /\ q = "sleep_done"
      \/ p = "hib_sched" /\ q = "run"
      \/ p = "exit_sched" /\ q = "dead"
  BY <1>2, AfterNames DEF Stays, Goes
<1>4. PICK F, G : F = k.flags[u] /\ G = k'.flags[u]
  OBVIOUS
<1>5. \/ Same(k, k', u)
      \/ Woken(k, k', u) /\ p \in {"sleep_sched", "sleep_done", "join_flag", "join_sched", "join_clear"}
  BY <1>2 DEF Stays, JoinSteps
<1>6. \/ G = F
      \/ /\ G = F \cup {"RUNNABLE"}
         /\ p \in {"sleep_sched", "sleep_done", "join_flag", "join_sched", "join_clear"}
  <2>1. CASE Same(k, k', u)
    BY <1>4, <2>1 DEF Same
  <2>2. CASE Woken(k, k', u)
    <3>1. G = F \cup {"RUNNABLE"} /\ "RUNNABLE" \notin F
      BY <1>4, <2>2, Zenon DEF Woken
    <3>2. CASE Same(k, k', u)
      BY <1>4, <3>2 DEF Same
    <3> QED BY <1>5, <3>1, <3>2
  <2> QED BY <1>5, <2>1, <2>2
<1>7. FlagsFit(u)'
  <2>1. /\ "RUNNABLE" \in F =>
             /\ p \notin {"none", "sleep_q", "join_add", "exit_dead", "exit_sched", "dead"}
             /\ "HIBERNATION" \notin F /\ "SUSPENDED" \notin F
        /\ "SLEEP" \in F <=> p \in {"sleep_sched", "sleep_done"}
        /\ "JOINING" \in F <=> p \in {"join_sched", "join_clear"}
        /\ "DYING" \in F <=> p \in {"exit_sched", "dead"}
        /\ "HIBERNATION" \in F \/ "SUSPENDED" \in F => p \in {"run", "yield", "hib_sched"}
    BY <1>2, <1>4 DEF ThreadFits, FlagsFit
  <2>2. /\ "RUNNABLE" \in G =>
             /\ q \notin {"none", "sleep_q", "join_add", "exit_dead", "exit_sched", "dead"}
             /\ "HIBERNATION" \notin G /\ "SUSPENDED" \notin G
        /\ "SLEEP" \in G <=> q \in {"sleep_sched", "sleep_done"}
        /\ "JOINING" \in G <=> q \in {"join_sched", "join_clear"}
        /\ "DYING" \in G <=> q \in {"exit_sched", "dead"}
        /\ "HIBERNATION" \in G \/ "SUSPENDED" \in G => q \in {"run", "yield", "hib_sched"}
    BY <1>3, <1>6, <2>1
  <2> QED BY <1>2, <1>4, <2>2 DEF FlagsFit
<1>8. PlaceFits(u)'
  <2>1. /\ Contains(k.lists[READY], u) <=> "RUNNABLE" \in F
        /\ Contains(k.lists[DEAD], u) => p \in {"exit_sched", "dead"} /\ u \in thread_list
        /\ \A v \in Threads : Contains(k.lists[v], u) => p \in JoinSteps /\ target[u] = v /\ v \in thread_list
    BY <1>2, <1>4 DEF ThreadFits, PlaceFits
  <2>2. Contains(k'.lists[READY], u) <=> "RUNNABLE" \in G
    BY <1>1, <1>4, <1>5, <2>1 DEF Same, Woken
  <2>3. /\ Contains(k'.lists[DEAD], u) => Contains(k.lists[DEAD], u)
        /\ \A v \in Threads : Contains(k'.lists[v], u) => Contains(k.lists[v], u)
    BY <1>1, <1>5 DEF Same, Woken
  <2>4. Contains(k'.lists[DEAD], u) => q \in {"exit_sched", "dead"} /\ u \in thread_list'
    BY <1>3, <2>1, <2>3 DEF Stays
  <2>5. \A v \in Threads : Contains(k'.lists[v], u) => q \in JoinSteps /\ target'[u] = v /\ v \in thread_list'
    BY <1>3, <2>1, <2>3 DEF Stays, JoinSteps
  <2> QED BY <1>2, <1>4, <2>2, <2>4, <2>5 DEF PlaceFits
<1>9. JoinFits(u)'
  <2>1. /\ p \in JoinSteps \cup {"join_lock", "join_add"} => target[u] \in Threads
        /\ p \in JoinSteps =>
             IF "RUNNABLE" \in F THEN Ended(target[u]) \/ "CANCELLED" \in F \/ Marking(u)
                                 ELSE Contains(k.lists[target[u]], u)
        /\ p = "join_add" => target[u] \in thread_list /\ dead_lock = u
    BY <1>2, <1>4 DEF ThreadFits, JoinFits
  <2>2. target'[u] = target[u] /\ (q \in JoinSteps \cup {"join_lock", "join_add"} <=> p \in JoinSteps \cup {"join_lock", "join_add"})
        /\ (q \in JoinSteps <=> p \in JoinSteps) /\ (q = "join_add" => p = "join_add")
    BY <1>3 DEF Stays, JoinSteps
  <2>3. q = "join_add" => target'[u] \in thread_list' /\ dead_lock' = u
    BY <1>2, <2>1, <2>2 DEF Stays
  <2>4. ASSUME q \in JoinSteps
        PROVE  IF "RUNNABLE" \in G THEN \/ pc'[target[u]] \in {"exit_dead", "exit_sched", "dead"}
                                        \/ "CANCELLED" \in G \/ Marking(u)'
                                   ELSE Contains(k'.lists[target[u]], u)
    <3>1. target[u] \in Threads /\ p \in JoinSteps
      BY <2>1, <2>2, <2>4
    <3>2. CASE Same(k, k', u)
      BY <1>1, <1>4, <2>1, <3>1, <3>2 DEF Same, Stays, MarkStays
    <3>3. CASE Woken(k, k', u)
      BY <1>2, <1>4, <3>1, <3>3 DEF Same, Woken, Stays, JoinSteps
    <3> QED BY <1>5, <3>2, <3>3
  <2> QED BY <1>2, <1>4, <2>1, <2>2, <2>3, <2>4 DEF JoinFits, Ended
<1>10. LifeFits(u)' /\ CallFits(u)'
  <2>1. /\ Contains(sleep_queue, u) => p \in {"sleep_sched", "sleep_done"}
        /\ u \notin thread_list => p \in {"none", "exit_sched", "dead"}
        /\ p = "none" => u \notin thread_list
    BY <1>2 DEF ThreadFits, LifeFits
  <2>2. LifeFits(u)'
    BY <1>2, <1>3, <2>1 DEF LifeFits, Stays
  <2>3. /\ p \in {"sleep_q", "sleep_sched", "sleep_done"} => "sleep" \in workload.ops
        /\ p \in JoinSteps \cup {"join_lock", "join_add"} => "join" \in workload.ops
        /\ p \in {"exit_dead", "exit_sched", "dead"} => "exit" \in workload.ops
        /\ p \in {"cancel_do", "cancel_mark"} => "cancel" \in workload.ops
        /\ p = "susp_do" => "suspend" \in workload.ops
    BY <1>2 DEF ThreadFits, CallFits
  <2>4. CallFits(u)'
    BY <1>2, <1>3, <2>3 DEF CallFits, Stays, JoinSteps
  <2> QED BY <2>2, <2>4
<1> QED BY <1>7, <1>8, <1>9, <1>10 DEF ThreadFits

-----------------------------------------------------------------------------
(* Steps of a thread *)

\* With one processor up the others are idle.
LEMMA OthersIdle ==
  ASSUME SchedInv, Solo, NEW c \in Cpus, current[c] # NoThread \/ mode[c] # "exec", NEW d \in Cpus \ {c}
  PROVE  mode[d] = "exec" /\ current[d] = NoThread /\ next[d] = NoThread /\ prev[d] = NoThread
<1>1. c \in workload.cpus
  BY DEF SchedInv, SIdle
<1>2. d \notin workload.cpus
  BY <1>1 DEF Solo
<1> QED BY <1>2 DEF SchedInv, SIdle

\* A thread does not lose RUNNABLE_FLAG or RUNNING_FLAG.
KeepsRunning(u) == \A f \in {"RUNNABLE", "RUNNING"} : f \in k.flags[u] => f \in k'.flags[u]

\* A step of a thread leaves the processors as they were, and those who cannot be
\* preempted where they execute.
LEMMA ThreadCpus ==
  ASSUME SchedInv, LinksInv, NEW c \in Cpus, NEW t \in Threads, current[c] = t, mode[c] = "exec",
         UNCHANGED cpuVars, workload'.cpus = workload.cpus, \A u \in thread_list : u \in thread_list',
         \A u \in Threads \ {t} : Solo \/ KeepsRunning(u),
         \A u \in Threads \ {t} : pc'[u] = pc[u] \/ (u \notin thread_list /\ pc'[u] = "run"),
         pc'[t] \in Executing => {"RUNNABLE", "RUNNING"} \subseteq k'.flags[t]
  PROVE  (\A d \in Cpus : CpuFits(d)') /\ \A u \in Threads : Pinned(u)'
<1>1. UNCHANGED <<cpu, current, mode, next, prev, saved>> /\ (Solo' <=> Solo)
  BY DEF cpuVars, Solo
<1>2. \A d \in Cpus : CpuFits(d)
  BY DEF LinksInv
<1>3. CpuFits(c)'
  BY <1>1, <1>2 DEF CpuFits
<1>4. ASSUME NEW d \in Cpus, d # c PROVE CpuFits(d)'
  <2>1. CASE Solo
    <3>1. mode[d] = "exec" /\ current[d] = NoThread /\ next[d] = NoThread /\ prev[d] = NoThread
      BY <1>4, <2>1, OthersIdle
    <3> QED BY <1>1, <3>1 DEF CpuFits
  <2>2. CASE ~Solo
    <3>1. cpu[t] = c
      BY DEF SchedInv, SPlaces
    <3>2. current[d] # NoThread => current[d] \in Threads \ {t}
      BY <1>4, <3>1 DEF SchedInv, SPlaces, STypeOK
    <3>3. next[d] # NoThread => next[d] \in Threads \ {t}
      BY <1>4, <3>1 DEF SchedInv, SPlaces, STypeOK
    <3>4. /\ next[d] # NoThread => {"RUNNABLE", "RUNNING"} \subseteq k'.flags[next[d]]
      BY <1>2, <2>2, <3>3 DEF CpuFits, KeepsRunning
    <3>5. current[d] # NoThread => current[d] \in thread_list' /\ pc'[current[d]] = pc[current[d]]
      BY <1>2, <3>2 DEF CpuFits
    <3>6. current[d] # NoThread /\ (mode[d] \in {"switch_in", "store"} \/ (mode[d] = "exec" /\ pc[current[d]] \in Executing))
            => {"RUNNABLE", "RUNNING"} \subseteq k'.flags[current[d]]
      BY <1>2, <2>2, <3>2 DEF CpuFits, KeepsRunning
    <3>7. mode[d] # "store"
      BY <1>2, <2>2 DEF CpuFits
    <3>8. /\ mode[d] \in {"exec", "pick", "reap"} => next[d] = NoThread /\ prev[d] = NoThread
          /\ mode[d] = "switch" => prev[d] = NoThread
          /\ mode[d] \in {"switch_in", "store"} => next[d] = NoThread /\ (prev[d] # NoThread => prev[d] # current[d])
          /\ mode[d] = "reap" => current[d] = NoThread
      BY <1>2 DEF CpuFits
    <3> QED BY <1>1, <3>4, <3>5, <3>6, <3>7, <3>8 DEF CpuFits
  <2> QED BY <2>1, <2>2
<1>5. ASSUME NEW u \in Threads PROVE Pinned(u)'
  <2>1. CASE u = t
    BY <1>1, <2>1 DEF Pinned
  <2>2. CASE u # t
    BY <1>1, <2>2 DEF Pinned, LinksInv
  <2> QED BY <2>1, <2>2
<1> QED BY <1>3, <1>4, <1>5

\* Threads keep JOINING_FLAG and are not cancelled.
KeepsJoining(u) ==
  "JOINING" \in k.flags[u] /\ "CANCELLED" \notin k.flags[u] => "JOINING" \in k'.flags[u] /\ "CANCELLED" \notin k'.flags[u]

\* Threads being cancelled and suspended are as before in a step of a thread that starts
\* neither.
LEMMA ThreadCalls ==
  ASSUME SchedInv, LinksInv, NEW c \in Cpus, NEW t \in Threads, current[c] = t, mode[c] = "exec",
         \A u \in Threads \ {t} : pc'[u] = pc[u] \/ pc'[u] = "run",
         \A u \in Threads \ {t} : target'[u] = target[u],
         pc'[t] \notin {"cancel_do", "cancel_mark", "susp_do"},
         \A v \in Threads \ {t} : pc[v] \in {"cancel_do", "cancel_mark"} => KeepsJoining(target[v])
  PROVE  \A u \in Threads : CancelFits(u)' /\ SuspendFits(u)'
<1> TAKE u \in Threads
<1>1. CancelFits(u)'
  <2>1. CancelFits(u)
    BY DEF LinksInv
  <2>2. CASE u = t
    BY <2>2 DEF CancelFits
  <2>3. CASE u # t
    <3>1. SUFFICES ASSUME pc'[u] \in {"cancel_do", "cancel_mark"}
          PROVE  /\ "JOINING" \in k'.flags[target'[u]] /\ "CANCELLED" \notin k'.flags[target'[u]]
                 /\ \A v \in Threads : pc'[v] \in {"cancel_do", "cancel_mark"} /\ target'[v] = target'[u] => v = u
      BY DEF CancelFits
    <3>2. pc[u] \in {"cancel_do", "cancel_mark"} /\ target'[u] = target[u]
      BY <2>3, <3>1
    <3>3. KeepsJoining(target[u])
      BY <2>3, <3>2
    <3>4. "JOINING" \in k'.flags[target[u]] /\ "CANCELLED" \notin k'.flags[target[u]]
      BY <2>1, <3>2, <3>3 DEF CancelFits, KeepsJoining
    <3>5. ASSUME NEW v \in Threads, pc'[v] \in {"cancel_do", "cancel_mark"}, target'[v] = target'[u] PROVE v = u
      <4>1. v # t
        BY <3>5
      <4>2. pc[v] \in {"cancel_do", "cancel_mark"} /\ target[v] = target[u]
        BY <3>2, <3>5, <4>1
      <4> QED BY <2>1, <3>2, <4>2 DEF CancelFits
    <3> QED BY <3>2, <3>4, <3>5
  <2> QED BY <2>2, <2>3
<1>2. SuspendFits(u)'
  <2>1. SUFFICES ASSUME u # t, pc'[u] = "susp_do" PROVE FALSE
    BY DEF SuspendFits
  <2>2. pc[u] = "susp_do" /\ Pinned(u)
    BY <2>1 DEF LinksInv
  <2>3. Solo
    BY <2>2 DEF SchedInv, SSteps
  <2>4. PICK d \in Cpus : current[d] = u
    BY <2>2 DEF Pinned
  <2>5. d # c /\ u # NoThread
    BY <2>1, <2>4
  <2> QED BY <2>3, <2>4, <2>5, OthersIdle
<1> QED BY <1>1, <1>2

\* What the behaviour's workload permits does not change.
WorkStays ==
  workload'.cpus = workload.cpus /\ workload'.ops = workload.ops /\ workload'.atomic = workload.atomic

\* A step that leaves the threads outside A where they are and after which those in A fit.
LEMMA ThreadStepKept ==
  ASSUME SchedInv, LinksInv, NEW c \in Cpus, NEW t \in Threads, current[c] = t, mode[c] = "exec",
         UNCHANGED cpuVars, WorkStays, k' \in Sound, Distinct(sleep_queue'), thread_list \subseteq thread_list',
         NEW A \in SUBSET Threads, t \in A,
         \A u \in Threads \ A : Stays(u) /\ pc'[u] = pc[u],
         \A u \in A : ThreadFits(u)',
         \A u \in A \ {t} : /\ Solo \/ KeepsRunning(u)
                            /\ pc'[u] = pc[u] \/ (u \notin thread_list /\ pc'[u] = "run"),
         pc'[t] \in Executing => {"RUNNABLE", "RUNNING"} \subseteq k'.flags[t],
         \A u \in Threads : CancelFits(u)' /\ SuspendFits(u)'
  PROVE  LinksInv'
<1>1. ASSUME NEW u \in Threads \ A PROVE KeepsRunning(u)
  BY DEF Stays, Same, Woken, KeepsRunning
<1>2. \A u \in Threads \ {t} : Solo \/ KeepsRunning(u)
  BY <1>1
<1>3. \A u \in Threads \ {t} : pc'[u] = pc[u] \/ (u \notin thread_list /\ pc'[u] = "run")
  OBVIOUS
<1>4. (\A d \in Cpus : CpuFits(d)') /\ \A u \in Threads : Pinned(u)'
  BY <1>2, <1>3, ThreadCpus DEF WorkStays
<1>5. ASSUME NEW u \in Threads PROVE ThreadFits(u)'
  <2>1. CASE u \in A
    BY <2>1
  <2>2. CASE u \notin A
    BY <2>2, StaysFits DEF LinksInv
  <2> QED BY <2>1, <2>2
<1>6. Careful(workload)'
  BY DEF LinksInv, Careful, WorkStays
<1> QED BY <1>4, <1>5, <1>6 DEF LinksInv

\* A step that moves thread t alone, and neither cancels nor suspends.
LEMMA LoneStepKept ==
  ASSUME SchedInv, LinksInv, NEW c \in Cpus, NEW t \in Threads, current[c] = t, mode[c] = "exec",
         UNCHANGED cpuVars, WorkStays, k' \in Sound, Distinct(sleep_queue'), UNCHANGED thread_list,
         \A u \in Threads \ {t} : /\ Same(k, k', u)
                                  /\ Contains(sleep_queue', u) => Contains(sleep_queue, u)
                                  /\ target'[u] = target[u],
         NEW s \in Steps \ {"cancel_do", "cancel_mark", "susp_do"}, pc' = [pc EXCEPT ![t] = s],
         pc[t] # "cancel_mark",
         dead_lock' = dead_lock \/ dead_lock \in {NoThread, t},
         Ended(t) => s \in {"exit_dead", "exit_sched", "dead"},
         s \in Executing => {"RUNNABLE", "RUNNING"} \subseteq k'.flags[t],
         \A v \in Threads \ {t} : pc[v] \in {"cancel_do", "cancel_mark"} /\ target[v] = t => KeepsJoining(t),
         ThreadFits(t)'
  PROVE  LinksInv'
<1>1. pc \in [Threads -> Steps] /\ target \in [Threads -> Threads \cup {NoThread}]
  BY DEF SchedInv, STypeOK
<1>2. pc'[t] = s /\ \A u \in Threads \ {t} : pc'[u] = pc[u]
  BY <1>1
<1>3. ASSUME NEW u \in Threads \ {t} PROVE Stays(u)
  <2>1. ThreadFits(u)
    BY DEF LinksInv
  <2>2. target[u] \in Threads /\ Ended(target[u]) => pc'[target[u]] \in {"exit_dead", "exit_sched", "dead"}
    <3>1. CASE target[u] = t
      BY <1>2, <3>1
    <3>2. CASE target[u] # t
      BY <1>2, <3>2 DEF Ended
    <3> QED BY <3>1, <3>2
  <2>3. pc[u] = "join_add" => target[u] \in thread_list' /\ dead_lock' = dead_lock
    BY <2>1 DEF ThreadFits, JoinFits
  <2>4. Threads \subseteq Lists
    BY DEF Lists
  <2>5. \A v \in Threads : Contains(k'.lists[v], u) => v \in thread_list'
    BY <2>1, <2>4 DEF ThreadFits, PlaceFits, Same
  <2>6. MarkStays(u)
    BY <1>2 DEF MarkStays, Marking
  <2> QED BY <1>2, <2>2, <2>3, <2>5, <2>6 DEF Stays, Goes, WorkStays
<1>4. ASSUME NEW v \in Threads \ {t}, pc[v] \in {"cancel_do", "cancel_mark"} PROVE KeepsJoining(target[v])
  <2>1. CASE target[v] = t
    BY <1>4, <2>1
  <2>2. CASE target[v] # t
    <3>1. target[v] \in Threads \ {t}
      BY <1>4, <2>2 DEF SchedInv, SSteps
    <3> QED BY <3>1 DEF KeepsJoining, Same
  <2> QED BY <2>1, <2>2
<1>5. \A u \in Threads : CancelFits(u)' /\ SuspendFits(u)'
  BY <1>2, <1>4, ThreadCalls
<1> QED
  <2>1. thread_list \subseteq thread_list' /\ {t} \in SUBSET Threads /\ t \in {t}
    OBVIOUS
  <2>2. \A u \in Threads \ {t} : Stays(u) /\ pc'[u] = pc[u]
    BY <1>2, <1>3
  <2>3. pc'[t] \in Executing => {"RUNNABLE", "RUNNING"} \subseteq k'.flags[t]
    BY <1>2
  <2>4. \A u \in {t} : ThreadFits(u)'
    OBVIOUS
  <2> QED BY <1>5, <2>1, <2>2, <2>3, <2>4, ThreadStepKept

\* A thread executing "run" is runnable, linked on the ready queue, and in no call.
LEMMA RunningThread ==
  ASSUME SchedInv, LinksInv, NEW c \in Cpus, NEW t \in Threads, current[c] = t, mode[c] = "exec",
         pc[t] \in {"run", "join_lock", "join_clear", "sleep_done", "cancel_do", "cancel_mark", "susp_do"}
  PROVE  /\ "RUNNABLE" \in k.flags[t] /\ "RUNNING" \in k.flags[t]
         /\ "HIBERNATION" \notin k.flags[t] /\ "SUSPENDED" \notin k.flags[t] /\ "DYING" \notin k.flags[t]
         /\ "SLEEP" \in k.flags[t] <=> pc[t] = "sleep_done"
         /\ "JOINING" \in k.flags[t] <=> pc[t] = "join_clear"
         /\ k \in Sound /\ t \in thread_list
         /\ \A m \in Lists : Contains(k.lists[m], t) => m = READY
         /\ Contains(sleep_queue, t) => pc[t] = "sleep_done"
         /\ pc[t] = "join_clear" => target[t] \in Threads /\ (Ended(target[t]) \/ "CANCELLED" \in k.flags[t] \/ Marking(t))
<1>1. CpuFits(c) /\ ThreadFits(t) /\ k \in Sound
  BY DEF LinksInv
<1>2. {"RUNNABLE", "RUNNING"} \subseteq k.flags[t] /\ t \in thread_list
  BY <1>1 DEF CpuFits, Executing
<1>3. READY \in Lists
  BY DEF Lists
<1>4. Contains(k.lists[READY], t)
  BY <1>1, <1>2 DEF ThreadFits, PlaceFits
<1>5. \A m \in Lists : Contains(k.lists[m], t) => m = READY
  BY <1>1, <1>3, <1>4, SoundParts DEF Proper
<1> QED BY <1>1, <1>2, <1>5 DEF ThreadFits, FlagsFit, JoinFits, LifeFits, JoinSteps

\* The calls and the steps within a call.
LEMMA CallStays ==
  ASSUME SchedInv, NEW c \in Cpus, NEW t \in Threads, NEW op, Calls(c, t, op)
  PROVE  /\ WorkStays /\ current[c] = t /\ mode[c] = "exec" /\ pc[t] = "run" /\ op \in workload.ops
         /\ UNCHANGED cpuVars
<1>1. workload' = [workload EXCEPT !.calls[t] = workload.calls[t] - 1] /\ workload \in WorkloadType
  BY DEF Calls, SchedInv, STypeOK
<1>2. WorkStays
  BY <1>1 DEF WorkStays, WorkloadType
<1> QED BY <1>2 DEF Calls, At

\* A step within a call.
LEMMA ContinueStays ==
  ASSUME NEW c, NEW t, NEW s, Continues(c, t, s)
  PROVE  WorkStays /\ current[c] = t /\ mode[c] = "exec" /\ pc[t] = s /\ UNCHANGED cpuVars
  BY DEF Continues, At, WorkStays

\* nanosleep up to the sleep queue.
LEMMA NanosleepLinks ==
  ASSUME SchedInv, LinksInv, NEW c \in Cpus, NEW t \in Threads, nanosleep(c, t)
  PROVE  LinksInv'
<1>1. /\ Calls(c, t, "sleep") /\ k' = block(k, t) /\ pc' = [pc EXCEPT ![t] = "sleep_q"]
      /\ UNCHANGED <<sleep_queue, thread_list, target, dead_lock>>
  BY DEF nanosleep, GoTo, lockVars
<1>2. /\ WorkStays /\ current[c] = t /\ mode[c] = "exec" /\ pc[t] = "run" /\ "sleep" \in workload.ops
      /\ UNCHANGED cpuVars
  BY <1>1, CallStays
<1>3. PICK F : F = k.flags[t]
  OBVIOUS
<1>4. /\ "RUNNABLE" \in F /\ "HIBERNATION" \notin F /\ "SUSPENDED" \notin F /\ "DYING" \notin F
      /\ "SLEEP" \notin F /\ "JOINING" \notin F /\ k \in Sound /\ t \in thread_list /\ ~Contains(sleep_queue, t)
  BY <1>2, <1>3, RunningThread
<1>5. Moved(k, k', t, F \ {"RUNNABLE"}, Off)
  BY <1>1, <1>3, <1>4, BlockMoved
<1>6. /\ k' \in Sound /\ k'.flags[t] = F \ {"RUNNABLE"} /\ \A u \in Threads \ {t} : Same(k, k', u)
      /\ \A m \in Lists : ~Contains(k'.lists[m], t)
  BY <1>4, <1>5, MovedParts
<1>7. pc'[t] = "sleep_q" /\ "sleep_q" \in Steps \ {"cancel_do", "cancel_mark", "susp_do"}
  BY <1>1, StepNames DEF SchedInv, STypeOK
<1>8. ThreadFits(t)'
  BY <1>1, <1>2, <1>4, <1>6, <1>7
     DEF ThreadFits, FlagsFit, PlaceFits, JoinFits, LifeFits, CallFits, JoinSteps, WorkStays, Lists
<1>9. KeepsJoining(t) /\ Distinct(sleep_queue')
  BY <1>1, <1>3, <1>4 DEF KeepsJoining, LinksInv
<1>10. \A u \in Threads \ {t} : /\ Same(k, k', u)
                                /\ Contains(sleep_queue', u) => Contains(sleep_queue, u)
                                /\ target'[u] = target[u]
  BY <1>1, <1>6
<1>11. ~Ended(t) /\ "sleep_q" \notin Executing
  BY <1>2 DEF Ended, Executing
<1> QED BY <1>1, <1>2, <1>6, <1>7, <1>8, <1>9, <1>10, <1>11, LoneStepKept

\* A thread that has blocked and not yet said what it waits for.
LEMMA BlockedThread ==
  ASSUME LinksInv, NEW t \in Threads, pc[t] \in {"sleep_q", "join_add", "exit_dead"}
  PROVE  /\ k.flags[t] \cap {"RUNNABLE", "HIBERNATION", "SUSPENDED", "SLEEP", "JOINING", "DYING"} = {}
         /\ k \in Sound /\ t \in thread_list
         /\ \A m \in Lists : ~Contains(k.lists[m], t)
         /\ ~Contains(sleep_queue, t)
<1>1. ThreadFits(t) /\ k \in Sound
  BY DEF LinksInv
<1>2. \A f \in {"RUNNABLE", "HIBERNATION", "SUSPENDED", "SLEEP", "JOINING", "DYING"} : f \notin k.flags[t]
  BY <1>1 DEF ThreadFits, FlagsFit
<1>3. ASSUME NEW m \in Lists PROVE ~Contains(k.lists[m], t)
  BY <1>1, <1>2 DEF ThreadFits, PlaceFits, JoinSteps, Lists
<1> QED BY <1>1, <1>2, <1>3 DEF ThreadFits, LifeFits

\* nanosleep puts the thread on the sleep queue.
LEMMA SleepAddLinks ==
  ASSUME SchedInv, LinksInv, NEW c \in Cpus, NEW t \in Threads, sleep_queue_add(c, t)
  PROVE  LinksInv'
<1>1. /\ Continues(c, t, "sleep_q") /\ k' = SetFlags(k, t, {"SLEEP"}) /\ pc' = [pc EXCEPT ![t] = "sleep_sched"]
      /\ \E i \in (due + 1)..(Len(sleep_queue) + 1) : sleep_queue' = InsertAt(sleep_queue, i, t)
      /\ UNCHANGED <<thread_list, target, dead_lock>>
  BY DEF sleep_queue_add, GoTo, lockVars
<1>2. WorkStays /\ current[c] = t /\ mode[c] = "exec" /\ pc[t] = "sleep_q" /\ UNCHANGED cpuVars
  BY <1>1, ContinueStays
<1>3. PICK F : F = k.flags[t]
  OBVIOUS
<1>4. /\ F \cap {"RUNNABLE", "HIBERNATION", "SUSPENDED", "SLEEP", "JOINING", "DYING"} = {}
      /\ k \in Sound /\ t \in thread_list /\ (\A m \in Lists : ~Contains(k.lists[m], t)) /\ ~Contains(sleep_queue, t)
  BY <1>2, <1>3, BlockedThread
<1>5. Turned(k, k', t, F \cup {"SLEEP"})
  BY <1>1, <1>3, <1>4, FlagsTurned DEF Flags
<1>6. /\ k' \in Sound /\ k'.flags[t] = F \cup {"SLEEP"} /\ \A u \in Threads \ {t} : Same(k, k', u)
      /\ \A m \in Lists : ~Contains(k'.lists[m], t)
  BY <1>4, <1>5, TurnedParts
<1>7. pc'[t] = "sleep_sched" /\ "sleep_sched" \in Steps \ {"cancel_do", "cancel_mark", "susp_do"}
  BY <1>1, StepNames DEF SchedInv, STypeOK
<1>8. /\ \A x : Contains(sleep_queue', x) <=> Contains(sleep_queue, x) \/ x = t
      /\ Distinct(sleep_queue')
  <2>1. sleep_queue \in Seq(Threads) /\ due \in 0..Len(sleep_queue) /\ Distinct(sleep_queue)
    BY DEF SchedInv, STypeOK, LinksInv
  <2>2. PICK n \in Nat : n = Len(sleep_queue)
    BY <2>1, Lengths
  <2>3. PICK i \in 1..(Len(sleep_queue) + 1) : sleep_queue' = InsertAt(sleep_queue, i, t)
    BY <1>1, <2>1, <2>2
  <2> QED BY <1>4, <2>1, <2>3, InsertionElements
<1>9. "sleep" \in workload.ops
  BY <1>2 DEF LinksInv, ThreadFits, CallFits
<1>10. ThreadFits(t)'
  BY <1>1, <1>2, <1>4, <1>6, <1>7, <1>9
     DEF ThreadFits, FlagsFit, PlaceFits, JoinFits, LifeFits, CallFits, JoinSteps, WorkStays, Lists
<1>11. KeepsJoining(t)
  BY <1>3, <1>4 DEF KeepsJoining
<1>12. \A u \in Threads \ {t} : /\ Same(k, k', u)
                                /\ Contains(sleep_queue', u) => Contains(sleep_queue, u)
                                /\ target'[u] = target[u]
  BY <1>1, <1>6, <1>8
<1>13. ~Ended(t) /\ "sleep_sched" \notin Executing
  BY <1>2 DEF Ended, Executing
<1> QED BY <1>1, <1>2, <1>6, <1>7, <1>8, <1>10, <1>11, <1>12, <1>13, LoneStepKept

\* nanosleep takes the thread off the sleep queue.
LEMMA SleepDelLinks ==
  ASSUME SchedInv, LinksInv, NEW c \in Cpus, NEW t \in Threads, sleep_queue_del(c, t)
  PROVE  LinksInv'
<1>1. /\ Continues(c, t, "sleep_done") /\ k' = ClearFlags(k, t, {"SLEEP"}) /\ pc' = [pc EXCEPT ![t] = "run"]
      /\ sleep_queue' = RemoveFirst(sleep_queue, t)
      /\ UNCHANGED <<thread_list, target, dead_lock>>
  BY DEF sleep_queue_del, GoTo, lockVars
<1>2. WorkStays /\ current[c] = t /\ mode[c] = "exec" /\ pc[t] = "sleep_done" /\ UNCHANGED cpuVars
  BY <1>1, ContinueStays
<1>3. PICK F : F = k.flags[t]
  OBVIOUS
<1>4. /\ "RUNNABLE" \in F /\ "RUNNING" \in F /\ "HIBERNATION" \notin F /\ "SUSPENDED" \notin F /\ "DYING" \notin F
      /\ "JOINING" \notin F /\ k \in Sound /\ t \in thread_list
      /\ \A m \in Lists : Contains(k.lists[m], t) => m = READY
  BY <1>2, <1>3, RunningThread
<1>5. Turned(k, k', t, F \ {"SLEEP"})
  BY <1>1, <1>3, <1>4, FlagsTurned DEF Flags
<1>6. /\ k' \in Sound /\ k'.flags[t] = F \ {"SLEEP"} /\ \A u \in Threads \ {t} : Same(k, k', u)
      /\ \A m \in Lists : Contains(k'.lists[m], t) <=> Contains(k.lists[m], t)
  BY <1>4, <1>5, TurnedParts
<1>7. pc'[t] = "run" /\ "run" \in Steps \ {"cancel_do", "cancel_mark", "susp_do"}
  BY <1>1, StepNames DEF SchedInv, STypeOK
<1>8. /\ \A x : Contains(sleep_queue', x) <=> Contains(sleep_queue, x) /\ x # t
      /\ Distinct(sleep_queue')
  BY <1>1, RemovalElements DEF SchedInv, STypeOK, LinksInv
<1>9. READY \in Lists /\ Contains(k.lists[READY], t) /\ DEAD # READY
  BY <1>3, <1>4 DEF LinksInv, ThreadFits, PlaceFits, Lists, READY, DEAD
<1>10. ThreadFits(t)'
  BY <1>1, <1>2, <1>4, <1>6, <1>7, <1>8, <1>9
     DEF ThreadFits, FlagsFit, PlaceFits, JoinFits, LifeFits, CallFits, JoinSteps, WorkStays, Lists
<1>11. KeepsJoining(t)
  BY <1>3, <1>4 DEF KeepsJoining
<1>12. \A u \in Threads \ {t} : /\ Same(k, k', u)
                                /\ Contains(sleep_queue', u) => Contains(sleep_queue, u)
                                /\ target'[u] = target[u]
  BY <1>1, <1>6, <1>8
<1>13. ~Ended(t) /\ {"RUNNABLE", "RUNNING"} \subseteq k'.flags[t]
  BY <1>2, <1>4, <1>6 DEF Ended
<1> QED BY <1>1, <1>2, <1>6, <1>7, <1>8, <1>10, <1>11, <1>12, <1>13, LoneStepKept

\* exit_thread blocks the thread.
LEMMA ExitLinks ==
  ASSUME SchedInv, LinksInv, NEW c \in Cpus, NEW t \in Threads, exit_thread(c, t)
  PROVE  LinksInv'
<1>1. /\ Continues(c, t, "run") /\ "exit" \in workload.ops /\ pc' = [pc EXCEPT ![t] = "exit_dead"]
      /\ k' = IF Has(k, t, {"RUNNING"}) THEN block(k, t) ELSE BUG(k, "exit")
      /\ UNCHANGED <<sleep_queue, thread_list, target, dead_lock>>
  BY DEF exit_thread, GoTo, lockVars
<1>2. WorkStays /\ current[c] = t /\ mode[c] = "exec" /\ pc[t] = "run" /\ UNCHANGED cpuVars
  BY <1>1, ContinueStays
<1>3. PICK F : F = k.flags[t]
  OBVIOUS
<1>4. /\ "RUNNABLE" \in F /\ "RUNNING" \in F /\ "HIBERNATION" \notin F /\ "SUSPENDED" \notin F /\ "DYING" \notin F
      /\ "SLEEP" \notin F /\ "JOINING" \notin F /\ k \in Sound /\ t \in thread_list /\ ~Contains(sleep_queue, t)
  BY <1>2, <1>3, RunningThread
<1>5. k' = block(k, t)
  BY <1>1, <1>3, <1>4 DEF Has
<1>55. Moved(k, k', t, F \ {"RUNNABLE"}, Off)
  BY <1>3, <1>4, <1>5, BlockMoved
<1>6. /\ k' \in Sound /\ k'.flags[t] = F \ {"RUNNABLE"} /\ \A u \in Threads \ {t} : Same(k, k', u)
      /\ \A m \in Lists : ~Contains(k'.lists[m], t)
  BY <1>4, <1>55, MovedParts
<1>7. pc'[t] = "exit_dead" /\ "exit_dead" \in Steps \ {"cancel_do", "cancel_mark", "susp_do"}
  BY <1>1, StepNames DEF SchedInv, STypeOK
<1>8. ThreadFits(t)'
  BY <1>1, <1>2, <1>4, <1>6, <1>7
     DEF ThreadFits, FlagsFit, PlaceFits, JoinFits, LifeFits, CallFits, JoinSteps, WorkStays, Lists
<1>9. KeepsJoining(t) /\ Distinct(sleep_queue')
  BY <1>1, <1>3, <1>4 DEF KeepsJoining, LinksInv
<1>10. \A u \in Threads \ {t} : /\ Same(k, k', u)
                                /\ Contains(sleep_queue', u) => Contains(sleep_queue, u)
                                /\ target'[u] = target[u]
  BY <1>1, <1>6
<1>11. "exit_dead" \notin Executing
  BY DEF Executing
<1> QED BY <1>1, <1>2, <1>6, <1>7, <1>8, <1>9, <1>10, <1>11, LoneStepKept

\* semaphore_pend hibernates the thread.
LEMMA HibernateLinks ==
  ASSUME SchedInv, LinksInv, NEW c \in Cpus, NEW t \in Threads, Hibernate(c, t)
  PROVE  LinksInv'
<1>1. /\ Calls(c, t, "hibernate") /\ k' = hibernate(k, t) /\ pc' = [pc EXCEPT ![t] = "hib_sched"]
      /\ UNCHANGED <<sleep_queue, thread_list, target, dead_lock>>
  BY DEF Hibernate, GoTo, lockVars
<1>2. WorkStays /\ current[c] = t /\ mode[c] = "exec" /\ pc[t] = "run" /\ UNCHANGED cpuVars
  BY <1>1, CallStays
<1>3. PICK F : F = k.flags[t]
  OBVIOUS
<1>4. /\ "RUNNABLE" \in F /\ "RUNNING" \in F /\ "HIBERNATION" \notin F /\ "SUSPENDED" \notin F /\ "DYING" \notin F
      /\ "SLEEP" \notin F /\ "JOINING" \notin F /\ k \in Sound /\ t \in thread_list /\ ~Contains(sleep_queue, t)
  BY <1>2, <1>3, RunningThread
<1>5. Moved(k, k', t, (F \ {"RUNNABLE", "RUNNING"}) \cup {"HIBERNATION"}, Off)
  <2>1. F \cap {"SUSPENDED", "SLEEP"} = {}
    BY <1>4
  <2> QED BY <1>1, <1>3, <1>4, <2>1, StopMoved
<1>6. /\ k' \in Sound /\ k'.flags[t] = (F \ {"RUNNABLE", "RUNNING"}) \cup {"HIBERNATION"}
      /\ \A u \in Threads \ {t} : Same(k, k', u)
      /\ \A m \in Lists : ~Contains(k'.lists[m], t)
  BY <1>4, <1>5, MovedParts
<1>7. pc'[t] = "hib_sched" /\ "hib_sched" \in Steps \ {"cancel_do", "cancel_mark", "susp_do"}
  BY <1>1, StepNames DEF SchedInv, STypeOK
<1>8. ThreadFits(t)'
  BY <1>1, <1>2, <1>4, <1>6, <1>7
     DEF ThreadFits, FlagsFit, PlaceFits, JoinFits, LifeFits, CallFits, JoinSteps, WorkStays, Lists
<1>9. KeepsJoining(t) /\ Distinct(sleep_queue')
  BY <1>1, <1>3, <1>4 DEF KeepsJoining, LinksInv
<1>10. \A u \in Threads \ {t} : /\ Same(k, k', u)
                                /\ Contains(sleep_queue', u) => Contains(sleep_queue, u)
                                /\ target'[u] = target[u]
  BY <1>1, <1>6
<1>11. ~Ended(t) /\ "hib_sched" \notin Executing
  BY <1>2 DEF Ended, Executing
<1> QED BY <1>1, <1>2, <1>6, <1>7, <1>8, <1>9, <1>10, <1>11, LoneStepKept

\* A thread that changes nothing but its own step and target and stays runnable.
LEMMA RunningOn ==
  ASSUME SchedInv, LinksInv, NEW c \in Cpus, NEW t \in Threads, current[c] = t, mode[c] = "exec",
         pc[t] \in {"run", "join_lock"}, UNCHANGED cpuVars, WorkStays,
         UNCHANGED <<k, sleep_queue, thread_list, dead_lock>>,
         NEW x \in Threads \cup {NoThread}, target' = target \/ target' = [target EXCEPT ![t] = x],
         NEW s \in {"run", "join_lock"}, pc' = [pc EXCEPT ![t] = s],
         s = "join_lock" => x \in Threads /\ target' = [target EXCEPT ![t] = x] /\ "join" \in workload.ops
  PROVE  LinksInv'
<1>1. /\ "RUNNABLE" \in k.flags[t] /\ "RUNNING" \in k.flags[t] /\ t \in thread_list /\ k \in Sound
      /\ "JOINING" \notin k.flags[t]
  BY RunningThread
<1>2. pc'[t] = s /\ s \in Steps \ {"cancel_do", "cancel_mark", "susp_do"}
  BY StepNames DEF SchedInv, STypeOK
<1>3. (s = "join_lock" => target'[t] \in Threads) /\ \A u \in Threads \ {t} : target'[u] = target[u]
  BY DEF SchedInv, STypeOK
<1>4. ThreadFits(t)'
  <2>1. ThreadFits(t)
    BY DEF LinksInv
  <2>2. FlagsFit(t)'
    <3>1. PICK F : F = k.flags[t]
      OBVIOUS
    <3>2. "RUNNABLE" \in F /\ "HIBERNATION" \notin F /\ "SUSPENDED" \notin F
          /\ "SLEEP" \notin F /\ "JOINING" \notin F /\ "DYING" \notin F
      BY <1>1, <2>1, <3>1 DEF ThreadFits, FlagsFit
    <3>3. k'.flags[t] = F /\ pc'[t] \in {"run", "join_lock"}
      BY <1>2, <3>1
    <3> QED BY <3>2, <3>3 DEF FlagsFit
  <2>3. PlaceFits(t)'
    <3>1. k' = k /\ thread_list' = thread_list /\ pc[t] \notin JoinSteps \cup {"exit_sched", "dead"}
      BY DEF JoinSteps
    <3>2. /\ Contains(k.lists[READY], t) <=> "RUNNABLE" \in k.flags[t]
          /\ ~Contains(k.lists[DEAD], t) /\ \A v \in Threads : ~Contains(k.lists[v], t)
      BY <2>1, <3>1 DEF ThreadFits, PlaceFits
    <3> QED BY <3>1, <3>2 DEF PlaceFits
  <2>4. JoinFits(t)' /\ LifeFits(t)' /\ CallFits(t)'
    BY <1>1, <1>2, <1>3, <2>1 DEF ThreadFits, JoinFits, LifeFits, CallFits, JoinSteps, WorkStays
  <2> QED BY <2>2, <2>3, <2>4 DEF ThreadFits
<1>5. KeepsJoining(t) /\ Distinct(sleep_queue') /\ k' \in Sound
  BY <1>1 DEF KeepsJoining, LinksInv
<1>6. \A u \in Threads \ {t} : /\ Same(k, k', u)
                               /\ Contains(sleep_queue', u) => Contains(sleep_queue, u)
                               /\ target'[u] = target[u]
  BY <1>3, SameSame
<1>7. ~Ended(t) /\ {"RUNNABLE", "RUNNING"} \subseteq k'.flags[t]
  BY <1>1 DEF Ended
<1> QED BY <1>2, <1>4, <1>5, <1>6, <1>7, LoneStepKept

\* A call of pthread_join, up to join_thread.
LEMMA WaitLinks ==
  ASSUME SchedInv, LinksInv, NEW c \in Cpus, NEW t \in Threads, NEW u \in Threads, pte_osThreadWaitForEnd(c, t, u)
  PROVE  LinksInv'
<1>1. /\ Calls(c, t, "join") /\ pc' = [pc EXCEPT ![t] = "join_lock"] /\ target' = [target EXCEPT ![t] = u]
      /\ UNCHANGED <<k, sleep_queue, thread_list, dead_lock>>
  BY DEF pte_osThreadWaitForEnd, GoTo, lockVars
<1>2. /\ WorkStays /\ current[c] = t /\ mode[c] = "exec" /\ pc[t] = "run" /\ "join" \in workload.ops
      /\ UNCHANGED cpuVars
  BY <1>1, CallStays
<1> QED BY <1>1, <1>2, RunningOn

\* join_thread up to block(), or its return when the joinee has been reaped.
LEMMA JoinLinks ==
  ASSUME SchedInv, LinksInv, NEW c \in Cpus, NEW t \in Threads, join_thread(c, t)
  PROVE  LinksInv'
<1>1. /\ Continues(c, t, "join_lock") /\ dead_lock = NoThread /\ UNCHANGED <<sleep_queue, thread_list>>
      /\ \/ /\ target[t] \in thread_list /\ dead_lock' = t /\ k' = block(k, t)
            /\ pc' = [pc EXCEPT ![t] = "join_add"] /\ target' = target
         \/ /\ target' = [target EXCEPT ![t] = NoThread] /\ pc' = [pc EXCEPT ![t] = "run"]
            /\ UNCHANGED <<k, dead_lock>>
  BY DEF join_thread, GoTo
<1>2. WorkStays /\ current[c] = t /\ mode[c] = "exec" /\ pc[t] = "join_lock" /\ UNCHANGED cpuVars
  BY <1>1, ContinueStays
<1>a. CASE /\ target' = [target EXCEPT ![t] = NoThread] /\ pc' = [pc EXCEPT ![t] = "run"]
           /\ UNCHANGED <<k, dead_lock>>
  BY <1>1, <1>2, <1>a, RunningOn
<1>b. CASE /\ target[t] \in thread_list /\ dead_lock' = t /\ k' = block(k, t)
           /\ pc' = [pc EXCEPT ![t] = "join_add"] /\ target' = target
  <2>3. PICK F : F = k.flags[t]
    OBVIOUS
  <2>4. /\ "RUNNABLE" \in F /\ "HIBERNATION" \notin F /\ "SUSPENDED" \notin F /\ "DYING" \notin F
        /\ "SLEEP" \notin F /\ "JOINING" \notin F /\ k \in Sound /\ t \in thread_list /\ ~Contains(sleep_queue, t)
    BY <1>2, <2>3, RunningThread
  <2>5. Moved(k, k', t, F \ {"RUNNABLE"}, Off)
    BY <1>b, <2>3, <2>4, BlockMoved
  <2>6. /\ k' \in Sound /\ k'.flags[t] = F \ {"RUNNABLE"} /\ \A u \in Threads \ {t} : Same(k, k', u)
        /\ \A m \in Lists : ~Contains(k'.lists[m], t)
    BY <2>4, <2>5, MovedParts
  <2>7. pc'[t] = "join_add" /\ "join_add" \in Steps \ {"cancel_do", "cancel_mark", "susp_do"}
    BY <1>b, StepNames DEF SchedInv, STypeOK
  <2>8. target[t] \in Threads /\ "join" \in workload.ops
    BY <1>2 DEF LinksInv, ThreadFits, JoinFits, CallFits
  <2>9. ThreadFits(t)'
    BY <1>1, <1>2, <1>b, <2>4, <2>6, <2>7, <2>8
       DEF ThreadFits, FlagsFit, PlaceFits, JoinFits, LifeFits, CallFits, JoinSteps, WorkStays, Lists
  <2>10. KeepsJoining(t) /\ Distinct(sleep_queue')
    BY <1>1, <2>3, <2>4 DEF KeepsJoining, LinksInv
  <2>11. \A u \in Threads \ {t} : /\ Same(k, k', u)
                                  /\ Contains(sleep_queue', u) => Contains(sleep_queue, u)
                                  /\ target'[u] = target[u]
    BY <1>1, <1>b, <2>6
  <2>12. ~Ended(t) /\ "join_add" \notin Executing
    BY <1>2 DEF Ended, Executing
  <2> QED BY <1>1, <1>2, <1>b, <2>6, <2>7, <2>9, <2>10, <2>11, <2>12, LoneStepKept
<1> QED BY <1>1, <1>a, <1>b

\* The joiner is linked on the list of its joinee.
LEMMA JoinAddLinks ==
  ASSUME SchedInv, LinksInv, NEW c \in Cpus, NEW t \in Threads, JoinAdd(c, t)
  PROVE  LinksInv'
<1>1. /\ Continues(c, t, "join_add") /\ k' = list_add_tail(k, t, target[t]) /\ dead_lock' = NoThread
      /\ pc' = [pc EXCEPT ![t] = "join_flag"] /\ UNCHANGED <<sleep_queue, thread_list, target>>
  BY DEF JoinAdd, GoTo
<1>2. WorkStays /\ current[c] = t /\ mode[c] = "exec" /\ pc[t] = "join_add" /\ UNCHANGED cpuVars
  BY <1>1, ContinueStays
<1>3. PICK F : F = k.flags[t]
  OBVIOUS
<1>4. /\ F \cap {"RUNNABLE", "HIBERNATION", "SUSPENDED", "SLEEP", "JOINING", "DYING"} = {}
      /\ k \in Sound /\ t \in thread_list /\ (\A m \in Lists : ~Contains(k.lists[m], t)) /\ ~Contains(sleep_queue, t)
  BY <1>2, <1>3, BlockedThread
<1>5. PICK u \in Threads : u = target[t] /\ u \in thread_list /\ dead_lock = t /\ "join" \in workload.ops
  BY <1>2 DEF LinksInv, ThreadFits, JoinFits, CallFits
<1>6. Moved(k, k', t, F, u)
  <2>1. u \in Lists
    BY DEF Lists
  <2> QED BY <1>1, <1>3, <1>4, <1>5, <2>1, LinkMoved
<1>7. /\ k' \in Sound /\ k'.flags[t] = F /\ \A v \in Threads \ {t} : Same(k, k', v)
      /\ \A m \in Lists : Contains(k'.lists[m], t) <=> m = u
  BY <1>4, <1>6, MovedParts
<1>8. pc'[t] = "join_flag" /\ "join_flag" \in Steps \ {"cancel_do", "cancel_mark", "susp_do"}
  BY <1>1, StepNames DEF SchedInv, STypeOK
<1>9. ThreadFits(t)'
  BY <1>1, <1>2, <1>4, <1>5, <1>7, <1>8
     DEF ThreadFits, FlagsFit, PlaceFits, JoinFits, LifeFits, CallFits, JoinSteps, WorkStays, Lists
<1>10. KeepsJoining(t) /\ Distinct(sleep_queue')
  BY <1>1, <1>3, <1>4 DEF KeepsJoining, LinksInv
<1>11. \A v \in Threads \ {t} : /\ Same(k, k', v)
                                /\ Contains(sleep_queue', v) => Contains(sleep_queue, v)
                                /\ target'[v] = target[v]
  BY <1>1, <1>7
<1>12. ~Ended(t) /\ "join_flag" \notin Executing
  BY <1>2 DEF Ended, Executing
<1> QED BY <1>1, <1>2, <1>5, <1>7, <1>8, <1>9, <1>10, <1>11, <1>12, LoneStepKept

\* JOINING_FLAG is set.
LEMMA JoiningLinks ==
  ASSUME SchedInv, LinksInv, NEW c \in Cpus, NEW t \in Threads, set_joining(c, t)
  PROVE  LinksInv'
<1>1. /\ Continues(c, t, "join_flag") /\ k' = SetFlags(k, t, {"JOINING"})
      /\ pc' = [pc EXCEPT ![t] = "join_sched"] /\ UNCHANGED <<sleep_queue, thread_list, target, dead_lock>>
  BY DEF set_joining, GoTo, lockVars
<1>2. WorkStays /\ current[c] = t /\ mode[c] = "exec" /\ pc[t] = "join_flag" /\ UNCHANGED cpuVars
  BY <1>1, ContinueStays
<1>3. PICK F : F = k.flags[t]
  OBVIOUS
<1>4. k \in Sound /\ ThreadFits(t) /\ "JOINING" \notin F
  BY <1>2, <1>3 DEF LinksInv, ThreadFits, FlagsFit
<1>5. Turned(k, k', t, F \cup {"JOINING"})
  BY <1>1, <1>3, <1>4, FlagsTurned DEF Flags
<1>6. /\ k' \in Sound /\ k'.flags[t] = F \cup {"JOINING"} /\ \A u \in Threads \ {t} : Same(k, k', u)
      /\ \A m \in Lists : Contains(k'.lists[m], t) <=> Contains(k.lists[m], t)
  BY <1>4, <1>5, TurnedParts
<1>7. pc'[t] = "join_sched" /\ "join_sched" \in Steps \ {"cancel_do", "cancel_mark", "susp_do"}
  BY <1>1, StepNames DEF SchedInv, STypeOK
<1>8. ThreadFits(t)'
  <2>1. FlagsFit(t)'
    BY <1>2, <1>3, <1>4, <1>6, <1>7 DEF ThreadFits, FlagsFit
  <2>2. PlaceFits(t)'
    BY <1>1, <1>2, <1>3, <1>4, <1>6, <1>7 DEF ThreadFits, PlaceFits, JoinSteps, Lists
  <2>3. JoinFits(t)'
    <3>1. target[t] \in Threads /\ target' = target
      BY <1>1, <1>2, <1>4 DEF ThreadFits, JoinFits, JoinSteps
    <3>2. IF "RUNNABLE" \in F THEN Ended(target[t]) \/ "CANCELLED" \in F \/ Marking(t)
                              ELSE Contains(k.lists[target[t]], t)
      BY <1>2, <1>3, <1>4 DEF ThreadFits, JoinFits, JoinSteps
    <3>3. Ended(target[t]) => pc'[target[t]] \in {"exit_dead", "exit_sched", "dead"}
      <4>1. target[t] = t => ~Ended(target[t])
        BY <1>2 DEF Ended
      <4>2. target[t] # t => pc'[target[t]] = pc[target[t]]
        BY <1>1, <3>1 DEF SchedInv, STypeOK
      <4> QED BY <4>1, <4>2 DEF Ended
    <3>4. target[t] \in Lists
      BY <3>1 DEF Lists
    <3>5. Ended(target[t])' <=> pc'[target[t]] \in {"exit_dead", "exit_sched", "dead"}
      BY <3>1 DEF Ended
    <3>6. Marking(t) => Marking(t)'
      BY <1>1, <1>2 DEF Marking, SchedInv, STypeOK
    <3> QED BY <1>6, <1>7, <3>1, <3>2, <3>3, <3>4, <3>5, <3>6 DEF JoinFits
  <2>4. LifeFits(t)' /\ CallFits(t)'
    BY <1>1, <1>2, <1>4, <1>7 DEF ThreadFits, LifeFits, CallFits, JoinSteps, WorkStays
  <2> QED BY <2>1, <2>2, <2>3, <2>4 DEF ThreadFits
<1>9. KeepsJoining(t) /\ Distinct(sleep_queue')
  BY <1>1, <1>3, <1>4 DEF KeepsJoining, LinksInv
<1>10. \A v \in Threads \ {t} : /\ Same(k, k', v)
                                /\ Contains(sleep_queue', v) => Contains(sleep_queue, v)
                                /\ target'[v] = target[v]
  BY <1>1, <1>6
<1>11. ~Ended(t) /\ "join_sched" \notin Executing
  BY <1>2 DEF Ended, Executing
<1> QED BY <1>1, <1>2, <1>6, <1>7, <1>8, <1>9, <1>10, <1>11, LoneStepKept

\* join_thread returns: the joinee has ended or the joiner was cancelled.
LEMMA JoinEndsLinks ==
  ASSUME SchedInv, LinksInv, NEW c \in Cpus, NEW t \in Threads, JoinReturn(c, t),
         Ended(target[t]) \/ "CANCELLED" \in k.flags[t]
  PROVE  LinksInv'
<1>1. /\ Continues(c, t, "join_clear")
      /\ k' = IF Ended(target[t]) \/ Has(k, t, {"CANCELLED"}) THEN ClearFlags(k, t, {"JOINING"})
                                                              ELSE BUG(ClearFlags(k, t, {"JOINING"}), "join")
      /\ pc' = [pc EXCEPT ![t] = "run"] /\ target' = [target EXCEPT ![t] = NoThread]
      /\ UNCHANGED <<sleep_queue, thread_list, dead_lock>>
  BY DEF JoinReturn, GoTo, lockVars
<1>2. WorkStays /\ current[c] = t /\ mode[c] = "exec" /\ pc[t] = "join_clear" /\ UNCHANGED cpuVars
  BY <1>1, ContinueStays
<1>3. PICK F : F = k.flags[t]
  OBVIOUS
<1>4. /\ "RUNNABLE" \in F /\ "RUNNING" \in F /\ "HIBERNATION" \notin F /\ "SUSPENDED" \notin F /\ "DYING" \notin F
      /\ "SLEEP" \notin F /\ k \in Sound /\ t \in thread_list /\ ~Contains(sleep_queue, t)
      /\ \A m \in Lists : Contains(k.lists[m], t) => m = READY
  BY <1>2, <1>3, RunningThread
<1>5. Turned(k, k', t, F \ {"JOINING"})
  <2>1. k' = ClearFlags(k, t, {"JOINING"})
    BY <1>1 DEF Has
  <2> QED BY <1>3, <1>4, <2>1, FlagsTurned DEF Flags
<1>6. /\ k' \in Sound /\ k'.flags[t] = F \ {"JOINING"} /\ \A u \in Threads \ {t} : Same(k, k', u)
      /\ \A m \in Lists : Contains(k'.lists[m], t) <=> Contains(k.lists[m], t)
  BY <1>4, <1>5, TurnedParts
<1>7. pc'[t] = "run" /\ "run" \in Steps \ {"cancel_do", "cancel_mark", "susp_do"}
  BY <1>1, StepNames DEF SchedInv, STypeOK
<1>8. READY \in Lists /\ Contains(k.lists[READY], t) /\ DEAD # READY
  BY <1>3, <1>4 DEF LinksInv, ThreadFits, PlaceFits, Lists, READY, DEAD
<1>9. ThreadFits(t)'
  BY <1>1, <1>2, <1>4, <1>6, <1>7, <1>8
     DEF ThreadFits, FlagsFit, PlaceFits, JoinFits, LifeFits, CallFits, JoinSteps, WorkStays, Lists
<1>10. ASSUME NEW v \in Threads \ {t}, pc[v] \in {"cancel_do", "cancel_mark"}, target[v] = t PROVE KeepsJoining(t)
  <2>1. "CANCELLED" \notin F /\ "cancel" \in workload.ops
    BY <1>3, <1>10 DEF LinksInv, CancelFits, ThreadFits, CallFits
  <2>2. target[t] \in Threads /\ "join" \in workload.ops
    BY <1>2 DEF LinksInv, ThreadFits, JoinFits, CallFits, JoinSteps
  <2>3. "exit" \in workload.ops
    BY <1>3, <2>1, <2>2 DEF LinksInv, ThreadFits, CallFits, Ended
  <2> QED BY <2>1, <2>2, <2>3 DEF LinksInv, Careful
<1>11. \A v \in Threads \ {t} : /\ Same(k, k', v)
                                /\ Contains(sleep_queue', v) => Contains(sleep_queue, v)
                                /\ target'[v] = target[v]
  BY <1>1, <1>6 DEF SchedInv, STypeOK
<1>12. ~Ended(t) /\ {"RUNNABLE", "RUNNING"} \subseteq k'.flags[t] /\ Distinct(sleep_queue')
  BY <1>1, <1>2, <1>4, <1>6 DEF Ended, LinksInv
<1> QED BY <1>1, <1>2, <1>6, <1>7, <1>9, <1>10, <1>11, <1>12, LoneStepKept

\* The one BUG() a careful workload reaches: a joiner returns between being woken by
\* pthread_cancel and being marked as cancelled.
LateMark ==
  /\ {"join", "cancel"} \subseteq workload.ops
  /\ k.bug # "none" /\ OnlyLateMarkBug

\* join_thread returns, as it should or too early.
LEMMA JoinReturnLinks ==
  ASSUME SchedInv, LinksInv, NEW c \in Cpus, NEW t \in Threads, JoinReturn(c, t)
  PROVE  LinksInv' \/ LateMark'
<1>1. CASE Ended(target[t]) \/ "CANCELLED" \in k.flags[t]
  BY <1>1, JoinEndsLinks
<1>2. CASE ~(Ended(target[t]) \/ "CANCELLED" \in k.flags[t])
  <2>1. /\ Continues(c, t, "join_clear") /\ k' = BUG(ClearFlags(k, t, {"JOINING"}), "join")
        /\ pc' = [pc EXCEPT ![t] = "run"] /\ target' = [target EXCEPT ![t] = NoThread]
    BY <1>2 DEF JoinReturn, GoTo, Has
  <2>2. WorkStays /\ current[c] = t /\ mode[c] = "exec" /\ pc[t] = "join_clear"
    BY <2>1, ContinueStays
  <2>3. Marking(t)
    BY <1>2, <2>2, RunningThread
  <2>4. PICK v \in Threads : pc[v] = "cancel_mark" /\ target[v] = t
    BY <2>3 DEF Marking
  <2>5. k \in KStates /\ pc \in [Threads -> Steps] /\ target \in [Threads -> Threads \cup {NoThread}]
    BY DEF SchedInv, STypeOK
  <2>6. k'.bug = "join" /\ k'.flags[t] = k.flags[t] \ {"JOINING"}
    <3>1. PICK y : y = ClearFlags(k, t, {"JOINING"})
      OBVIOUS
    <3>2. y \in KStates /\ y.flags = [k.flags EXCEPT ![t] = k.flags[t] \ {"JOINING"}]
      <4>1. {"JOINING"} \in SUBSET Flags
        BY DEF Flags
      <4>2. k \in KStates
        BY <2>5
      <4>3. /\ ClearFlags(k, t, {"JOINING"}) \in KStates
            /\ ClearFlags(k, t, {"JOINING"}).flags = [k.flags EXCEPT ![t] = k.flags[t] \ {"JOINING"}]
        BY <4>1, <4>2, ClearFlagsEffect, Zenon
      <4> QED BY <3>1, <4>3, Zenon
    <3>3. k' = [y EXCEPT !.bug = "join"]
      BY <2>1, <3>1 DEF BUG
    <3>4. k'.bug = "join" /\ k'.flags = y.flags
      BY <3>2, <3>3 DEF KStates
    <3>5. k.flags \in [Threads -> SUBSET Flags]
      BY <2>5 DEF KStates
    <3> QED BY <3>2, <3>4, <3>5
  <2>7. v # t /\ pc'[v] = "cancel_mark" /\ target'[v] = t /\ pc'[t] = "run"
    BY <2>1, <2>2, <2>4, <2>5
  <2>8. "join" \in workload.ops /\ "cancel" \in workload.ops
    BY <2>2, <2>4 DEF LinksInv, ThreadFits, CallFits, JoinSteps
  <2>9. "CANCELLED" \notin k'.flags[t]
    BY <1>2, <2>6
  <2> QED BY <2>2, <2>6, <2>7, <2>8, <2>9 DEF LateMark, OnlyLateMarkBug, Has, WorkStays
<1> QED BY <1>1, <1>2

\* A thread that keeps its flags and its place while others move on.
LEMMA StaysSame ==
  ASSUME LinksInv, NEW v \in Threads, Same(k, k', v), pc'[v] = pc[v], target'[v] = target[v],
         Contains(sleep_queue', v) => Contains(sleep_queue, v), v \in thread_list' => v \in thread_list,
         thread_list \subseteq thread_list', WorkStays,
         \A w \in Threads : Ended(w) => pc'[w] \in {"exit_dead", "exit_sched", "dead"},
         pc[v] = "join_add" => dead_lock' = dead_lock, MarkStays(v)
  PROVE  Stays(v)
<1>1. ThreadFits(v)
  BY DEF LinksInv
<1>2. pc[v] = "join_add" => target[v] \in thread_list'
  BY <1>1 DEF ThreadFits, JoinFits
<1>3. Threads \subseteq Lists
  BY DEF Lists
<1>4. \A w \in Threads : Contains(k'.lists[w], v) => w \in thread_list'
  BY <1>1, <1>3 DEF ThreadFits, PlaceFits, Same
<1>5. v \in thread_list' <=> v \in thread_list
  OBVIOUS
<1> QED BY <1>2, <1>4, <1>5 DEF Stays, Goes, WorkStays

\* A thread executing outside sleep, join and exit, before and after a step.
LEMMA BusyFits ==
  ASSUME SchedInv, LinksInv, NEW c \in Cpus, NEW t \in Threads, current[c] = t, mode[c] = "exec",
         pc[t] \in {"run", "cancel_do", "cancel_mark", "susp_do"},
         k'.flags[t] = k.flags[t] \/ k'.flags[t] = k.flags[t] \cup {"CANCELLED"},
         \A m \in Lists : Contains(k'.lists[m], t) <=> Contains(k.lists[m], t),
         NEW s \in {"run", "yield", "cancel_do", "cancel_mark", "susp_do"}, pc'[t] = s,
         s \in {"cancel_do", "cancel_mark"} => "cancel" \in workload.ops, s = "susp_do" => "suspend" \in workload.ops,
         UNCHANGED sleep_queue, t \in thread_list', WorkStays
  PROVE  ThreadFits(t)' /\ {"RUNNABLE", "RUNNING"} \subseteq k'.flags[t]
<1>1. PICK F, G : F = k.flags[t] /\ G = k'.flags[t]
  OBVIOUS
<1>2. /\ "RUNNABLE" \in F /\ "RUNNING" \in F /\ "HIBERNATION" \notin F /\ "SUSPENDED" \notin F /\ "DYING" \notin F
      /\ "SLEEP" \notin F /\ "JOINING" \notin F /\ ~Contains(sleep_queue, t)
      /\ \A m \in Lists : Contains(k.lists[m], t) => m = READY
  BY <1>1, RunningThread
<1>3. /\ "RUNNABLE" \in G /\ "RUNNING" \in G /\ "HIBERNATION" \notin G /\ "SUSPENDED" \notin G /\ "DYING" \notin G
      /\ "SLEEP" \notin G /\ "JOINING" \notin G
  <2>1. G = F \/ G = F \cup {"CANCELLED"}
    BY <1>1
  <2>2. CASE G = F
    BY <1>2, <2>2
  <2>3. CASE G = F \cup {"CANCELLED"}
    BY <1>2, <2>3
  <2> QED BY <2>1, <2>2, <2>3
<1>4. READY \in Lists /\ Contains(k.lists[READY], t) /\ DEAD # READY /\ READY \notin Threads /\ DEAD \in Lists
      /\ Threads \subseteq Lists
  BY <1>1, <1>2 DEF LinksInv, ThreadFits, PlaceFits, Lists, READY, DEAD
<1>5. FlagsFit(t)'
  BY <1>1, <1>3 DEF FlagsFit
<1>6. PlaceFits(t)'
  BY <1>1, <1>2, <1>3, <1>4 DEF PlaceFits
<1>7. JoinFits(t)' /\ LifeFits(t)' /\ CallFits(t)'
  BY <1>2 DEF JoinFits, LifeFits, CallFits, JoinSteps, WorkStays
<1> QED BY <1>1, <1>3, <1>5, <1>6, <1>7 DEF ThreadFits

\* A step of a thread that changes the flags or the place of another one.
LEMMA PairStepCore ==
  ASSUME SchedInv, LinksInv, NEW c \in Cpus, NEW t \in Threads, current[c] = t, mode[c] = "exec",
         UNCHANGED cpuVars, WorkStays, k' \in Sound, UNCHANGED <<sleep_queue, thread_list, dead_lock>>,
         pc[t] \in {"run", "cancel_do", "cancel_mark", "susp_do"},
         NEW s \in {"run", "yield", "cancel_mark"}, pc'[t] = s, s = "cancel_mark" => "cancel" \in workload.ops,
         \A v \in Threads \ {t} : pc'[v] = pc[v] /\ target'[v] = target[v],
         NEW u \in Threads \ {t}, pc[t] = "cancel_mark" => target[t] = u,
         \A v \in Threads \ {u} : Same(k, k', v), Solo \/ KeepsRunning(u), ThreadFits(u)',
         \A v \in Threads : CancelFits(v)' /\ SuspendFits(v)'
  PROVE  LinksInv'
<1>1. t \in thread_list
  BY RunningThread
<1>2. ThreadFits(t)' /\ {"RUNNABLE", "RUNNING"} \subseteq k'.flags[t]
  BY <1>1, BusyFits DEF Same
<1>3. \A w \in Threads : Ended(w) => pc'[w] \in {"exit_dead", "exit_sched", "dead"}
  BY DEF Ended
<1>4. ASSUME NEW v \in Threads \ {t, u} PROVE Stays(v) /\ pc'[v] = pc[v]
  <2>1. MarkStays(v)
    BY DEF MarkStays, Marking
  <2> QED BY <1>3, <2>1, StaysSame
<1>7. Distinct(sleep_queue') /\ {t, u} \in SUBSET Threads /\ t \in {t, u}
  BY DEF LinksInv
<1>8. \A v \in {t, u} : ThreadFits(v)'
  BY <1>2
<1>9. PICK A \in SUBSET Threads : A = {t, u}
  BY <1>7
<1>10. /\ t \in A /\ thread_list \subseteq thread_list'
       /\ \A v \in Threads \ A : Stays(v) /\ pc'[v] = pc[v]
       /\ \A v \in A : ThreadFits(v)'
       /\ \A v \in A \ {t} : /\ Solo \/ KeepsRunning(v)
                             /\ pc'[v] = pc[v] \/ (v \notin thread_list /\ pc'[v] = "run")
  BY <1>4, <1>8, <1>9
<1> QED BY <1>2, <1>7, <1>10, ThreadStepKept

\* Such a step after which the thread neither cancels nor suspends.
LEMMA PairStepKept ==
  ASSUME SchedInv, LinksInv, NEW c \in Cpus, NEW t \in Threads, current[c] = t, mode[c] = "exec",
         UNCHANGED cpuVars, WorkStays, k' \in Sound, UNCHANGED <<sleep_queue, thread_list, dead_lock>>,
         pc[t] \in {"run", "cancel_do", "cancel_mark", "susp_do"},
         NEW s \in {"run", "yield"}, pc'[t] = s, \A v \in Threads \ {t} : pc'[v] = pc[v] /\ target'[v] = target[v],
         NEW u \in Threads \ {t}, pc[t] = "cancel_mark" => target[t] = u,
         \A v \in Threads \ {u} : Same(k, k', v),
         Solo \/ KeepsRunning(u), ThreadFits(u)',
         \A v \in Threads \ {t} : pc[v] \in {"cancel_do", "cancel_mark"} /\ target[v] = u => KeepsJoining(u)
  PROVE  LinksInv'
<1>1. ASSUME NEW v \in Threads \ {t}, pc[v] \in {"cancel_do", "cancel_mark"} PROVE KeepsJoining(target[v])
  <2>1. CASE target[v] = u
    BY <1>1, <2>1
  <2>2. CASE target[v] # u
    <3>1. target[v] \in Threads \ {u}
      BY <1>1, <2>2 DEF SchedInv, SSteps
    <3> QED BY <3>1 DEF KeepsJoining, Same
  <2> QED BY <2>1, <2>2
<1>2. \A v \in Threads : CancelFits(v)' /\ SuspendFits(v)'
  BY <1>1, ThreadCalls
<1>3. s \in {"run", "yield", "cancel_mark"} /\ (s = "cancel_mark" => "cancel" \in workload.ops)
  OBVIOUS
<1> QED BY <1>2, <1>3, PairStepCore

\* semaphore_post restores a thread that hibernates.
LEMMA RestoreLinks ==
  ASSUME SchedInv, LinksInv, NEW c \in Cpus, NEW t \in Threads, NEW u \in Threads, Restore(c, t, u)
  PROVE  LinksInv'
<1>1. /\ Calls(c, t, "hibernate") /\ Has(k, u, {"HIBERNATION"}) /\ k' = restore(k, u)
      /\ UNCHANGED <<sleep_queue, thread_list, pc, target, dead_lock>>
  BY DEF Restore, lockVars
<1>2. WorkStays /\ current[c] = t /\ mode[c] = "exec" /\ pc[t] = "run" /\ UNCHANGED cpuVars
  BY <1>1, CallStays
<1>3. PICK F : F = k.flags[u]
  OBVIOUS
<1>4. "HIBERNATION" \in F /\ k \in Sound /\ ThreadFits(u)
  BY <1>1, <1>3 DEF Has, LinksInv
<1>5. /\ "RUNNABLE" \notin F /\ "SLEEP" \notin F /\ "JOINING" \notin F /\ "DYING" \notin F
      /\ pc[u] \in {"run", "yield", "hib_sched"}
  BY <1>3, <1>4 DEF ThreadFits, FlagsFit
<1>6. u # t
  BY <1>2, <1>3, <1>5, RunningThread
<1>7. \A m \in Lists : ~Contains(k.lists[m], u)
  BY <1>3, <1>4, <1>5 DEF ThreadFits, PlaceFits, JoinSteps, Lists
<1>8. ~Contains(sleep_queue, u) /\ u \in thread_list
  BY <1>4, <1>5 DEF ThreadFits, LifeFits
<1>9. /\ \A v \in Threads \ {u} : Same(k, k', v)
      /\ k' \in Sound
      /\ \/ /\ "SUSPENDED" \notin F
            /\ k'.flags[u] = (F \ {"HIBERNATION"}) \cup {"RUNNABLE"} /\ \A m \in Lists : Contains(k'.lists[m], u) <=> m = READY
         \/ /\ k'.flags[u] = F \ {"HIBERNATION"} /\ \A m \in Lists : ~Contains(k'.lists[m], u)
  <2>1. CASE F \cap {"SUSPENDED", "SLEEP"} = {}
    <3>1. Moved(k, k', u, (F \ {"HIBERNATION"}) \cup {"RUNNABLE"}, READY)
      BY <1>1, <1>3, <1>4, <1>7, <2>1, RestoreMoved
    <3> QED BY <1>4, <2>1, <3>1, MovedParts
  <2>2. CASE F \cap {"SUSPENDED", "SLEEP"} # {}
    <3>1. Turned(k, k', u, F \ {"HIBERNATION"})
      BY <1>1, <1>3, <1>4, <1>7, <2>2, RestoreMoved
    <3> QED BY <1>4, <1>7, <3>1, TurnedParts
  <2> QED BY <2>1, <2>2
<1>10. PICK G : G = k'.flags[u]
  OBVIOUS
<1>11. KeepsRunning(u) /\ KeepsJoining(u)
  BY <1>3, <1>5, <1>9 DEF KeepsRunning, KeepsJoining
<1>12. READY \in Lists /\ DEAD # READY /\ DEAD \in Lists /\ Threads \subseteq Lists /\ READY \notin Threads
  BY DEF Lists, READY, DEAD
<1>13. ThreadFits(u)'
  <2>1. FlagsFit(u)'
    BY <1>1, <1>3, <1>5, <1>9 DEF FlagsFit
  <2>2. PlaceFits(u)'
    BY <1>5, <1>9, <1>12 DEF PlaceFits
  <2>3. JoinFits(u)' /\ LifeFits(u)' /\ CallFits(u)'
    BY <1>1, <1>5, <1>8 DEF JoinFits, LifeFits, CallFits, JoinSteps
  <2> QED BY <2>1, <2>2, <2>3 DEF ThreadFits
<1> QED BY <1>1, <1>2, <1>6, <1>9, <1>11, <1>13, PairStepKept

\* A suspended thread is resumed.
LEMMA ResumeLinks ==
  ASSUME SchedInv, LinksInv, NEW c \in Cpus, NEW t \in Threads, NEW u \in Threads, resume_pthread(c, t, u)
  PROVE  LinksInv'
<1>1. /\ Calls(c, t, "suspend") /\ Has(k, u, {"SUSPENDED"}) /\ k' = wake_suspended_thread(k, u)
      /\ UNCHANGED <<sleep_queue, thread_list, pc, target, dead_lock>>
  BY DEF resume_pthread, lockVars
<1>2. WorkStays /\ current[c] = t /\ mode[c] = "exec" /\ pc[t] = "run" /\ UNCHANGED cpuVars
  BY <1>1, CallStays
<1>3. PICK F : F = k.flags[u]
  OBVIOUS
<1>4. "SUSPENDED" \in F /\ k \in Sound /\ ThreadFits(u)
  BY <1>1, <1>3 DEF Has, LinksInv
<1>5. /\ "RUNNABLE" \notin F /\ "SLEEP" \notin F /\ "JOINING" \notin F /\ "DYING" \notin F
      /\ pc[u] \in {"run", "yield", "hib_sched"}
  BY <1>3, <1>4 DEF ThreadFits, FlagsFit
<1>6. u # t
  BY <1>2, <1>3, <1>5, RunningThread
<1>7. \A m \in Lists : ~Contains(k.lists[m], u)
  BY <1>3, <1>4, <1>5 DEF ThreadFits, PlaceFits, JoinSteps, Lists
<1>8. ~Contains(sleep_queue, u) /\ u \in thread_list
  BY <1>4, <1>5 DEF ThreadFits, LifeFits
<1>9. /\ \A v \in Threads \ {u} : Same(k, k', v)
      /\ k' \in Sound
      /\ \/ /\ "HIBERNATION" \notin F
            /\ k'.flags[u] = (F \ {"SUSPENDED"}) \cup {"RUNNABLE"} /\ \A m \in Lists : Contains(k'.lists[m], u) <=> m = READY
         \/ /\ k'.flags[u] = F \ {"SUSPENDED"} /\ \A m \in Lists : ~Contains(k'.lists[m], u)
  <2>1. CASE F \cap {"HIBERNATION", "SLEEP", "JOINING"} = {}
    <3>1. Moved(k, k', u, (F \ {"SUSPENDED"}) \cup {"RUNNABLE"}, READY)
      BY <1>1, <1>3, <1>4, <1>7, <2>1, RestoreMoved
    <3> QED BY <1>4, <2>1, <3>1, MovedParts
  <2>2. CASE F \cap {"HIBERNATION", "SLEEP", "JOINING"} # {}
    <3>1. Turned(k, k', u, F \ {"SUSPENDED"})
      BY <1>1, <1>3, <1>4, <1>7, <2>2, RestoreMoved
    <3> QED BY <1>4, <1>7, <3>1, TurnedParts
  <2> QED BY <2>1, <2>2
<1>11. KeepsRunning(u) /\ KeepsJoining(u)
  BY <1>3, <1>5, <1>9 DEF KeepsRunning, KeepsJoining
<1>12. READY \in Lists /\ DEAD # READY /\ DEAD \in Lists /\ Threads \subseteq Lists /\ READY \notin Threads
  BY DEF Lists, READY, DEAD
<1>13. ThreadFits(u)'
  <2>1. FlagsFit(u)'
    BY <1>1, <1>3, <1>5, <1>9 DEF FlagsFit
  <2>2. PlaceFits(u)'
    BY <1>5, <1>9, <1>12 DEF PlaceFits
  <2>3. JoinFits(u)' /\ LifeFits(u)' /\ CallFits(u)'
    BY <1>1, <1>5, <1>8 DEF JoinFits, LifeFits, CallFits, JoinSteps
  <2> QED BY <2>1, <2>2, <2>3 DEF ThreadFits
<1> QED BY <1>1, <1>2, <1>6, <1>9, <1>11, <1>13, PairStepKept

\* A step after which a thread has started to cancel or suspend another one.
LEMMA StartKept ==
  ASSUME SchedInv, LinksInv, NEW c \in Cpus, NEW t \in Threads, current[c] = t, mode[c] = "exec",
         UNCHANGED cpuVars, WorkStays, pc[t] = "run", UNCHANGED <<k, sleep_queue, thread_list, dead_lock>>,
         NEW s \in {"cancel_do", "susp_do"}, pc' = [pc EXCEPT ![t] = s],
         s = "cancel_do" => "cancel" \in workload.ops, s = "susp_do" => "suspend" \in workload.ops,
         NEW u \in Threads, target' = [target EXCEPT ![t] = u],
         \A v \in Threads : CancelFits(v)' /\ SuspendFits(v)'
  PROVE  LinksInv'
<1>1. pc \in [Threads -> Steps] /\ target \in [Threads -> Threads \cup {NoThread}]
  BY DEF SchedInv, STypeOK
<1>2. pc'[t] = s /\ target'[t] = u /\ \A v \in Threads \ {t} : pc'[v] = pc[v] /\ target'[v] = target[v]
  BY <1>1
<1>3. t \in thread_list
  BY RunningThread
<1>4. ThreadFits(t)' /\ {"RUNNABLE", "RUNNING"} \subseteq k'.flags[t]
  BY <1>2, <1>3, BusyFits
<1>5. \A w \in Threads : Ended(w) => pc'[w] \in {"exit_dead", "exit_sched", "dead"}
  BY <1>2 DEF Ended
<1>6. ASSUME NEW v \in Threads \ {t} PROVE Stays(v) /\ pc'[v] = pc[v]
  <2>1. MarkStays(v)
    BY <1>2 DEF MarkStays, Marking
  <2> QED BY <1>2, <1>5, <2>1, StaysSame, SameSame
<1>7. Distinct(sleep_queue') /\ {t} \in SUBSET Threads /\ t \in {t} /\ k' \in Sound /\ thread_list \subseteq thread_list'
  BY DEF LinksInv
<1>8. \A v \in {t} : ThreadFits(v)'
  BY <1>4
<1> QED BY <1>4, <1>6, <1>7, <1>8, ThreadStepKept

\* pthread_kill passes its checks.
LEMMA SuspendStartLinks ==
  ASSUME SchedInv, LinksInv, NEW c \in Cpus, NEW t \in Threads, NEW u \in Threads, suspend_pthread(c, t, u)
  PROVE  LinksInv'
<1>1. /\ Calls(c, t, "suspend") /\ Alive(u) /\ pc' = [pc EXCEPT ![t] = "susp_do"]
      /\ target' = [target EXCEPT ![t] = u] /\ UNCHANGED <<k, sleep_queue, thread_list, dead_lock>>
  BY DEF suspend_pthread, GoTo, lockVars
<1>2. /\ WorkStays /\ current[c] = t /\ mode[c] = "exec" /\ pc[t] = "run" /\ "suspend" \in workload.ops
      /\ UNCHANGED cpuVars
  BY <1>1, CallStays
<1>3. pc \in [Threads -> Steps] /\ target \in [Threads -> Threads \cup {NoThread}]
  BY DEF SchedInv, STypeOK
<1>4. /\ pc'[t] = "susp_do" /\ target'[t] = u
      /\ \A v \in Threads \ {t} : pc'[v] = pc[v] /\ target'[v] = target[v]
  BY <1>1, <1>3
<1>5. \A v \in Threads : SuspendFits(v)'
  <2>1. Solo /\ current[c] # NoThread
    BY <1>2 DEF SchedInv, SSteps
  <2>2. SuspendFits(t)'
    <3>1. Alive(u)'
      <4>1. u = t \/ pc'[u] = pc[u]
        BY <1>4
      <4> QED BY <1>1, <1>4, <4>1 DEF Alive, Ended
    <3> QED BY <1>4, <3>1 DEF SuspendFits, Alive, Ended
  <2>3. ASSUME NEW v \in Threads \ {t} PROVE SuspendFits(v)'
    <3>1. SUFFICES ASSUME pc[v] = "susp_do" PROVE FALSE
      BY <1>4 DEF SuspendFits
    <3>2. PICK d \in Cpus : current[d] = v
      BY <3>1 DEF LinksInv, Pinned
    <3>3. d # c /\ v # NoThread
      BY <1>2, <3>2
    <3> QED BY <2>1, <3>2, <3>3, OthersIdle
  <2> QED BY <2>2, <2>3
<1>6. \A v \in Threads : CancelFits(v)'
  BY <1>1, <1>2, <1>4 DEF LinksInv, CancelFits
<1> QED BY <1>1, <1>2, <1>5, <1>6, StartKept

\* The flag CANCELLED is added to a thread.
LEMMA CancelledFits ==
  ASSUME SchedInv, LinksInv, NEW u \in Threads, Turned(k, k', u, k.flags[u] \cup {"CANCELLED"}),
         UNCHANGED <<sleep_queue, thread_list, pc, target, dead_lock>>, WorkStays
  PROVE  ThreadFits(u)'
<1>1. PICK F, G : F = k.flags[u] /\ G = k'.flags[u] /\ G = F \cup {"CANCELLED"}
  BY TurnedParts DEF LinksInv
<1>2. \A f : f \in G <=> f \in F \/ f = "CANCELLED"
  BY <1>1
<1>3. k'.lists = k.lists /\ ThreadFits(u)
  BY DEF Turned, LinksInv
<1>4. FlagsFit(u)'
  BY <1>1, <1>2, <1>3 DEF ThreadFits, FlagsFit
<1>5. PlaceFits(u)'
  BY <1>1, <1>2, <1>3 DEF ThreadFits, PlaceFits
<1>6. JoinFits(u)'
  BY <1>1, <1>2, <1>3 DEF ThreadFits, JoinFits, Ended, Marking
<1>7. LifeFits(u)' /\ CallFits(u)'
  BY <1>3 DEF ThreadFits, LifeFits, CallFits, WorkStays
<1> QED BY <1>4, <1>5, <1>6, <1>7 DEF ThreadFits

\* pthread_cancel finds a joiner or marks the thread.
LEMMA CancelLinks ==
  ASSUME SchedInv, LinksInv, NEW c \in Cpus, NEW t \in Threads, NEW u \in Threads, pte_osThreadCancel(c, t, u)
  PROVE  LinksInv'
<1>1. /\ Calls(c, t, "cancel") /\ ~CancelPending(u) /\ UNCHANGED <<sleep_queue, thread_list, dead_lock>>
      /\ IF Has(k, u, {"JOINING"})
           THEN pc' = [pc EXCEPT ![t] = "cancel_do"] /\ target' = [target EXCEPT ![t] = u] /\ UNCHANGED k
           ELSE k' = SetFlags(k, u, {"CANCELLED"}) /\ UNCHANGED <<pc, target>>
  BY DEF pte_osThreadCancel, GoTo, lockVars
<1>2. /\ WorkStays /\ current[c] = t /\ mode[c] = "exec" /\ pc[t] = "run" /\ "cancel" \in workload.ops
      /\ UNCHANGED cpuVars
  BY <1>1, CallStays
<1>3. pc \in [Threads -> Steps] /\ target \in [Threads -> Threads \cup {NoThread}] /\ k \in Sound
  BY DEF SchedInv, STypeOK, LinksInv
<1>4. "CANCELLED" \notin k.flags[u] /\ \A v \in Threads : ~(pc[v] \in {"cancel_do", "cancel_mark"} /\ target[v] = u)
  BY <1>1 DEF CancelPending, Has
<1>5. CASE Has(k, u, {"JOINING"})
  <2>1. /\ pc'[t] = "cancel_do" /\ target'[t] = u /\ UNCHANGED k
        /\ \A v \in Threads \ {t} : pc'[v] = pc[v] /\ target'[v] = target[v]
    BY <1>1, <1>3, <1>5
  <2>2. "JOINING" \in k.flags[u]
    BY <1>5 DEF Has
  <2>3. \A v \in Threads : SuspendFits(v)'
    <3>1. ASSUME NEW v \in Threads, pc'[v] = "susp_do"
          PROVE  target'[v] \in Threads /\ pc'[target'[v]] \notin {"none", "exit_dead", "exit_sched", "dead"}
      <4>1. v # t /\ pc[v] = "susp_do" /\ target'[v] = target[v]
        BY <2>1, <3>1
      <4>2. target[v] \in Threads /\ pc[target[v]] \notin {"none", "exit_dead", "exit_sched", "dead"}
        BY <4>1 DEF LinksInv, SuspendFits, Alive, Ended
      <4>3. pc'[target[v]] = pc[target[v]] \/ pc'[target[v]] = "cancel_do"
        BY <2>1, <4>2
      <4> QED BY <4>1, <4>2, <4>3
    <3> QED BY <3>1 DEF SuspendFits, Alive, Ended
  <2>4. ASSUME NEW v \in Threads PROVE CancelFits(v)'
    <3>1. CASE v = t
      BY <1>4, <2>1, <2>2, <3>1 DEF CancelFits
    <3>2. CASE v # t
      <4>1. SUFFICES ASSUME pc'[v] \in {"cancel_do", "cancel_mark"}
            PROVE  /\ "JOINING" \in k'.flags[target'[v]] /\ "CANCELLED" \notin k'.flags[target'[v]]
                   /\ \A w \in Threads : pc'[w] \in {"cancel_do", "cancel_mark"} /\ target'[w] = target'[v] => w = v
        BY DEF CancelFits
      <4>2. pc[v] \in {"cancel_do", "cancel_mark"} /\ target'[v] = target[v] /\ target[v] # u
        BY <1>4, <2>1, <3>2, <4>1
      <4>3. CancelFits(v)
        BY DEF LinksInv
      <4>4. ASSUME NEW w \in Threads, pc'[w] \in {"cancel_do", "cancel_mark"}, target'[w] = target'[v] PROVE w = v
        <5>1. w # t
          BY <2>1, <4>2, <4>4
        <5> QED BY <2>1, <4>2, <4>3, <4>4, <5>1 DEF CancelFits
      <4> QED BY <2>1, <4>2, <4>3, <4>4 DEF CancelFits
    <3> QED BY <3>1, <3>2
  <2> QED BY <1>1, <1>2, <1>5, <2>3, <2>4, StartKept
<1>6. CASE ~Has(k, u, {"JOINING"})
  <2>1. Turned(k, k', u, k.flags[u] \cup {"CANCELLED"}) /\ UNCHANGED <<pc, target>>
    <3>1. k' = SetFlags(k, u, {"CANCELLED"}) /\ UNCHANGED <<pc, target>>
      BY <1>1, <1>6
    <3>2. {"CANCELLED"} \in SUBSET Flags
      BY DEF Flags
    <3> QED BY <1>3, <3>1, <3>2, FlagsTurned
  <2>2. ThreadFits(u)'
    BY <1>1, <1>2, <2>1, CancelledFits
  <2>3. /\ k' \in Sound /\ k'.flags[u] = k.flags[u] \cup {"CANCELLED"} /\ \A v \in Threads \ {u} : Same(k, k', v)
        /\ \A m \in Lists : Contains(k'.lists[m], u) <=> Contains(k.lists[m], u)
    BY <1>3, <2>1, TurnedParts
  <2>4. CASE u # t
    <3>1. KeepsRunning(u)
      BY <2>3 DEF KeepsRunning
    <3> QED BY <1>1, <1>2, <1>4, <2>1, <2>2, <2>3, <2>4, <3>1, PairStepKept
  <2>5. CASE u = t
    <3>1. "RUNNABLE" \in k.flags[t] /\ "RUNNING" \in k.flags[t]
      BY <1>2, RunningThread
    <3>2. {"RUNNABLE", "RUNNING"} \subseteq k'.flags[t]
      BY <2>3, <2>5, <3>1
    <3>3. "run" \in Steps \ {"cancel_do", "cancel_mark", "susp_do"} /\ pc' = [pc EXCEPT ![t] = "run"]
      BY <1>2, <1>3, <2>1, StepNames
    <3>4. \A v \in Threads \ {t} : pc[v] \in {"cancel_do", "cancel_mark"} /\ target[v] = t => KeepsJoining(t)
      BY <1>4, <2>5
    <3>5. ~Ended(t) /\ Distinct(sleep_queue') /\ UNCHANGED thread_list /\ dead_lock' = dead_lock
      BY <1>1, <1>2 DEF Ended, LinksInv
    <3>6. \A v \in Threads \ {t} : /\ Same(k, k', v)
                                   /\ Contains(sleep_queue', v) => Contains(sleep_queue, v)
                                   /\ target'[v] = target[v]
      BY <1>1, <2>1, <2>3, <2>5
    <3> QED BY <1>2, <2>2, <2>3, <2>5, <3>2, <3>3, <3>4, <3>5, <3>6, LoneStepKept
  <2> QED BY <2>4, <2>5
<1> QED BY <1>5, <1>6

\* A thread found alive by pthread_kill is outside every call but semaphore_pend, with
\* no sleep and no join in the workload.
LEMMA SuspendedStep ==
  ASSUME SchedInv, LinksInv, NEW c \in Cpus, NEW t \in Threads, current[c] = t, mode[c] = "exec", pc[t] = "susp_do"
  PROVE  target[t] \in Threads /\ (target[t] = t \/ pc[target[t]] \in {"run", "yield", "hib_sched"})
<1>1. PICK u \in Threads : u = target[t] /\ Alive(u)
  BY DEF LinksInv, SuspendFits
<1>2. "suspend" \in workload.ops /\ Solo
  BY DEF LinksInv, ThreadFits, CallFits, SchedInv, SSteps
<1>3. "sleep" \notin workload.ops /\ "join" \notin workload.ops
  BY <1>2 DEF LinksInv, Careful
<1>4. ThreadFits(u) /\ CancelFits(u) /\ Pinned(u)
  BY DEF LinksInv
<1>5. pc[u] \notin {"sleep_q", "sleep_sched", "sleep_done", "join_lock", "join_add", "join_flag", "join_sched", "join_clear"}
  BY <1>3, <1>4 DEF ThreadFits, CallFits, JoinSteps
<1>6. pc[u] \notin {"cancel_do", "cancel_mark"}
  <2>1. SUFFICES ASSUME pc[u] \in {"cancel_do", "cancel_mark"} PROVE FALSE
    OBVIOUS
  <2>2. target[u] \in Threads /\ "JOINING" \in k.flags[target[u]]
    BY <1>4, <2>1 DEF CancelFits, SchedInv, SSteps
  <2>3. ThreadFits(target[u])
    BY <2>2 DEF LinksInv
  <2>4. "join" \in workload.ops
    BY <2>2, <2>3 DEF ThreadFits, FlagsFit, CallFits, JoinSteps
  <2> QED BY <1>3, <2>4
<1>7. u # t => pc[u] # "susp_do"
  <2>1. SUFFICES ASSUME u # t, pc[u] = "susp_do" PROVE FALSE
    OBVIOUS
  <2>2. PICK d \in Cpus : current[d] = u
    BY <1>4, <2>1 DEF Pinned
  <2>3. d # c /\ u # NoThread /\ current[c] # NoThread
    BY <2>1, <2>2
  <2> QED BY <1>2, <2>2, <2>3, OthersIdle
<1>8. pc[u] \in Steps /\ pc[u] \notin {"none", "exit_dead", "exit_sched", "dead"}
  BY <1>1 DEF SchedInv, STypeOK, Alive, Ended
<1> QED BY <1>1, <1>5, <1>6, <1>7, <1>8, StepNames

\* suspend_thread.
LEMMA SuspendLinks ==
  ASSUME SchedInv, LinksInv, NEW c \in Cpus, NEW t \in Threads, SuspendDo(c, t)
  PROVE  LinksInv'
<1>1. /\ Continues(c, t, "susp_do") /\ k' = suspend_thread(k, target[t])
      /\ target' = [target EXCEPT ![t] = NoThread]
      /\ pc' = [pc EXCEPT ![t] = IF target[t] = t THEN "yield" ELSE "run"]
      /\ UNCHANGED <<sleep_queue, thread_list, dead_lock>>
  BY DEF SuspendDo, GoTo
<1>2. WorkStays /\ current[c] = t /\ mode[c] = "exec" /\ pc[t] = "susp_do" /\ UNCHANGED cpuVars
  BY <1>1, ContinueStays
<1>3. PICK u \in Threads : u = target[t] /\ (u = t \/ pc[u] \in {"run", "yield", "hib_sched"})
  BY <1>2, SuspendedStep
<1>4. PICK F : F = k.flags[u]
  OBVIOUS
<1>5. k \in Sound /\ ThreadFits(u) /\ Solo
  BY <1>2 DEF LinksInv, SchedInv, SSteps
<1>6. pc[u] \in {"run", "yield", "hib_sched", "susp_do"}
  BY <1>2, <1>3
<1>7. "SLEEP" \notin F /\ "JOINING" \notin F /\ "DYING" \notin F
  BY <1>4, <1>5, <1>6 DEF ThreadFits, FlagsFit
<1>8. /\ k' \in Sound /\ k'.flags[u] = (F \ {"RUNNABLE", "RUNNING"}) \cup {"SUSPENDED"}
      /\ \A v \in Threads \ {u} : Same(k, k', v)
      /\ \A m \in Lists : ~Contains(k'.lists[m], u)
  <2>1. CASE F \cap {"HIBERNATION", "SLEEP", "JOINING"} = {}
    <3>1. Moved(k, k', u, (F \ {"RUNNABLE", "RUNNING"}) \cup {"SUSPENDED"}, Off)
      BY <1>1, <1>3, <1>4, <1>5, <2>1, StopMoved
    <3> QED BY <1>5, <3>1, MovedParts
  <2>2. CASE F \cap {"HIBERNATION", "SLEEP", "JOINING"} # {}
    <3>1. Turned(k, k', u, (F \ {"RUNNABLE", "RUNNING"}) \cup {"SUSPENDED"})
      BY <1>1, <1>3, <1>4, <1>5, <2>2, StopMoved
    <3>2. "RUNNABLE" \notin F
      BY <1>4, <1>5, <1>7, <2>2 DEF ThreadFits, FlagsFit
    <3>3. \A m \in Lists : ~Contains(k.lists[m], u)
      BY <1>4, <1>5, <1>6, <3>2 DEF ThreadFits, PlaceFits, JoinSteps, Lists
    <3> QED BY <1>5, <3>1, <3>3, TurnedParts
  <2> QED BY <2>1, <2>2
<1>9. ~Contains(sleep_queue, u) /\ u \in thread_list
  BY <1>5, <1>6 DEF ThreadFits, LifeFits
<1>10. KeepsJoining(u)
  BY <1>4, <1>7 DEF KeepsJoining
<1>11. pc \in [Threads -> Steps] /\ target \in [Threads -> Threads \cup {NoThread}]
  BY DEF SchedInv, STypeOK
<1>12. pc'[u] \in {"run", "yield", "hib_sched"}
  BY <1>1, <1>3, <1>11
<1>13. ThreadFits(u)'
  <2>1. FlagsFit(u)'
    BY <1>7, <1>8, <1>12 DEF FlagsFit
  <2>2. PlaceFits(u)'
    BY <1>8 DEF PlaceFits, Lists
  <2>3. JoinFits(u)' /\ LifeFits(u)' /\ CallFits(u)'
    BY <1>1, <1>9, <1>12 DEF JoinFits, LifeFits, CallFits, JoinSteps
  <2> QED BY <2>1, <2>2, <2>3 DEF ThreadFits
<1>14. CASE u = t
  <2>1. pc' = [pc EXCEPT ![t] = "yield"] /\ "yield" \in Steps \ {"cancel_do", "cancel_mark", "susp_do"}
    BY <1>1, <1>3, <1>14, StepNames
  <2>2. ~Ended(t) /\ "yield" \notin Executing /\ Distinct(sleep_queue')
    BY <1>1, <1>2 DEF Ended, Executing, LinksInv
  <2>3. \A v \in Threads \ {t} : /\ Same(k, k', v)
                                 /\ Contains(sleep_queue', v) => Contains(sleep_queue, v)
                                 /\ target'[v] = target[v]
    BY <1>1, <1>8, <1>11, <1>14
  <2> QED BY <1>1, <1>2, <1>8, <1>10, <1>13, <1>14, <2>1, <2>2, <2>3, LoneStepKept
<1>15. CASE u # t
  <2>1. pc'[t] = "run" /\ \A v \in Threads \ {t} : pc'[v] = pc[v] /\ target'[v] = target[v]
    BY <1>1, <1>3, <1>11, <1>15
  <2> QED BY <1>1, <1>2, <1>5, <1>8, <1>10, <1>13, <1>15, <2>1, PairStepKept
<1> QED BY <1>14, <1>15

\* sched_wake_joiner: the joiner is taken off its list and woken, and not marked yet.
LEMMA WakeJoinerLinks ==
  ASSUME SchedInv, LinksInv, NEW c \in Cpus, NEW t \in Threads, sched_wake_joiner(c, t)
  PROVE  LinksInv'
<1>1. /\ Continues(c, t, "cancel_do")
      /\ k' = wake(list_del_init(k, target[t]), target[t])
      /\ pc' = [pc EXCEPT ![t] = "cancel_mark"]
      /\ UNCHANGED <<sleep_queue, thread_list, target, dead_lock>>
  BY DEF sched_wake_joiner, GoTo, lockVars
<1>2. WorkStays /\ current[c] = t /\ mode[c] = "exec" /\ pc[t] = "cancel_do" /\ UNCHANGED cpuVars
  BY <1>1, ContinueStays
<1>3. PICK u \in Threads : u = target[t]
  BY <1>2 DEF SchedInv, SSteps
<1>4. PICK F : F = k.flags[u]
  OBVIOUS
<1>5. k \in Sound /\ ThreadFits(u) /\ ThreadFits(t) /\ CancelFits(t)
  BY DEF LinksInv
<1>6. "JOINING" \in F /\ "CANCELLED" \notin F /\ pc[u] \in {"join_sched", "join_clear"}
  BY <1>2, <1>3, <1>4, <1>5 DEF CancelFits, ThreadFits, FlagsFit
<1>7. u # t /\ target[u] \in Threads
  BY <1>2, <1>5, <1>6 DEF ThreadFits, JoinFits, JoinSteps
<1>8. "RUNNABLE" \notin F
  <2>1. SUFFICES ASSUME "RUNNABLE" \in F PROVE FALSE
    OBVIOUS
  <2>2. ~Marking(u)
    BY <1>2, <1>3, <1>5 DEF CancelFits, Marking
  <2>3. Ended(target[u]) /\ ThreadFits(target[u])
    BY <1>4, <1>5, <1>6, <1>7, <2>1, <2>2 DEF ThreadFits, JoinFits, JoinSteps, LinksInv
  <2>4. "exit" \in workload.ops
    BY <2>3 DEF ThreadFits, CallFits, Ended
  <2>5. "cancel" \in workload.ops /\ "join" \in workload.ops
    BY <1>2, <1>5, <1>6 DEF ThreadFits, CallFits, JoinSteps
  <2> QED BY <2>4, <2>5 DEF LinksInv, Careful
<1>9. F \cap {"DYING", "RUNNABLE", "HIBERNATION", "SUSPENDED"} = {} /\ "SLEEP" \notin F
  BY <1>4, <1>5, <1>6, <1>8 DEF ThreadFits, FlagsFit
<1>10. k' \in Sound /\ Woken(k, k', u) /\ \A v \in Threads \ {u} : Same(k, k', v)
  BY <1>1, <1>3, <1>4, <1>5, <1>9, UnlinkWoken
<1>11. k'.flags[u] = F \cup {"RUNNABLE"} /\ \A m \in Lists : Contains(k'.lists[m], u) <=> m = READY
  BY <1>4, <1>10 DEF Woken
<1>12. pc'[t] = "cancel_mark" /\ \A v \in Threads \ {t} : pc'[v] = pc[v] /\ target'[v] = target[v]
  BY <1>1 DEF SchedInv, STypeOK
<1>13. READY \in Lists /\ DEAD # READY /\ DEAD \in Lists /\ Threads \subseteq Lists /\ READY \notin Threads
  BY DEF Lists, READY, DEAD
<1>14. ThreadFits(u)'
  <2>1. FlagsFit(u)'
    BY <1>6, <1>7, <1>9, <1>11, <1>12 DEF FlagsFit
  <2>2. PlaceFits(u)'
    BY <1>11, <1>13 DEF PlaceFits
  <2>3. Marking(u)'
    BY <1>1, <1>3, <1>12 DEF Marking
  <2>4. JoinFits(u)'
    BY <1>1, <1>6, <1>7, <1>11, <1>12, <2>3 DEF JoinFits, JoinSteps
  <2>5. LifeFits(u)' /\ CallFits(u)'
    BY <1>1, <1>2, <1>5, <1>6, <1>7, <1>12 DEF ThreadFits, LifeFits, CallFits, JoinSteps, WorkStays
  <2> QED BY <2>1, <2>2, <2>4, <2>5 DEF ThreadFits
<1>15. KeepsRunning(u) /\ KeepsJoining(u)
  BY <1>4, <1>11 DEF KeepsRunning, KeepsJoining
<1>16. \A v \in Threads : CancelFits(v)' /\ SuspendFits(v)'
  <2>1. ASSUME NEW v \in Threads PROVE CancelFits(v)'
    <3>1. SUFFICES ASSUME pc'[v] \in {"cancel_do", "cancel_mark"}
          PROVE  /\ "JOINING" \in k'.flags[target[v]] /\ "CANCELLED" \notin k'.flags[target[v]]
                 /\ \A w \in Threads : pc'[w] \in {"cancel_do", "cancel_mark"} /\ target[w] = target[v] => w = v
      BY <1>1 DEF CancelFits
    <3>2. \A w \in Threads : pc'[w] \in {"cancel_do", "cancel_mark"} <=> pc[w] \in {"cancel_do", "cancel_mark"}
      BY <1>2, <1>12
    <3>3. CancelFits(v) /\ target[v] \in Threads
      BY <3>1, <3>2 DEF LinksInv, SchedInv, SSteps
    <3>4. KeepsJoining(target[v])
      <4>1. CASE target[v] = u
        BY <1>15, <4>1
      <4>2. CASE target[v] # u
        BY <1>10, <3>3, <4>2 DEF KeepsJoining, Same
      <4> QED BY <4>1, <4>2
    <3> QED BY <3>1, <3>2, <3>3, <3>4 DEF CancelFits, KeepsJoining
  <2>2. ASSUME NEW v \in Threads PROVE SuspendFits(v)'
    <3>1. SUFFICES ASSUME pc'[v] = "susp_do" PROVE target[v] \in Threads /\ Alive(target[v])'
      BY <1>1 DEF SuspendFits, Alive, Ended
    <3>2. pc[v] = "susp_do" /\ SuspendFits(v)
      BY <1>12, <3>1 DEF LinksInv
    <3>3. target[v] \in Threads /\ Alive(target[v])
      BY <3>2 DEF SuspendFits
    <3>4. pc'[target[v]] = pc[target[v]] \/ pc'[target[v]] = "cancel_mark"
      BY <1>12, <3>3
    <3>5. Alive(target[v])' <=> pc'[target[v]] \notin {"none", "exit_dead", "exit_sched", "dead"}
      BY <1>1 DEF Alive, Ended
    <3> QED BY <3>3, <3>4, <3>5 DEF Alive, Ended
  <2> QED BY <2>1, <2>2
<1>17. "cancel" \in workload.ops
  BY <1>2, <1>5 DEF ThreadFits, CallFits
<1> QED BY <1>1, <1>2, <1>7, <1>10, <1>12, <1>14, <1>15, <1>16, <1>17, PairStepCore

\* set_cancelled: the joiner is marked, wherever it is by now in its call.
LEMMA MarkLinks ==
  ASSUME SchedInv, LinksInv, NEW c \in Cpus, NEW t \in Threads, set_cancelled(c, t)
  PROVE  LinksInv'
<1>1. /\ Continues(c, t, "cancel_mark") /\ k' = SetFlags(k, target[t], {"CANCELLED"})
      /\ target' = [target EXCEPT ![t] = NoThread] /\ pc' = [pc EXCEPT ![t] = "run"]
      /\ UNCHANGED <<sleep_queue, thread_list, dead_lock>>
  BY DEF set_cancelled, GoTo, lockVars
<1>2. WorkStays /\ current[c] = t /\ mode[c] = "exec" /\ pc[t] = "cancel_mark" /\ UNCHANGED cpuVars
  BY <1>1, ContinueStays
<1>3. PICK u \in Threads : u = target[t]
  BY <1>2 DEF SchedInv, SSteps
<1>4. PICK F : F = k.flags[u]
  OBVIOUS
<1>5. k \in Sound /\ ThreadFits(u) /\ CancelFits(t)
  BY DEF LinksInv
<1>6. "JOINING" \in F /\ pc[u] \in {"join_sched", "join_clear"}
  BY <1>2, <1>3, <1>4, <1>5 DEF CancelFits, ThreadFits, FlagsFit
<1>7. u # t /\ target[u] \in Threads
  BY <1>2, <1>5, <1>6 DEF ThreadFits, JoinFits, JoinSteps
<1>8. Turned(k, k', u, F \cup {"CANCELLED"})
  BY <1>1, <1>3, <1>4, <1>5, FlagsTurned DEF Flags
<1>9. /\ k' \in Sound /\ k'.flags[u] = F \cup {"CANCELLED"} /\ k'.lists = k.lists
      /\ \A v \in Threads \ {u} : Same(k, k', v)
  <2>1. k'.lists = k.lists
    BY <1>8 DEF Turned
  <2>2. k' \in Sound /\ k'.flags[u] = F \cup {"CANCELLED"} /\ \A v \in Threads \ {u} : Same(k, k', v)
    BY <1>5, <1>8, TurnedParts
  <2> QED BY <2>1, <2>2
<1>10. pc'[t] = "run" /\ \A v \in Threads \ {t} : pc'[v] = pc[v] /\ target'[v] = target[v]
  BY <1>1 DEF SchedInv, STypeOK
<1>11. pc'[u] = pc[u] /\ target'[u] = target[u]
  BY <1>7, <1>10
<1>12. ThreadFits(u)'
  <2>1. \A f : f \in k'.flags[u] <=> f \in F \/ f = "CANCELLED"
    BY <1>9
  <2>2. FlagsFit(u)'
    BY <1>4, <1>5, <1>11, <2>1 DEF ThreadFits, FlagsFit
  <2>3. PlaceFits(u)'
    BY <1>1, <1>4, <1>5, <1>9, <1>11, <2>1 DEF ThreadFits, PlaceFits
  <2>4. JoinFits(u)'
    BY <1>4, <1>5, <1>6, <1>7, <1>9, <1>11, <2>1 DEF ThreadFits, JoinFits, JoinSteps
  <2>5. LifeFits(u)' /\ CallFits(u)'
    BY <1>1, <1>2, <1>5, <1>11 DEF ThreadFits, LifeFits, CallFits, WorkStays
  <2> QED BY <2>2, <2>3, <2>4, <2>5 DEF ThreadFits
<1>13. \A v \in Threads \ {t} : pc[v] \in {"cancel_do", "cancel_mark"} /\ target[v] = u => KeepsJoining(u)
  BY <1>2, <1>3, <1>5 DEF CancelFits
<1>14. KeepsRunning(u)
  BY <1>4, <1>9 DEF KeepsRunning
<1> QED BY <1>1, <1>2, <1>3, <1>7, <1>9, <1>10, <1>12, <1>13, <1>14, PairStepKept

\* A thread is created.
LEMMA CreateLinks ==
  ASSUME SchedInv, LinksInv, NEW c \in Cpus, NEW t \in Threads, NEW u \in Threads, create_thread(c, t, u)
  PROVE  LinksInv'
<1>1. /\ Calls(c, t, "create") /\ pc[u] = "none" /\ thread_list' = thread_list \cup {u} /\ k' = make_runnable(k, u)
      /\ pc' = [pc EXCEPT ![t] = "yield", ![u] = "run"] /\ UNCHANGED <<sleep_queue, target, dead_lock>>
  BY DEF create_thread, lockVars
<1>2. WorkStays /\ current[c] = t /\ mode[c] = "exec" /\ pc[t] = "run" /\ UNCHANGED cpuVars
  BY <1>1, CallStays
<1>3. PICK F : F = k.flags[u]
  OBVIOUS
<1>4. u # t /\ k \in Sound /\ ThreadFits(u)
  BY <1>1, <1>2 DEF LinksInv
<1>5. /\ F \cap {"RUNNABLE", "HIBERNATION", "SUSPENDED", "SLEEP", "JOINING", "DYING"} = {}
      /\ u \notin thread_list /\ ~Contains(sleep_queue, u)
  BY <1>1, <1>3, <1>4 DEF ThreadFits, FlagsFit, LifeFits
<1>6. \A m \in Lists : ~Contains(k.lists[m], u)
  BY <1>1, <1>3, <1>4, <1>5 DEF ThreadFits, PlaceFits, JoinSteps, Lists
<1>7. Moved(k, k', u, F \cup {"RUNNABLE"}, READY)
  BY <1>1, <1>3, <1>4, <1>6, RunnableMoved
<1>8. /\ k' \in Sound /\ k'.flags[u] = F \cup {"RUNNABLE"} /\ \A v \in Threads \ {u} : Same(k, k', v)
      /\ \A m \in Lists : Contains(k'.lists[m], u) <=> m = READY
  BY <1>4, <1>7, MovedParts
<1>9. pc'[t] = "yield" /\ pc'[u] = "run" /\ \A v \in Threads \ {t, u} : pc'[v] = pc[v]
  BY <1>1, <1>4 DEF SchedInv, STypeOK
<1>10. READY \in Lists /\ DEAD # READY /\ DEAD \in Lists /\ Threads \subseteq Lists /\ READY \notin Threads
  BY DEF Lists, READY, DEAD
<1>11. ThreadFits(u)'
  <2>1. FlagsFit(u)'
    BY <1>5, <1>8, <1>9 DEF FlagsFit
  <2>2. PlaceFits(u)'
    BY <1>8, <1>10 DEF PlaceFits
  <2>3. JoinFits(u)' /\ LifeFits(u)' /\ CallFits(u)'
    BY <1>1, <1>5, <1>9 DEF JoinFits, LifeFits, CallFits, JoinSteps
  <2> QED BY <2>1, <2>2, <2>3 DEF ThreadFits
<1>12. t \in thread_list
  BY <1>2, RunningThread
<1>13. ThreadFits(t)'
  BY <1>1, <1>2, <1>4, <1>8, <1>9, <1>12, BusyFits DEF Same
<1>14. \A w \in Threads : Ended(w) => pc'[w] \in {"exit_dead", "exit_sched", "dead"}
  BY <1>1, <1>2, <1>9 DEF Ended
<1>15. ASSUME NEW v \in Threads \ {t, u} PROVE Stays(v) /\ pc'[v] = pc[v]
  <2>1. MarkStays(v)
    BY <1>1, <1>2, <1>9 DEF MarkStays, Marking
  <2> QED BY <1>1, <1>2, <1>8, <1>9, <1>14, <2>1, StaysSame
<1>16. KeepsRunning(u)
  BY <1>3, <1>8 DEF KeepsRunning
<1>17. ASSUME NEW v \in Threads \ {t}, pc[v] \in {"cancel_do", "cancel_mark"} PROVE KeepsJoining(target[v])
  <2>1. target[v] \in Threads /\ "JOINING" \in k.flags[target[v]]
    BY <1>17 DEF SchedInv, SSteps, LinksInv, CancelFits
  <2>2. target[v] # u
    BY <1>3, <1>5, <2>1
  <2> QED BY <1>8, <2>1, <2>2 DEF KeepsJoining, Same
<1>18. \A v \in Threads : CancelFits(v)' /\ SuspendFits(v)'
  BY <1>1, <1>2, <1>9, <1>17, ThreadCalls
<1>19. /\ Distinct(sleep_queue') /\ {t, u} \in SUBSET Threads /\ t \in {t, u} /\ thread_list \subseteq thread_list'
       /\ "yield" \notin Executing
  BY <1>1 DEF LinksInv, Executing
<1>20. \A v \in {t, u} : ThreadFits(v)'
  BY <1>11, <1>13
<1>21. \A v \in {t, u} \ {t} : /\ Solo \/ KeepsRunning(v)
                               /\ pc'[v] = pc[v] \/ (v \notin thread_list /\ pc'[v] = "run")
  BY <1>5, <1>9, <1>16
<1>22. (pc'[t] \in Executing => {"RUNNABLE", "RUNNING"} \subseteq k'.flags[t]) /\ k' \in Sound
  BY <1>8, <1>9, <1>19
<1>23. PICK A \in SUBSET Threads : A = {t, u}
  BY <1>19
<1>24. /\ \A v \in Threads \ A : Stays(v) /\ pc'[v] = pc[v]
       /\ \A v \in A : ThreadFits(v)'
       /\ \A v \in A \ {t} : /\ Solo \/ KeepsRunning(v)
                             /\ pc'[v] = pc[v] \/ (v \notin thread_list /\ pc'[v] = "run")
  BY <1>15, <1>20, <1>21, <1>23
<1> QED BY <1>2, <1>18, <1>19, <1>22, <1>23, <1>24, ThreadStepKept

\* A thread on the list of a joinee waits for it, and can be woken.
LEMMA JoinerIsBlocked ==
  ASSUME LinksInv, NEW t \in Threads, NEW u \in Threads, Contains(k.lists[t], u)
  PROVE  /\ k.flags[u] \cap {"DYING", "RUNNABLE", "HIBERNATION", "SUSPENDED"} = {}
         /\ pc[u] \in JoinSteps /\ target[u] = t
<1>1. ThreadFits(u) /\ k \in Sound /\ READY \in Lists /\ Threads \subseteq Lists
  BY DEF LinksInv, Lists
<1>2. pc[u] \in JoinSteps /\ target[u] = t
  BY <1>1 DEF ThreadFits, PlaceFits
<1>3. ~Contains(k.lists[READY], u)
  BY <1>1, SoundParts DEF Proper
<1>4. "RUNNABLE" \notin k.flags[u]
  BY <1>1, <1>3 DEF ThreadFits, PlaceFits
<1> QED BY <1>1, <1>2, <1>4 DEF ThreadFits, FlagsFit, JoinSteps

\* exit_thread puts the thread on the dead queue and wakes its joiners.
LEMMA ExitDeadLinks ==
  ASSUME SchedInv, LinksInv, NEW c \in Cpus, NEW t \in Threads, ExitDead(c, t)
  PROVE  LinksInv'
<1>1. /\ Continues(c, t, "exit_dead")
      /\ k' = sched_wake_joiners(list_add_tail(SetFlags(k, t, {"DYING"}), t, DEAD), t)
      /\ pc' = [pc EXCEPT ![t] = "exit_sched"] /\ UNCHANGED <<sleep_queue, thread_list, target, dead_lock>>
  BY DEF ExitDead, GoTo, lockVars
<1>2. WorkStays /\ current[c] = t /\ mode[c] = "exec" /\ pc[t] = "exit_dead" /\ UNCHANGED cpuVars
  BY <1>1, ContinueStays
<1>3. PICK F : F = k.flags[t]
  OBVIOUS
<1>4. /\ F \cap {"RUNNABLE", "HIBERNATION", "SUSPENDED", "SLEEP", "JOINING", "DYING"} = {}
      /\ k \in Sound /\ t \in thread_list /\ (\A m \in Lists : ~Contains(k.lists[m], t)) /\ ~Contains(sleep_queue, t)
  BY <1>2, <1>3, BlockedThread
<1>5. PICK r : r = SetFlags(k, t, {"DYING"})
  OBVIOUS
<1>6. PICK x : x = list_add_tail(r, t, DEAD)
  OBVIOUS
<1>7. READY \in Lists /\ DEAD # READY /\ DEAD \in Lists /\ Threads \subseteq Lists /\ READY \notin Threads /\ DEAD \notin Threads
  BY DEF Lists, READY, DEAD
<1>8. Moved(k, x, t, F \cup {"DYING"}, DEAD)
  <2>1. Turned(k, r, t, F \cup {"DYING"})
    BY <1>3, <1>4, <1>5, FlagsTurned DEF Flags
  <2>2. r \in Sound /\ r.flags[t] = F \cup {"DYING"} /\ \A m \in Lists : ~Contains(r.lists[m], t)
    BY <1>4, <2>1, TurnedParts
  <2>3. Moved(r, x, t, F \cup {"DYING"}, DEAD)
    BY <1>6, <1>7, <2>2, LinkMoved
  <2> QED BY <1>4, <2>1, <2>3, TurnedMoved
<1>9. /\ x \in Sound /\ x.flags[t] = F \cup {"DYING"} /\ \A u \in Threads \ {t} : Same(k, x, u)
      /\ \A m \in Lists : Contains(x.lists[m], t) <=> m = DEAD
  BY <1>4, <1>8, MovedParts
<1>10. ~Contains(x.lists[t], t) /\ \A u \in Threads \ {t} : Contains(x.lists[t], u) <=> Contains(k.lists[t], u)
  BY <1>7, <1>9 DEF Same
<1>11. \A u \in Threads : Contains(k.lists[t], u) =>
         /\ k.flags[u] \cap {"DYING", "RUNNABLE", "HIBERNATION", "SUSPENDED"} = {}
         /\ pc[u] \in JoinSteps /\ target[u] = t
  BY JoinerIsBlocked
<1>12. \A u \in Threads : Contains(x.lists[t], u) => x.flags[u] \cap {"DYING", "RUNNABLE", "HIBERNATION", "SUSPENDED"} = {}
  BY <1>9, <1>10, <1>11 DEF Same
<1>13. /\ k' \in Sound
       /\ \A u \in Threads : IF Contains(x.lists[t], u) THEN Woken(x, k', u) ELSE Same(x, k', u)
  BY <1>1, <1>5, <1>6, <1>9, <1>12, JoinersWoken
<1>14. \A u \in Threads \ {t} : IF Contains(k.lists[t], u) THEN Woken(k, k', u) ELSE Same(k, k', u)
  BY <1>9, <1>10, <1>13, SameSame
<1>15. /\ k'.flags[t] = F \cup {"DYING"} /\ \A m \in Lists : Contains(k'.lists[m], t) <=> m = DEAD
  BY <1>9, <1>10, <1>13 DEF Same
<1>16. pc'[t] = "exit_sched" /\ \A u \in Threads \ {t} : pc'[u] = pc[u]
  BY <1>1 DEF SchedInv, STypeOK
<1>17. ThreadFits(t)'
  <2>1. FlagsFit(t)'
    BY <1>4, <1>15, <1>16 DEF FlagsFit
  <2>2. PlaceFits(t)'
    BY <1>1, <1>4, <1>7, <1>15, <1>16 DEF PlaceFits
  <2>3. "exit" \in workload.ops
    BY <1>2 DEF LinksInv, ThreadFits, CallFits
  <2>4. JoinFits(t)' /\ LifeFits(t)' /\ CallFits(t)'
    BY <1>1, <1>2, <1>4, <1>16, <2>3 DEF JoinFits, LifeFits, CallFits, JoinSteps, WorkStays
  <2> QED BY <2>1, <2>2, <2>4 DEF ThreadFits
<1>18. \A w \in Threads : Ended(w) => pc'[w] \in {"exit_dead", "exit_sched", "dead"}
  BY <1>16 DEF Ended
<1>19. ASSUME NEW u \in Threads \ {t} PROVE Stays(u) /\ pc'[u] = pc[u]
  <2>3. MarkStays(u)
    BY <1>1, <1>2, <1>16 DEF MarkStays, Marking
  <2>1. CASE Contains(k.lists[t], u)
    <3>1. Woken(k, k', u) /\ pc[u] \in JoinSteps /\ target[u] = t /\ pc[u] # "join_add"
      BY <1>11, <1>14, <2>1 DEF JoinSteps
    <3>2. \A v \in Threads : ~Contains(k'.lists[v], u)
      BY <1>7, <3>1 DEF Woken
    <3> QED BY <1>1, <1>2, <1>16, <2>3, <3>1, <3>2 DEF Stays, Goes, WorkStays
  <2>2. CASE ~Contains(k.lists[t], u)
    BY <1>1, <1>2, <1>14, <1>16, <1>18, <2>2, <2>3, StaysSame
  <2> QED BY <2>1, <2>2
<1>20. ASSUME NEW v \in Threads \ {t}, pc[v] \in {"cancel_do", "cancel_mark"} PROVE KeepsJoining(target[v])
  <2>1. target[v] \in Threads
    BY <1>20 DEF SchedInv, SSteps
  <2>2. CASE target[v] = t
    BY <1>3, <1>4, <2>2 DEF KeepsJoining
  <2>3. CASE target[v] # t
    <3>1. Same(k, k', target[v]) \/ Woken(k, k', target[v])
      BY <1>14, <2>1, <2>3
    <3> QED BY <3>1 DEF KeepsJoining, Same, Woken
  <2> QED BY <2>2, <2>3
<1>21. \A u \in Threads : CancelFits(u)' /\ SuspendFits(u)'
  BY <1>1, <1>2, <1>16, <1>20, ThreadCalls
<1>22. /\ Distinct(sleep_queue') /\ {t} \in SUBSET Threads /\ t \in {t} /\ thread_list \subseteq thread_list'
       /\ "exit_sched" \notin Executing
  BY <1>1 DEF LinksInv, Executing
<1>23. \A v \in {t} : ThreadFits(v)'
  BY <1>17
<1>24. (pc'[t] \in Executing => {"RUNNABLE", "RUNNING"} \subseteq k'.flags[t]) /\ k' \in Sound
  BY <1>13, <1>16, <1>22
<1>25. PICK A \in SUBSET Threads : A = {t}
  BY <1>22
<1>26. /\ \A v \in Threads \ A : Stays(v) /\ pc'[v] = pc[v]
       /\ \A v \in A : ThreadFits(v)'
       /\ \A v \in A \ {t} : /\ Solo \/ KeepsRunning(v)
                             /\ pc'[v] = pc[v] \/ (v \notin thread_list /\ pc'[v] = "run")
  BY <1>19, <1>23, <1>25
<1> QED BY <1>2, <1>21, <1>22, <1>24, <1>25, <1>26, ThreadStepKept

-----------------------------------------------------------------------------
(* Steps of a processor *)

\* Threads being cancelled and suspended are as before when threads only enter schedule().
LEMMA GoingCalls ==
  ASSUME SchedInv, LinksInv, UNCHANGED target, \A u \in Threads : Goes(u) /\ KeepsJoining(u)
  PROVE  \A u \in Threads : CancelFits(u)' /\ SuspendFits(u)'
<1>1. ASSUME NEW u \in Threads
      PROVE  /\ pc'[u] \in {"cancel_do", "cancel_mark", "susp_do"} => pc'[u] = pc[u]
             /\ Alive(u) => pc'[u] \notin {"none", "exit_dead", "exit_sched", "dead"}
  BY AfterNames DEF Goes, Alive, Ended
<1> TAKE u \in Threads
<1>2. CancelFits(u)'
  <2>1. CancelFits(u)
    BY DEF LinksInv
  <2>2. SUFFICES ASSUME pc'[u] \in {"cancel_do", "cancel_mark"}
        PROVE  /\ "JOINING" \in k'.flags[target[u]] /\ "CANCELLED" \notin k'.flags[target[u]]
               /\ \A v \in Threads : pc'[v] \in {"cancel_do", "cancel_mark"} /\ target[v] = target[u] => v = u
    BY DEF CancelFits
  <2>3. pc[u] \in {"cancel_do", "cancel_mark"}
    BY <1>1, <2>2
  <2>4. target[u] \in Threads
    BY <2>3 DEF SchedInv, SSteps
  <2>5. "JOINING" \in k'.flags[target[u]] /\ "CANCELLED" \notin k'.flags[target[u]]
    BY <2>1, <2>3, <2>4 DEF CancelFits, KeepsJoining
  <2>6. \A v \in Threads : pc'[v] \in {"cancel_do", "cancel_mark"} => pc[v] \in {"cancel_do", "cancel_mark"}
    BY <1>1
  <2> QED BY <2>1, <2>3, <2>5, <2>6 DEF CancelFits
<1>3. SuspendFits(u)'
  <2>1. SUFFICES ASSUME pc'[u] = "susp_do"
        PROVE  target[u] \in Threads /\ pc'[target[u]] \notin {"none", "exit_dead", "exit_sched", "dead"}
    BY DEF SuspendFits, Alive, Ended
  <2>2. pc[u] = "susp_do"
    BY <1>1, <2>1
  <2>3. target[u] \in Threads /\ Alive(target[u])
    BY <2>2 DEF LinksInv, SuspendFits
  <2> QED BY <1>1, <2>3
<1> QED BY <1>2, <1>3

\* A processor that a step does not concern.
LEMMA OtherCpuFits ==
  ASSUME SchedInv, LinksInv, NEW c \in Cpus, c \in workload.cpus, NEW d \in Cpus \ {c}, WorkStays,
         mode'[d] = mode[d], current'[d] = current[d], next'[d] = next[d], prev'[d] = prev[d], saved'[d] = saved[d],
         current[d] # NoThread =>
           current[d] \in thread_list' /\ pc'[current[d]] = pc[current[d]] /\ KeepsRunning(current[d]),
         next[d] # NoThread => KeepsRunning(next[d])
  PROVE  CpuFits(d)'
<1>1. CpuFits(d)
  BY DEF LinksInv
<1>2. Solo' <=> Solo
  BY DEF Solo, WorkStays
<1>3. mode[d] # "store"
  <2>1. SUFFICES ASSUME mode[d] = "store" PROVE FALSE
    OBVIOUS
  <2>2. Solo /\ d \in workload.cpus
    BY <1>1, <2>1 DEF CpuFits, SchedInv, SIdle
  <2> QED BY <2>2 DEF Solo
<1>4. next[d] # NoThread => {"RUNNABLE", "RUNNING"} \subseteq k'.flags[next[d]]
  BY <1>1 DEF CpuFits, KeepsRunning
<1>5. current[d] # NoThread /\ (mode[d] \in {"switch_in", "store"} \/ (mode[d] = "exec" /\ pc'[current[d]] \in Executing))
        => {"RUNNABLE", "RUNNING"} \subseteq k'.flags[current[d]]
  BY <1>1 DEF CpuFits, KeepsRunning
<1>6. /\ mode[d] \in {"exec", "pick", "reap"} => next[d] = NoThread /\ prev[d] = NoThread
      /\ mode[d] = "switch" => prev[d] = NoThread
      /\ mode[d] \in {"switch_in", "store"} => next[d] = NoThread /\ (prev[d] # NoThread => prev[d] # current[d])
      /\ mode[d] = "reap" => current[d] = NoThread
  BY <1>1 DEF CpuFits
<1> QED BY <1>3, <1>4, <1>5, <1>6 DEF CpuFits

\* A step of processor c.
LEMMA CpuStepKept ==
  ASSUME SchedInv, LinksInv, NEW c \in Cpus, c \in workload.cpus, WorkStays, k' \in Sound,
         UNCHANGED <<sleep_queue, target>>,
         \A d \in Cpus \ {c} : /\ mode'[d] = mode[d] /\ current'[d] = current[d] /\ next'[d] = next[d]
                               /\ prev'[d] = prev[d] /\ saved'[d] = saved[d],
         \A d \in Cpus \ {c} : /\ current[d] # NoThread => /\ current[d] \in thread_list'
                                                           /\ pc'[current[d]] = pc[current[d]]
                                                           /\ KeepsRunning(current[d])
                               /\ next[d] # NoThread => KeepsRunning(next[d]),
         \A u \in Threads : Goes(u) /\ KeepsJoining(u) /\ ThreadFits(u)',
         \/ mode[c] # "exec" \/ current[c] = NoThread
         \/ pc[current[c]] \notin {"join_add", "sleep_q", "exit_dead", "susp_do"},
         CpuFits(c)'
  PROVE  LinksInv'
<1>1. \A d \in Cpus : CpuFits(d)'
  BY OtherCpuFits
<1>2. \A u \in Threads : CancelFits(u)' /\ SuspendFits(u)'
  BY GoingCalls
<1>3. ASSUME NEW u \in Threads PROVE Pinned(u)'
  <2>1. SUFFICES ASSUME pc'[u] \in {"join_add", "sleep_q", "exit_dead", "susp_do"}
        PROVE  \E d \in Cpus : current'[d] = u /\ mode'[d] = "exec"
    BY DEF Pinned
  <2>2. pc[u] = pc'[u]
    BY <2>1, AfterNames DEF Goes
  <2>3. PICK d \in Cpus : current[d] = u /\ mode[d] = "exec"
    BY <2>1, <2>2 DEF LinksInv, Pinned
  <2>4. d # c
    BY <2>1, <2>2, <2>3
  <2> QED BY <2>3, <2>4
<1>4. Careful(workload)' /\ Distinct(sleep_queue')
  BY DEF LinksInv, Careful, WorkStays
<1> QED BY <1>1, <1>2, <1>3, <1>4 DEF LinksInv

\* A thread whose flags change in RUNNING_FLAG only.
LEMMA NearFits ==
  ASSUME LinksInv, NEW u \in Threads, UNCHANGED <<pc, target, sleep_queue, thread_list, dead_lock>>, WorkStays,
         \A f : f # "RUNNING" => (f \in k'.flags[u] <=> f \in k.flags[u]),
         \A m \in Lists : Contains(k'.lists[m], u) <=> Contains(k.lists[m], u)
  PROVE  ThreadFits(u)' /\ KeepsJoining(u) /\ Goes(u)
<1>1. PICK F, G : F = k.flags[u] /\ G = k'.flags[u]
  OBVIOUS
<1>2. ThreadFits(u) /\ \A f : f # "RUNNING" => (f \in G <=> f \in F)
  BY <1>1 DEF LinksInv
<1>3. FlagsFit(u)'
  BY <1>1, <1>2 DEF ThreadFits, FlagsFit
<1>4. READY \in Lists /\ DEAD \in Lists /\ Threads \subseteq Lists
  BY DEF Lists
<1>5. PlaceFits(u)'
  BY <1>1, <1>2, <1>4 DEF ThreadFits, PlaceFits
<1>6. JoinFits(u)'
  BY <1>1, <1>2, <1>4 DEF ThreadFits, JoinFits, Ended, JoinSteps, Marking
<1>7. LifeFits(u)' /\ CallFits(u)'
  BY <1>2 DEF ThreadFits, LifeFits, CallFits, WorkStays
<1>8. KeepsJoining(u)
  BY <1>1, <1>2 DEF KeepsJoining
<1> QED BY <1>3, <1>5, <1>6, <1>7, <1>8 DEF ThreadFits, Goes

\* A thread that is as it was.
LEMMA SameFits ==
  ASSUME LinksInv, NEW u \in Threads, UNCHANGED <<pc, target, sleep_queue, thread_list, dead_lock>>, WorkStays,
         Same(k, k', u)
  PROVE  ThreadFits(u)' /\ KeepsJoining(u) /\ KeepsRunning(u) /\ Goes(u)
<1>1. KeepsRunning(u)
  BY DEF Same, KeepsRunning
<1>2. k'.flags[u] = k.flags[u] /\ \A m \in Lists : Contains(k'.lists[m], u) <=> Contains(k.lists[m], u)
  BY DEF Same
<1> QED BY <1>1, <1>2, NearFits

\* The threads of the other processors are not those of processor c.
LEMMA OwnThreads ==
  ASSUME SchedInv, NEW c \in Cpus, NEW d \in Cpus \ {c}
  PROVE  /\ current[d] # NoThread => current[d] \in Threads /\ current[d] # current[c] /\ current[d] # prev[c]
         /\ next[d] # NoThread => next[d] \in Threads /\ next[d] # current[c] /\ next[d] # prev[c]
  BY DEF SchedInv, STypeOK, SPlaces

\* schedule() is entered: the sleepers whose timeout has passed are woken.
LEMMA EnterLinks ==
  ASSUME SchedInv, LinksInv, NEW c \in Cpus, c \in workload.cpus, EnterSchedule(c), mode[c] = "exec", WorkStays,
         UNCHANGED <<sleep_queue, due, thread_list, cpu, current, next, prev, saved, target, dead_lock>>,
         \A u \in Threads : Goes(u) /\ (u # current[c] => pc'[u] = pc[u]),
         current[c] = NoThread \/ pc[current[c]] \notin {"join_add", "sleep_q", "exit_dead", "susp_do"}
  PROVE  LinksInv'
<1>1. /\ k \in Sound /\ sleep_queue \in Seq(Threads) /\ due \in 0..Len(sleep_queue) /\ mode \in [Cpus -> Modes]
      /\ current[c] \in Threads \cup {NoThread}
  BY DEF LinksInv, SchedInv, STypeOK
<1>2. ASSUME NEW u \in Threads, Contains(sleep_queue, u)
      PROVE  /\ pc[u] \in {"sleep_sched", "sleep_done"} /\ "DYING" \notin k.flags[u]
             /\ k.flags[u] \cap {"RUNNABLE", "HIBERNATION", "SUSPENDED"} = {} =>
                  \A m \in Lists : ~Contains(k.lists[m], u)
  <2>1. ThreadFits(u)
    BY DEF LinksInv
  <2>2. pc[u] \in {"sleep_sched", "sleep_done"}
    BY <1>2, <2>1 DEF ThreadFits, LifeFits
  <2>3. "DYING" \notin k.flags[u]
    BY <2>1, <2>2 DEF ThreadFits, FlagsFit
  <2>4. "RUNNABLE" \notin k.flags[u] => \A m \in Lists : ~Contains(k.lists[m], u)
    BY <2>1, <2>2 DEF ThreadFits, PlaceFits, JoinSteps, Lists
  <2> QED BY <2>2, <2>3, <2>4
<1>3. /\ k' \in Sound
      /\ \A u \in Threads : Same(k, k', u) \/ (Contains(sleep_queue, u) /\ Woken(k, k', u))
  <2>1. k' = WakeFirst(k, due)
    BY DEF EnterSchedule, sched_wake_expired
  <2> QED BY <1>1, <1>2, <2>1, WakeFirstWoken
<1>4. ASSUME NEW u \in Threads PROVE Stays(u) /\ KeepsRunning(u) /\ KeepsJoining(u)
  <2>1. ThreadFits(u)
    BY DEF LinksInv
  <2>2. Same(k, k', u) \/ (Woken(k, k', u) /\ pc[u] \in {"sleep_sched", "sleep_done"})
    BY <1>2, <1>3
  <2>3. KeepsRunning(u) /\ KeepsJoining(u)
    BY <2>2 DEF Same, Woken, KeepsRunning, KeepsJoining
  <2>4. target[u] \in Threads /\ Ended(target[u]) => pc'[target[u]] \in {"exit_dead", "exit_sched", "dead"}
    BY AfterNames DEF Goes, Ended
  <2>5. pc[u] = "join_add" => target[u] \in thread_list
    BY <2>1 DEF ThreadFits, JoinFits
  <2>6. READY \notin Threads /\ Threads \subseteq Lists
    BY DEF Lists
  <2>7. \A v \in Threads : Contains(k'.lists[v], u) => v \in thread_list
    BY <2>1, <2>2, <2>6 DEF Same, Woken, ThreadFits, PlaceFits
  <2>8. MarkStays(u)
    <3>1. "cancel_mark" \notin DOMAIN AfterSchedule
      BY DEF AfterSchedule
    <3> QED BY <3>1 DEF Goes, MarkStays, Marking
  <2> QED BY <2>2, <2>3, <2>4, <2>5, <2>7, <2>8 DEF Stays, Goes, WorkStays
<1>5. \A u \in Threads : Goes(u) /\ KeepsJoining(u) /\ ThreadFits(u)'
  BY <1>4, StaysFits DEF LinksInv
<1>6. mode'[c] = "pick" /\ \A d \in Cpus \ {c} : mode'[d] = mode[d]
  BY <1>1 DEF EnterSchedule
<1>7. CpuFits(c)'
  BY <1>6 DEF LinksInv, CpuFits
<1>8. ASSUME NEW d \in Cpus \ {c}
      PROVE  /\ current[d] # NoThread => /\ current[d] \in thread_list' /\ pc'[current[d]] = pc[current[d]]
                                         /\ KeepsRunning(current[d])
             /\ next[d] # NoThread => KeepsRunning(next[d])
  <2>1. current[d] # NoThread => current[d] \in thread_list
    BY DEF LinksInv, CpuFits
  <2> QED BY <1>4, <2>1, OwnThreads
<1>9. \A d \in Cpus \ {c} : /\ mode'[d] = mode[d] /\ current'[d] = current[d] /\ next'[d] = next[d]
                            /\ prev'[d] = prev[d] /\ saved'[d] = saved[d]
  BY <1>6
<1> QED BY <1>3, <1>5, <1>7, <1>8, <1>9, CpuStepKept

\* schedule() and preempt_schedule().
LEMMA EnterActionsLinks ==
  ASSUME SchedInv, LinksInv, NEW c \in Cpus, NEW t \in Threads, schedule(c, t) \/ preempt_schedule(c, t)
  PROVE  LinksInv'
<1>1. /\ mode[c] = "exec" /\ EnterSchedule(c)
      /\ UNCHANGED <<sleep_queue, due, thread_list, cpu, current, next, prev, saved, target, dead_lock>>
  BY DEF schedule, preempt_schedule, lockVars
<1>2. WorkStays
  <2>1. workload \in WorkloadType
    BY DEF SchedInv, STypeOK
  <2>2. UNCHANGED workload \/ workload' = [workload EXCEPT !.preempts[c] = workload.preempts[c] - 1]
    BY DEF schedule, preempt_schedule
  <2> QED BY <2>1, <2>2 DEF WorkStays, WorkloadType
<1>3. c \in workload.cpus
  BY DEF schedule, preempt_schedule, SchedInv, SIdle
<1>4. \A u \in Threads : Goes(u) /\ (u # current[c] => pc'[u] = pc[u])
  <2>1. CASE schedule(c, t)
    <3>1. current[c] = t /\ pc[t] \in DOMAIN AfterSchedule /\ pc' = [pc EXCEPT ![t] = AfterSchedule[pc[t]]]
      BY <2>1 DEF schedule, GoTo
    <3>2. pc \in [Threads -> Steps]
      BY DEF SchedInv, STypeOK
    <3>3. pc'[t] = AfterSchedule[pc[t]] /\ \A u \in Threads \ {t} : pc'[u] = pc[u]
      BY <3>1, <3>2
    <3> QED BY <3>1, <3>3 DEF Goes
  <2>2. CASE preempt_schedule(c, t)
    BY <2>2 DEF preempt_schedule, Goes
  <2> QED BY <2>1, <2>2
<1>5. pc[current[c]] \notin {"join_add", "sleep_q", "exit_dead", "susp_do"}
  <2>1. CASE schedule(c, t)
    BY <2>1, AfterNames DEF schedule
  <2>2. CASE preempt_schedule(c, t)
    BY <2>2 DEF preempt_schedule, NotPreemptible
  <2> QED BY <2>1, <2>2
<1> QED BY <1>1, <1>2, <1>3, <1>4, <1>5, EnterLinks

\* The idle loop.
LEMMA IdleLinks ==
  ASSUME SchedInv, LinksInv, NEW c \in Cpus, idle_thread_fn(c)
  PROVE  LinksInv'
<1>1. /\ mode[c] = "exec" /\ EnterSchedule(c) /\ c \in workload.cpus /\ current[c] = NoThread
      /\ UNCHANGED <<sleep_queue, due, thread_list, cpu, current, next, prev, saved, target, dead_lock>>
      /\ UNCHANGED <<pc, workload>>
  BY DEF idle_thread_fn, lockVars
<1>2. WorkStays /\ \A u \in Threads : Goes(u) /\ (u # current[c] => pc'[u] = pc[u])
  BY <1>1 DEF WorkStays, Goes
<1> QED BY <1>1, <1>2, EnterLinks

\* pick_thread() chooses an eligible thread of the ready queue, or none.
LEMMA PickChooses ==
  ASSUME k \in Sound, NEW c \in Cpus, current[c] \in Threads \cup {NoThread}, pick_thread(c),
         NEW s \in KStates, s = Requeue(k, current[c])
  PROVE  \E n \in Threads \cup {NoThread} :
           /\ n # NoThread => Eligible(s, c, n)
           /\ next' = [next EXCEPT ![c] = n]
           /\ k' = IF n = NoThread THEN s ELSE SetFlags(s, n, {"RUNNING"})
<1> DEFINE q == s.lists[READY]
           e == {i \in 1..Len(q) : Eligible(s, c, q[i])}
           n == IF e = {} THEN NoThread ELSE q[Min(e)]
<1>1. q \in Seq(Threads)
  BY DEF KStates, Lists
<1>2. n \in Threads \cup {NoThread} /\ (n # NoThread => Eligible(s, c, n))
  <2>1. CASE e = {}
    BY <2>1
  <2>2. CASE e # {}
    <3>1. e \in SUBSET Nat
      OBVIOUS
    <3>2. PICK i \in e : i = Min(e)
      BY <2>2, <3>1, MinIsLeast
    <3>3. n = q[i] /\ i \in 1..Len(q) /\ Eligible(s, c, q[i])
      BY <2>2, <3>2
    <3>4. q[i] \in Threads
      BY <1>1, <3>3, Lengths
    <3> QED BY <3>3, <3>4
  <2> QED BY <2>1, <2>2
<1>3. next' = [next EXCEPT ![c] = n] /\ k' = IF n = NoThread THEN s ELSE SetFlags(s, n, {"RUNNING"})
  BY DEF pick_thread
<1> HIDE DEF n
<1> QED BY <1>2, <1>3

\* pick_thread() marks the thread it chooses as running.
LEMMA PickLinks ==
  ASSUME SchedInv, LinksInv, NEW c \in Cpus, pick_thread(c)
  PROVE  LinksInv'
<1>1. /\ k \in Sound /\ current[c] \in Threads \cup {NoThread} /\ mode \in [Cpus -> Modes]
      /\ next \in [Cpus -> Threads \cup {NoThread}]
  BY DEF LinksInv, SchedInv, STypeOK
<1>2. /\ mode[c] = "pick" /\ mode' = [mode EXCEPT ![c] = "switch"]
      /\ UNCHANGED <<sleep_queue, due, thread_list, cpu, current, prev, saved, pc, target, dead_lock>> /\ WorkStays
  BY DEF pick_thread, lockVars, WorkStays
<1>3. PICK s : s = Requeue(k, current[c])
  OBVIOUS
<1>4. s \in Sound /\ s.flags = k.flags /\ \A u \in Threads : Same(k, s, u)
  <2>1. current[c] # NoThread /\ "RUNNABLE" \in k.flags[current[c]] => Contains(k.lists[READY], current[c])
    BY <1>1 DEF LinksInv, ThreadFits, PlaceFits
  <2> QED BY <1>1, <1>3, <2>1, RequeueSame
<1>5. PICK n \in Threads \cup {NoThread} :
         /\ n # NoThread => Eligible(s, c, n)
         /\ next' = [next EXCEPT ![c] = n]
         /\ k' = IF n = NoThread THEN s ELSE SetFlags(s, n, {"RUNNING"})
  BY <1>1, <1>3, <1>4, SoundParts, PickChooses
<1>6. /\ k' \in Sound /\ \A u \in Threads \ {n} : Same(k, k', u)
      /\ n # NoThread => /\ k'.flags[n] = k.flags[n] \cup {"RUNNING"} /\ "RUNNABLE" \in k.flags[n]
                         /\ \A m \in Lists : Contains(k'.lists[m], n) <=> Contains(k.lists[m], n)
  <2>1. CASE n = NoThread
    BY <1>4, <1>5, <2>1
  <2>2. CASE n # NoThread
    <3>1. Turned(s, k', n, s.flags[n] \cup {"RUNNING"})
      BY <1>4, <1>5, <2>2, FlagsTurned DEF Flags
    <3>2. /\ k' \in Sound /\ k'.flags[n] = s.flags[n] \cup {"RUNNING"} /\ \A u \in Threads \ {n} : Same(s, k', u)
          /\ \A m \in Lists : Contains(k'.lists[m], n) <=> Contains(s.lists[m], n)
      BY <1>4, <1>5, <2>2, <3>1, TurnedParts
    <3>3. \A u \in Threads \ {n} : Same(k, k', u)
      BY <1>4, <3>2, SameSame
    <3>4. "RUNNABLE" \in k.flags[n]
      BY <1>4, <1>5, <2>2 DEF Eligible, Has
    <3>5. Same(k, s, n)
      BY <1>4, <1>5, <2>2
    <3> QED BY <1>4, <2>2, <3>2, <3>3, <3>4, <3>5 DEF Same
  <2> QED BY <2>1, <2>2
<1>7. ASSUME NEW u \in Threads PROVE Goes(u) /\ KeepsJoining(u) /\ KeepsRunning(u) /\ ThreadFits(u)'
  <2>1. CASE u # n
    BY <1>2, <1>6, <2>1, SameFits
  <2>2. CASE u = n
    <3>1. /\ \A f : f # "RUNNING" => (f \in k'.flags[u] <=> f \in k.flags[u])
          /\ \A m \in Lists : Contains(k'.lists[m], u) <=> Contains(k.lists[m], u)
      BY <1>6, <2>2
    <3>2. KeepsRunning(u)
      BY <1>6, <2>2 DEF KeepsRunning
    <3> QED BY <1>2, <3>1, <3>2, NearFits
  <2> QED BY <2>1, <2>2
<1>8. mode'[c] = "switch" /\ next'[c] = n
      /\ \A d \in Cpus \ {c} : mode'[d] = mode[d] /\ next'[d] = next[d]
  BY <1>1, <1>2, <1>5
<1>9. CpuFits(c)'
  <2>1. n # NoThread => {"RUNNABLE", "RUNNING"} \subseteq k'.flags[n]
    BY <1>6
  <2> QED BY <1>2, <1>8, <2>1 DEF LinksInv, CpuFits
<1>10. ASSUME NEW d \in Cpus \ {c}
      PROVE  /\ current[d] # NoThread => /\ current[d] \in thread_list' /\ pc'[current[d]] = pc[current[d]]
                                         /\ KeepsRunning(current[d])
             /\ next[d] # NoThread => KeepsRunning(next[d])
  <2>1. current[d] # NoThread => current[d] \in thread_list
    BY DEF LinksInv, CpuFits
  <2> QED BY <1>2, <1>7, <2>1, OwnThreads
<1>11. c \in workload.cpus
  BY <1>2 DEF SchedInv, SIdle
<1>12. \A d \in Cpus \ {c} : /\ mode'[d] = mode[d] /\ current'[d] = current[d] /\ next'[d] = next[d]
                             /\ prev'[d] = prev[d] /\ saved'[d] = saved[d]
  BY <1>2, <1>8
<1>13. \A u \in Threads : Goes(u) /\ KeepsJoining(u) /\ ThreadFits(u)'
  BY <1>7
<1> QED BY <1>2, <1>6, <1>9, <1>10, <1>11, <1>12, <1>13, CpuStepKept

\* A step of processor c that changes flags in RUNNING_FLAG only, and no list.
LEMMA CpuFlagsKept ==
  ASSUME SchedInv, LinksInv, NEW c \in Cpus, mode[c] # "exec", WorkStays, k' \in Sound,
         UNCHANGED <<sleep_queue, thread_list, pc, target, dead_lock>>,
         \A d \in Cpus \ {c} : /\ mode'[d] = mode[d] /\ current'[d] = current[d] /\ next'[d] = next[d]
                               /\ prev'[d] = prev[d] /\ saved'[d] = saved[d],
         \A u \in Threads : u = prev[c] \/ Same(k, k', u),
         prev[c] # NoThread =>
           /\ \A f : f # "RUNNING" => (f \in k'.flags[prev[c]] <=> f \in k.flags[prev[c]])
           /\ \A m \in Lists : Contains(k'.lists[m], prev[c]) <=> Contains(k.lists[m], prev[c]),
         CpuFits(c)'
  PROVE  LinksInv'
<1>1. ASSUME NEW u \in Threads PROVE Goes(u) /\ KeepsJoining(u) /\ ThreadFits(u)'
  <2>1. CASE u # prev[c]
    BY <2>1, SameFits
  <2>2. CASE u = prev[c]
    BY <2>2, NearFits
  <2> QED BY <2>1, <2>2
<1>2. ASSUME NEW d \in Cpus \ {c}
      PROVE  /\ current[d] # NoThread => /\ current[d] \in thread_list' /\ pc'[current[d]] = pc[current[d]]
                                         /\ KeepsRunning(current[d])
             /\ next[d] # NoThread => KeepsRunning(next[d])
  <2>1. current[d] # NoThread => current[d] \in thread_list
    BY DEF LinksInv, CpuFits
  <2>2. \A u \in Threads : u # prev[c] => KeepsRunning(u)
    BY DEF Same, KeepsRunning
  <2> QED BY <2>1, <2>2, OwnThreads
<1>3. c \in workload.cpus
  BY DEF SchedInv, SIdle
<1> QED BY <1>1, <1>2, <1>3, CpuStepKept

\* The processor switches to the thread chosen, which is still runnable.
LEMMA SwitchLinks ==
  ASSUME SchedInv, LinksInv, NEW c \in Cpus, switch_threads(c)
  PROVE  LinksInv'
<1>1. /\ current \in [Cpus -> Threads \cup {NoThread}] /\ mode \in [Cpus -> Modes]
      /\ next \in [Cpus -> Threads \cup {NoThread}] /\ prev \in [Cpus -> Threads \cup {NoThread}]
      /\ k \in Sound /\ CpuFits(c) /\ mode[c] = "switch"
  BY DEF LinksInv, SchedInv, STypeOK, switch_threads
<1>2. PICK n \in Threads \cup {NoThread} : n = next[c]
  BY <1>1
<1>3. n # NoThread => /\ "RUNNABLE" \in k.flags[n] /\ "RUNNING" \in k.flags[n] /\ "DYING" \notin k.flags[n]
                      /\ n \in thread_list
  <2>1. n # NoThread => "RUNNABLE" \in k.flags[n] /\ "RUNNING" \in k.flags[n] /\ ThreadFits(n)
    BY <1>1, <1>2 DEF CpuFits, LinksInv
  <2> QED BY <2>1 DEF ThreadFits, FlagsFit, LifeFits
<1>4. /\ current' = [current EXCEPT ![c] = n] /\ next' = [next EXCEPT ![c] = NoThread]
      /\ prev' = [prev EXCEPT ![c] = IF n = current[c] THEN NoThread ELSE current[c]]
      /\ mode' = [mode EXCEPT ![c] = IF n = current[c] THEN Resumed(n) ELSE "switch_in"]
      /\ UNCHANGED <<k, sleep_queue, thread_list, saved, pc, target, dead_lock>> /\ WorkStays
  BY <1>2, <1>3 DEF switch_threads, Has, lockVars, WorkStays
<1>5. /\ \A d \in Cpus \ {c} : /\ mode'[d] = mode[d] /\ current'[d] = current[d] /\ next'[d] = next[d]
                               /\ prev'[d] = prev[d] /\ saved'[d] = saved[d]
      /\ current'[c] = n /\ next'[c] = NoThread
      /\ prev'[c] = (IF n = current[c] THEN NoThread ELSE current[c])
      /\ mode'[c] = (IF n = current[c] THEN Resumed(n) ELSE "switch_in")
  BY <1>1, <1>4
<1>6. CpuFits(c)'
  <2>1. n # NoThread => {"RUNNABLE", "RUNNING"} \subseteq k'.flags[n] /\ n \in thread_list'
    BY <1>3, <1>4
  <2>2. CASE n = current[c]
    <3>1. mode'[c] = IF n = NoThread THEN "reap" ELSE "exec"
      BY <1>5, <2>2 DEF Resumed
    <3> QED BY <1>5, <2>1, <2>2, <3>1 DEF CpuFits
  <2>3. CASE n # current[c]
    BY <1>5, <2>1, <2>3 DEF CpuFits
  <2> QED BY <2>2, <2>3
<1>7. k' \in Sound /\ \A u \in Threads : Same(k, k', u)
  BY <1>1, <1>4, SameSame
<1>8. prev[c] = NoThread
  BY <1>1 DEF CpuFits
<1> QED BY <1>1, <1>4, <1>5, <1>6, <1>7, <1>8, CpuFlagsKept

\* The processor clears RUNNING_FLAG of the thread it has switched out.
LEMMA SwitchInLinks ==
  ASSUME SchedInv, LinksInv, NEW c \in Cpus, sched_switch_thread_in(c) \/ StoreFlags(c)
  PROVE  LinksInv'
<1>1. /\ current \in [Cpus -> Threads \cup {NoThread}] /\ mode \in [Cpus -> Modes]
      /\ prev \in [Cpus -> Threads \cup {NoThread}] /\ saved \in [Cpus -> SUBSET Flags]
      /\ k \in Sound /\ CpuFits(c) /\ mode[c] \in {"switch_in", "store"}
      /\ UNCHANGED <<sleep_queue, thread_list, current, next, pc, target, dead_lock>> /\ WorkStays
  BY DEF LinksInv, SchedInv, STypeOK, sched_switch_thread_in, StoreFlags, lockVars, WorkStays
<1>2. PICK p \in Threads \cup {NoThread} : p = prev[c]
  BY <1>1
<1>3. \/ /\ k' = (IF p = NoThread THEN k ELSE ClearFlags(k, p, {"RUNNING"}))
         /\ mode' = [mode EXCEPT ![c] = Resumed(current[c])] /\ prev' = [prev EXCEPT ![c] = NoThread]
         /\ \A d \in Cpus \ {c} : saved'[d] = saved[d]
      \/ /\ mode[c] = "switch_in" /\ p # NoThread /\ ~workload.atomic
         /\ saved' = [saved EXCEPT ![c] = k.flags[p]] /\ mode' = [mode EXCEPT ![c] = "store"] /\ UNCHANGED <<k, prev>>
  <2>1. CASE sched_switch_thread_in(c)
    BY <1>2, <2>1 DEF sched_switch_thread_in
  <2>2. CASE StoreFlags(c)
    <3>1. p # NoThread /\ saved[c] = k.flags[p]
      BY <1>1, <1>2, <2>2 DEF StoreFlags, CpuFits
    <3>2. /\ k' = [k EXCEPT !.flags[p] = saved[c] \ {"RUNNING"}]
          /\ mode' = [mode EXCEPT ![c] = Resumed(current[c])] /\ prev' = [prev EXCEPT ![c] = NoThread]
          /\ saved' = [saved EXCEPT ![c] = {}]
      BY <1>2, <2>2 DEF StoreFlags
    <3>3. k' = ClearFlags(k, p, {"RUNNING"})
      BY <3>1, <3>2 DEF ClearFlags
    <3> QED BY <1>1, <3>1, <3>2, <3>3
  <2> QED BY <2>1, <2>2
<1>4. CASE /\ k' = (IF p = NoThread THEN k ELSE ClearFlags(k, p, {"RUNNING"}))
           /\ mode' = [mode EXCEPT ![c] = Resumed(current[c])] /\ prev' = [prev EXCEPT ![c] = NoThread]
           /\ \A d \in Cpus \ {c} : saved'[d] = saved[d]
  <2>1. /\ k' \in Sound /\ \A u \in Threads : u = p \/ Same(k, k', u)
        /\ p # NoThread =>
             /\ \A f : f # "RUNNING" => (f \in k'.flags[p] <=> f \in k.flags[p])
             /\ \A m \in Lists : Contains(k'.lists[m], p) <=> Contains(k.lists[m], p)
    <3>1. CASE p = NoThread
      BY <1>1, <1>4, <3>1, SameSame
    <3>2. CASE p # NoThread
      <4>1. Turned(k, k', p, k.flags[p] \ {"RUNNING"})
        BY <1>1, <1>4, <3>2, FlagsTurned DEF Flags
      <4>2. /\ k' \in Sound /\ k'.flags[p] = k.flags[p] \ {"RUNNING"} /\ \A u \in Threads \ {p} : Same(k, k', u)
            /\ \A m \in Lists : Contains(k'.lists[m], p) <=> Contains(k.lists[m], p)
        BY <1>1, <3>2, <4>1, TurnedParts
      <4> QED BY <4>2
    <3> QED BY <3>1, <3>2
  <2>2. mode'[c] = Resumed(current[c]) /\ prev'[c] = NoThread
        /\ \A d \in Cpus \ {c} : mode'[d] = mode[d] /\ prev'[d] = prev[d]
    BY <1>1, <1>4
  <2>3. CpuFits(c)'
    <3>1. mode'[c] = (IF current[c] = NoThread THEN "reap" ELSE "exec")
      BY <2>2 DEF Resumed
    <3>2. next[c] = NoThread /\ (p # NoThread => p # current[c])
      BY <1>1, <1>2 DEF CpuFits
    <3>3. current[c] # NoThread => current[c] \in Threads /\ current[c] \in thread_list
                                   /\ {"RUNNABLE", "RUNNING"} \subseteq k.flags[current[c]]
      BY <1>1 DEF CpuFits
    <3>4. current[c] # NoThread => {"RUNNABLE", "RUNNING"} \subseteq k'.flags[current[c]]
      BY <2>1, <3>2, <3>3 DEF Same
    <3> QED BY <1>1, <2>2, <3>1, <3>2, <3>3, <3>4 DEF CpuFits
  <2>4. \A d \in Cpus \ {c} : /\ mode'[d] = mode[d] /\ current'[d] = current[d] /\ next'[d] = next[d]
                              /\ prev'[d] = prev[d] /\ saved'[d] = saved[d]
    BY <1>1, <1>4, <2>2
  <2> QED BY <1>1, <1>2, <2>1, <2>3, <2>4, CpuFlagsKept
<1>5. CASE /\ mode[c] = "switch_in" /\ p # NoThread /\ ~workload.atomic
           /\ saved' = [saved EXCEPT ![c] = k.flags[p]] /\ mode' = [mode EXCEPT ![c] = "store"] /\ UNCHANGED <<k, prev>>
  <2>1. mode'[c] = "store" /\ saved'[c] = k.flags[p]
        /\ \A d \in Cpus \ {c} : mode'[d] = mode[d] /\ saved'[d] = saved[d]
    BY <1>1, <1>5
  <2>2. Solo /\ (Solo' <=> Solo)
    BY <1>1, <1>5 DEF LinksInv, Careful, Solo, WorkStays
  <2>3. CpuFits(c)'
    BY <1>1, <1>2, <1>5, <2>1, <2>2 DEF CpuFits
  <2>4. k' \in Sound /\ \A u \in Threads : Same(k, k', u)
    BY <1>1, <1>5, SameSame
  <2>5. prev[c] # NoThread =>
             /\ \A f : f # "RUNNING" => (f \in k'.flags[prev[c]] <=> f \in k.flags[prev[c]])
             /\ \A m \in Lists : Contains(k'.lists[m], prev[c]) <=> Contains(k.lists[m], prev[c])
    BY <1>5
  <2>6. \A d \in Cpus \ {c} : /\ mode'[d] = mode[d] /\ current'[d] = current[d] /\ next'[d] = next[d]
                              /\ prev'[d] = prev[d] /\ saved'[d] = saved[d]
    BY <1>1, <1>5, <2>1
  <2> QED BY <1>1, <2>3, <2>4, <2>5, <2>6, CpuFlagsKept
<1> QED BY <1>3, <1>4, <1>5

\* The dead threads of a processor: they have exited, and run nowhere else.
LEMMA ReapableThreads ==
  ASSUME SchedInv, LinksInv, NEW c \in Cpus
  PROVE  \A f \in Reapable(c) :
           /\ f \in Threads /\ Contains(k.lists[DEAD], f) /\ cpu[f] = c
           /\ pc[f] \in {"exit_sched", "dead"} /\ Ended(f)
<1>1. PICK q \in Seq(Threads) : q = k.lists[DEAD]
  BY SoundParts DEF LinksInv, Lists
<1>2. Len(q) \in Nat /\ DOMAIN q = 1..Len(q) /\ \A i \in 1..Len(q) : q[i] \in Threads
  BY <1>1, Lengths
<1>3. ASSUME NEW f \in Reapable(c) PROVE f \in Threads /\ Contains(q, f) /\ cpu[f] = c
  <2>1. f \in ToSet(q) /\ cpu[f] = c
    BY <1>1, <1>3 DEF Reapable
  <2>2. PICK i \in 1..Len(q) : q[i] = f
    BY <1>2, <2>1 DEF ToSet
  <2> QED BY <1>2, <2>1, <2>2 DEF Contains
<1>4. ASSUME NEW f \in Threads, Contains(q, f) PROVE pc[f] \in {"exit_sched", "dead"}
  BY <1>1, <1>4 DEF LinksInv, ThreadFits, PlaceFits
<1> QED BY <1>1, <1>3, <1>4 DEF Ended

\* sched_reap_dead: the dead threads of the processor are freed and their joiners woken.
LEMMA ReapLinks ==
  ASSUME SchedInv, LinksInv, NEW c \in Cpus, sched_reap_dead(c)
  PROVE  LinksInv'
<1>1. PICK D : D = Reapable(c)
  OBVIOUS
<1>2. \A f \in D : /\ f \in Threads /\ Contains(k.lists[DEAD], f) /\ cpu[f] = c
                   /\ pc[f] \in {"exit_sched", "dead"} /\ Ended(f)
  BY <1>1, ReapableThreads
<1>3. Reap(c, D) /\ k \in Sound /\ mode \in [Cpus -> Modes] /\ CpuFits(c)
  BY <1>1 DEF sched_reap_dead, LinksInv, SchedInv, STypeOK
<1>4. /\ mode[c] = "reap" /\ dead_lock = NoThread /\ thread_list' = thread_list \ D
      /\ mode' = [mode EXCEPT ![c] = "exec"]
      /\ UNCHANGED <<sleep_queue, current, next, prev, saved, pc, target, dead_lock, workload>>
  BY <1>3 DEF Reap, lockVars
<1>5. WorkStays
  BY <1>4 DEF WorkStays
<1>6. \A f \in D, u \in Threads : Contains(k.lists[f], u) =>
        /\ k.flags[u] \cap {"DYING", "RUNNABLE", "HIBERNATION", "SUSPENDED"} = {}
        /\ pc[u] \in JoinSteps /\ target[u] = f
  BY <1>2, JoinerIsBlocked
<1>7. Freed(k, k', D)
  BY <1>2, <1>3, <1>6, ReapFrees
<1>8. READY \in Lists /\ DEAD \in Lists /\ Threads \subseteq Lists /\ READY \notin Threads /\ READY # DEAD
  BY DEF Lists, READY, DEAD
<1>9. ASSUME NEW u \in Threads PROVE Goes(u) /\ KeepsJoining(u) /\ KeepsRunning(u) /\ ThreadFits(u)'
  <2>1. Goes(u) /\ ThreadFits(u)
    BY <1>4 DEF Goes, LinksInv
  <2>2. CASE u \in D
    <3>1. k'.flags[u] = k.flags[u] /\ \A m \in Lists : ~Contains(k'.lists[m], u)
      BY <1>7, <2>2 DEF Freed
    <3>2. pc[u] \in {"exit_sched", "dead"} /\ Contains(k.lists[DEAD], u)
      BY <1>2, <2>2
    <3>3. "RUNNABLE" \notin k.flags[u] /\ pc'[u] = pc[u]
      BY <1>4, <2>1, <3>2 DEF ThreadFits, FlagsFit
    <3>4. FlagsFit(u)'
      BY <2>1, <3>1, <3>3 DEF ThreadFits, FlagsFit
    <3>5. PlaceFits(u)'
      BY <1>8, <3>1, <3>3 DEF PlaceFits
    <3>6. JoinFits(u)' /\ LifeFits(u)' /\ CallFits(u)'
      BY <1>4, <1>5, <2>1, <3>2, <3>3 DEF ThreadFits, JoinFits, LifeFits, CallFits, JoinSteps, WorkStays
    <3> QED BY <2>1, <3>1, <3>4, <3>5, <3>6 DEF ThreadFits, KeepsJoining, KeepsRunning
  <2>3. CASE u \notin D
    <3>1. \/ Same(k, k', u) /\ \A f \in D : ~Contains(k.lists[f], u)
          \/ Woken(k, k', u) /\ pc[u] \in JoinSteps /\ pc'[target[u]] \in {"exit_dead", "exit_sched", "dead"}
      <4>1. CASE \E f \in D : Contains(k.lists[f], u)
        <5>1. PICK f \in D : Contains(k.lists[f], u)
          BY <4>1
        <5>2. Woken(k, k', u)
          BY <1>7, <2>3, <5>1 DEF Freed
        <5> QED BY <1>2, <1>4, <1>6, <5>1, <5>2
      <4>2. CASE ~\E f \in D : Contains(k.lists[f], u)
        BY <1>7, <2>3, <4>2 DEF Freed
      <4> QED BY <4>1, <4>2
    <3>2. \A v \in Threads : Contains(k'.lists[v], u) => v \in thread_list'
      BY <1>4, <1>8, <2>1, <3>1 DEF Same, Woken, ThreadFits, PlaceFits
    <3>3. pc[u] # "join_add"
      BY <1>4, <2>1 DEF ThreadFits, JoinFits
    <3>4. target[u] \in Threads /\ Ended(target[u]) => pc'[target[u]] \in {"exit_dead", "exit_sched", "dead"}
      BY <1>4 DEF Ended
    <3>5. Stays(u)
      BY <1>4, <2>1, <2>3, <3>1, <3>2, <3>3, <3>4 DEF Stays, MarkStays, Marking
    <3>6. KeepsJoining(u) /\ KeepsRunning(u)
      BY <3>1 DEF Same, Woken, KeepsJoining, KeepsRunning
    <3> QED BY <2>1, <3>5, <3>6, StaysFits
  <2> QED BY <2>2, <2>3
<1>10. mode'[c] = "exec" /\ current[c] = NoThread /\ next[c] = NoThread /\ prev[c] = NoThread
  BY <1>3, <1>4 DEF CpuFits
<1>11. CpuFits(c)'
  BY <1>4, <1>10 DEF CpuFits
<1>12. ASSUME NEW d \in Cpus \ {c}
       PROVE  /\ current[d] # NoThread => /\ current[d] \in thread_list' /\ pc'[current[d]] = pc[current[d]]
                                          /\ KeepsRunning(current[d])
              /\ next[d] # NoThread => KeepsRunning(next[d])
  <2>1. current[d] # NoThread => current[d] \in thread_list /\ cpu[current[d]] = d
    BY DEF LinksInv, CpuFits, SchedInv, SPlaces
  <2>2. current[d] # NoThread => current[d] \in thread_list'
    BY <1>2, <1>4, <2>1
  <2> QED BY <1>4, <1>9, <2>2, OwnThreads
<1>13. \A d \in Cpus \ {c} : /\ mode'[d] = mode[d] /\ current'[d] = current[d] /\ next'[d] = next[d]
                             /\ prev'[d] = prev[d] /\ saved'[d] = saved[d]
  BY <1>4
<1>14. c \in workload.cpus
  BY <1>4 DEF SchedInv, SIdle
<1>15. k' \in Sound /\ UNCHANGED <<sleep_queue, target>>
  BY <1>4, <1>7 DEF Freed
<1>16. \A u \in Threads : Goes(u) /\ KeepsJoining(u) /\ ThreadFits(u)'
  BY <1>9
<1> QED BY <1>4, <1>5, <1>11, <1>12, <1>13, <1>14, <1>15, <1>16, CpuStepKept

\* A step that changes no more than the clock.
LEMMA ClockLinks ==
  ASSUME SchedInv, LinksInv,
         UNCHANGED <<k, sleep_queue, thread_list, cpu, current, mode, next, prev, saved, pc, target, dead_lock, workload>>
  PROVE  LinksInv'
<1>1. WorkStays /\ (Solo' <=> Solo)
  BY DEF WorkStays, Solo
<1>2. \A u \in Threads : Same(k, k', u)
  BY SameSame
<1>3. \A u \in Threads : ThreadFits(u)' /\ KeepsJoining(u) /\ Goes(u)
  BY <1>1, <1>2, SameFits
<1>4. \A u \in Threads : CancelFits(u)' /\ SuspendFits(u)'
  BY <1>3, GoingCalls
<1>5. \A u \in Threads : Pinned(u)'
  BY DEF LinksInv, Pinned
<1>6. \A c \in Cpus : CpuFits(c)'
  BY <1>1 DEF LinksInv, CpuFits
<1> QED BY <1>3, <1>4, <1>5, <1>6 DEF LinksInv

\* The initial states.
LEMMA LinksInit ==
  ASSUME Init, \A w \in Workloads : Careful(w)
  PROVE  LinksInv
<1>1. SchedInv /\ Careful(workload) /\ workload \in WorkloadType
  <2>1. \A w \in Workloads : "suspend" \in w.ops => \E c \in Cpus : w.cpus \subseteq {c}
    BY DEF Careful
  <2> QED BY <2>1, SchedInit, WorkloadsAssumption DEF Init, WorkloadType
<1>2. PICK M \in SUBSET Threads : M = workload.main
  BY <1>1 DEF WorkloadType
<1>3. PICK q : q = SetToSeq(M)
  OBVIOUS
<1>4. q \in Seq(Threads) /\ Distinct(q) /\ \A t \in Threads : Contains(q, t) <=> t \in M
  BY <1>3, OrderIsWhole
<1>5. READY \in Lists /\ DEAD \in Lists /\ Threads \subseteq Lists /\ READY \notin Threads /\ READY # DEAD
  BY DEF Lists, READY, DEAD
<1>6. /\ k.flags = [t \in Threads |-> IF t \in M THEN {"RUNNABLE"} ELSE {}]
      /\ k.lists = [l \in Lists |-> IF l = READY THEN q ELSE << >>]
      /\ k.bug = "none"
  BY <1>2, <1>3 DEF Init, Lists
<1>7. Distinct(<< >>) /\ \A t : ~Contains(<< >>, t)
  BY DEF Distinct, Contains
<1>8. \A m \in Lists : k.lists[m] = IF m = READY THEN q ELSE << >>
  BY <1>6
<1>9. k \in Sound
  <2>1. k \in KStates
    BY <1>1 DEF SchedInv, STypeOK
  <2>2. \A m \in Lists : Distinct(k.lists[m])
    BY <1>4, <1>7, <1>8
  <2>3. \A t \in Threads, m \in Lists : Contains(k.lists[m], t) => m = READY
    BY <1>7, <1>8
  <2> QED BY <1>6, <2>1, <2>2, <2>3 DEF Sound, Proper
<1>10. /\ pc = [t \in Threads |-> IF t \in M THEN "run" ELSE "none"] /\ thread_list = M
       /\ sleep_queue = << >>
       /\ \A c \in Cpus : current[c] = NoThread /\ next[c] = NoThread /\ prev[c] = NoThread /\ mode[c] = "exec"
  BY <1>2 DEF Init
<1>11. ASSUME NEW t \in Threads PROVE ThreadFits(t) /\ CancelFits(t) /\ SuspendFits(t) /\ Pinned(t)
  <2>1. k.flags[t] = (IF t \in M THEN {"RUNNABLE"} ELSE {}) /\ pc[t] = IF t \in M THEN "run" ELSE "none"
    BY <1>6, <1>10
  <2>2. FlagsFit(t)
    BY <2>1 DEF FlagsFit
  <2>3. PlaceFits(t)
    BY <1>4, <1>5, <1>7, <1>8, <2>1 DEF PlaceFits
  <2>4. JoinFits(t) /\ LifeFits(t) /\ CallFits(t)
    BY <1>7, <1>10, <2>1 DEF JoinFits, LifeFits, CallFits, JoinSteps
  <2>5. CancelFits(t) /\ SuspendFits(t) /\ Pinned(t)
    BY <2>1 DEF CancelFits, SuspendFits, Pinned
  <2> QED BY <2>2, <2>3, <2>4, <2>5 DEF ThreadFits
<1>12. \A c \in Cpus : CpuFits(c)
  BY <1>10 DEF CpuFits
<1> QED BY <1>1, <1>7, <1>9, <1>10, <1>11, <1>12 DEF LinksInv

\* Every step preserves the invariant or ends in the BUG() of a joiner marked too late.
LEMMA LinksStep ==
  ASSUME SchedInv, LinksInv, [Next]_vars
  PROVE  LinksInv' \/ LateMark'
<1>1. CASE UNCHANGED vars \/ Tick
  <2>1. UNCHANGED <<k, sleep_queue, thread_list, cpu, current, mode, next, prev, saved, pc, target, dead_lock, workload>>
    BY <1>1 DEF vars, Tick, cpuVars, lockVars
  <2> QED BY <2>1, ClockLinks
<1>2. ASSUME NEW c \in Cpus, CpuStep(c) PROVE LinksInv'
  BY <1>2, PickLinks, SwitchLinks, SwitchInLinks, ReapLinks, IdleLinks DEF CpuStep
<1>3. ASSUME NEW c \in Cpus, NEW t \in Threads, ThreadStep(c, t) PROVE LinksInv' \/ LateMark'
  <2>1. CASE JoinReturn(c, t)
    BY <2>1, JoinReturnLinks
  <2>2. CASE ~JoinReturn(c, t)
    BY <1>3, <2>2, EnterActionsLinks, SleepAddLinks, SleepDelLinks, JoinLinks, JoinAddLinks, JoiningLinks,
       ExitDeadLinks, SuspendLinks, WakeJoinerLinks, MarkLinks DEF ThreadStep
  <2> QED BY <2>1, <2>2
<1>4. ASSUME NEW c \in Cpus, NEW t \in Threads, NewCall(c, t) PROVE LinksInv'
  <2>1. CASE nanosleep(c, t) \/ Hibernate(c, t)
    BY <2>1, NanosleepLinks, HibernateLinks
  <2>2. CASE ~(nanosleep(c, t) \/ Hibernate(c, t))
    BY <1>4, <2>2, CreateLinks, WaitLinks, RestoreLinks, SuspendStartLinks, ResumeLinks, CancelLinks DEF NewCall
  <2> QED BY <2>1, <2>2
<1>5. ASSUME NEW c \in Cpus, NEW t \in Threads, exit_thread(c, t) \/ preempt_schedule(c, t) PROVE LinksInv'
  BY <1>5, ExitLinks, EnterActionsLinks
<1> QED BY <1>1, <1>2, <1>3, <1>4, <1>5 DEF Next

\* The machine stops at a bug.
LEMMA BugStops ==
  ASSUME k.bug # "none", [Next]_vars
  PROVE  UNCHANGED vars
<1>1. ~Tick
  BY DEF Tick
<1>2. ASSUME NEW c \in Cpus PROVE ~CpuStep(c)
  BY DEF CpuStep, pick_thread, switch_threads, sched_switch_thread_in, StoreFlags, sched_reap_dead, Reap,
         idle_thread_fn
<1>3. ASSUME NEW c \in Cpus, NEW t \in Threads
      PROVE  ~ThreadStep(c, t) /\ ~exit_thread(c, t) /\ ~preempt_schedule(c, t)
  BY DEF ThreadStep, schedule, sleep_queue_add, sleep_queue_del, join_thread, JoinAdd, set_joining, JoinReturn,
         ExitDead, SuspendDo, sched_wake_joiner, set_cancelled, exit_thread, preempt_schedule, Continues, At
<1>4. ASSUME NEW c \in Cpus, NEW t \in Threads PROVE ~NewCall(c, t)
  BY DEF NewCall, nanosleep, Hibernate, create_thread, pte_osThreadWaitForEnd, Restore, suspend_pthread,
         resume_pthread, pte_osThreadCancel, Calls, At
<1> QED BY <1>1, <1>2, <1>3, <1>4 DEF Next

\* The first invariant holds throughout every behaviour whose workload is careful, and
\* the second one unless a joiner was marked too late.
LEMMA LinksHold ==
  ASSUME \A w \in Workloads : Careful(w)
  PROVE  Spec => [](SchedInv /\ (LinksInv \/ LateMark))
<1>1. \A w \in Workloads : "suspend" \in w.ops => \E c \in Cpus : w.cpus \subseteq {c}
  BY DEF Careful
<1>2. Init => SchedInv /\ (LinksInv \/ LateMark)
  BY <1>1, SchedInit, LinksInit
<1>3. ASSUME SchedInv, LateMark, [Next]_vars PROVE LateMark'
  <2>1. UNCHANGED vars
    BY <1>3, BugStops DEF LateMark
  <2>2. UNCHANGED <<k, pc, target, workload>>
    BY <2>1 DEF vars
  <2> QED BY <1>3, <2>2 DEF LateMark, OnlyLateMarkBug, Has
<1>4. SchedInv /\ (LinksInv \/ LateMark) /\ [Next]_vars => (SchedInv /\ (LinksInv \/ LateMark))'
  BY <1>3, SchedStep, LinksStep
<1> QED BY <1>2, <1>4, PTL DEF Spec

\* No BUG() of sched.c or pte.c is reached and no list node is linked twice, but for the
\* BUG() of pte_osThreadWaitForEnd in a joiner that was woken and not yet marked.
THEOREM OnlyLateMarkBugEver ==
  ASSUME \A w \in Workloads : Careful(w)
  PROVE  Spec => []OnlyLateMarkBug
<1>1. SchedInv /\ LinksInv => OnlyLateMarkBug
  BY SoundParts DEF LinksInv, OnlyLateMarkBug
<1>2. LateMark => OnlyLateMarkBug
  BY DEF LateMark
<1> QED BY <1>1, <1>2, LinksHold, PTL

\* No step changes the calls of a workload.
LEMMA OpsStay ==
  ASSUME workload \in WorkloadType, [Next]_vars
  PROVE  workload'.ops = workload.ops
<1>1. CASE UNCHANGED vars \/ Tick
  BY <1>1 DEF vars, Tick
<1>2. ASSUME NEW c \in Cpus, CpuStep(c) PROVE UNCHANGED workload
  BY <1>2 DEF CpuStep, pick_thread, switch_threads, sched_switch_thread_in, StoreFlags, sched_reap_dead, Reap,
              idle_thread_fn
<1>3. ASSUME NEW c \in Cpus, NEW t \in Threads, ThreadStep(c, t) \/ exit_thread(c, t) PROVE UNCHANGED workload
  BY <1>3 DEF ThreadStep, schedule, sleep_queue_add, sleep_queue_del, join_thread, JoinAdd, set_joining, JoinReturn,
              ExitDead, SuspendDo, sched_wake_joiner, set_cancelled, exit_thread, Continues
<1>4. ASSUME NEW c \in Cpus, NEW t \in Threads, NewCall(c, t)
      PROVE  workload' = [workload EXCEPT !.calls[t] = workload.calls[t] - 1]
  BY <1>4 DEF NewCall, nanosleep, Hibernate, create_thread, pte_osThreadWaitForEnd, Restore, suspend_pthread,
              resume_pthread, pte_osThreadCancel, Calls
<1>5. ASSUME NEW c \in Cpus, NEW t \in Threads, preempt_schedule(c, t)
      PROVE  workload' = [workload EXCEPT !.preempts[c] = workload.preempts[c] - 1]
  BY <1>5 DEF preempt_schedule
<1>6. ASSUME NEW c \in Cpus, NEW t \in Threads, NewCall(c, t) \/ preempt_schedule(c, t)
      PROVE  workload'.ops = workload.ops
  BY <1>4, <1>5, <1>6 DEF WorkloadType
<1> QED BY <1>1, <1>2, <1>3, <1>6 DEF Next

\* Without pthread_cancel, or without pthread_join, no BUG() is reached at all.
THEOREM NoBugUncancelled ==
  ASSUME \A w \in Workloads : Careful(w) /\ ~({"join", "cancel"} \subseteq w.ops)
  PROVE  Spec => []NoBug
<1> DEFINE Ok == ~({"join", "cancel"} \subseteq workload.ops)
<1>1. Init => Ok
  BY DEF Init
<1>2. SchedInv /\ (LinksInv \/ LateMark) /\ Ok /\ [Next]_vars => Ok'
  BY OpsStay DEF SchedInv, STypeOK
<1>3. SchedInv /\ (LinksInv \/ LateMark) /\ Ok => NoBug
  BY SoundParts DEF LinksInv, LateMark, NoBug
<1>4. \A w \in Workloads : Careful(w)
  OBVIOUS
<1>5. Spec => [](SchedInv /\ (LinksInv \/ LateMark))
  BY <1>4, LinksHold
<1> HIDE DEF Ok
<1> QED BY <1>1, <1>2, <1>3, <1>5, PTL DEF Spec

\* RUNNABLE_FLAG and membership of the ready queue agree.
THEOREM ReadyQueueIsExact ==
  ASSUME \A w \in Workloads : Careful(w)
  PROVE  Spec => []RunnableIsQueued
<1>1. ASSUME LinksInv, NEW t \in Threads
      PROVE  Has(k, t, {"RUNNABLE"}) <=> Contains(k.lists[READY], t)
  BY <1>1 DEF LinksInv, ThreadFits, PlaceFits, Has
<1>2. SchedInv /\ (LinksInv \/ LateMark) => RunnableIsQueued
  BY <1>1 DEF RunnableIsQueued, LateMark
<1> QED BY <1>2, LinksHold, PTL

\* A joiner that is asleep is on the list of a joinee that will still wake it.
THEOREM JoinersAreAwaited ==
  ASSUME \A w \in Workloads : Careful(w)
  PROVE  Spec => []JoinerHasWaker
<1>1. ASSUME LinksInv, NEW t \in Threads, pc[t] \in JoinSteps, ~Has(k, t, {"RUNNABLE", "SUSPENDED"})
      PROVE  Contains(k.lists[target[t]], t) /\ target[t] \in thread_list
  <2>1. ThreadFits(t) /\ "RUNNABLE" \notin k.flags[t]
    BY <1>1 DEF LinksInv, Has
  <2>2. target[t] \in Threads /\ Contains(k.lists[target[t]], t)
    BY <1>1, <2>1 DEF ThreadFits, JoinFits
  <2> QED BY <2>1, <2>2 DEF ThreadFits, PlaceFits
<1>2. SchedInv /\ (LinksInv \/ LateMark) => JoinerHasWaker
  BY <1>1 DEF JoinerHasWaker, JoinSteps, LateMark
<1> QED BY <1>2, LinksHold, PTL

\* Nothing refers to a thread that was reaped: no processor executes it, and no queue,
\* timer or joiner list links it.
THEOREM FreedThreadsAreUnlinked ==
  ASSUME \A w \in Workloads : Careful(w)
  PROVE  Spec => []ReapedIsUnreachable
<1>1. ASSUME SchedInv, LinksInv, NEW t \in Threads \ thread_list
      PROVE  /\ ~Linked(k, t) /\ ~Contains(sleep_queue, t) /\ k.lists[t] = << >>
             /\ \A c \in Cpus : current[c] # t
  <2>1. ThreadFits(t) /\ k \in Sound
    BY <1>1 DEF LinksInv
  <2>2. pc[t] \in {"none", "exit_sched", "dead"}
    BY <1>1, <2>1 DEF ThreadFits, LifeFits
  <2>3. ~Contains(sleep_queue, t)
    BY <2>1, <2>2 DEF ThreadFits, LifeFits
  <2>4. DOMAIN k.lists = Lists /\ k.lists \in [Lists -> Seq(Threads)] /\ t \in Lists
    BY <2>1, SoundParts DEF Lists
  <2>5. \A m \in Lists : ~Contains(k.lists[m], t)
    BY <1>1, <2>1, <2>2 DEF ThreadFits, FlagsFit, PlaceFits, JoinSteps, Lists
  <2>6. ~Linked(k, t)
    BY <2>4, <2>5 DEF Linked
  <2>7. k.lists[t] = << >>
    <3>1. PICK q \in Seq(Threads) : q = k.lists[t]
      BY <2>4
    <3>2. ASSUME NEW i \in 1..Len(q) PROVE FALSE
      <4>1. q[i] \in Threads /\ Contains(k.lists[t], q[i])
        BY <3>1, Lengths DEF Contains
      <4> QED BY <1>1, <4>1 DEF LinksInv, ThreadFits, PlaceFits
    <3>3. Len(q) = 0
      BY <3>2, Lengths
    <3> QED BY <3>1, <3>3
  <2>8. \A c \in Cpus : current[c] # t
    BY <1>1 DEF LinksInv, CpuFits
  <2> QED BY <2>3, <2>6, <2>7, <2>8
<1>2. SchedInv /\ (LinksInv \/ LateMark) => ReapedIsUnreachable
  BY <1>1 DEF ReapedIsUnreachable, LateMark
<1> QED BY <1>2, LinksHold, PTL
=============================================================================
