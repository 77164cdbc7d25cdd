---------------------------- MODULE MemoryProofs ----------------------------
(***************************************************************************)
(* Proofs about the memory: the page allocator (PageAllocator) and, of the  *)
(* kernel's smaller parts (MCKernel), page tables, heap and page bitmap.    *)
(*                                                                         *)
(* The page allocator: for any memory, any bulk limit above one page and    *)
(* any sizes of requests, with one allocating thread and its re-entry for   *)
(* page table frames.  The inductive invariant, PagesInv, ties the bitmap   *)
(* to the blocks and the hole, the memory Xen has populated to the end of   *)
(* memory and to the round of growth under way, and in_increase_memory to   *)
(* the activation that grows the domain.                                    *)
(*                                                                         *)
(* The page tables: for tables of any size and any number of levels.  The   *)
(* inductive invariant, TablesInv, says that the tables form a tree, ties   *)
(* the walk and the new table of the call under way to it, and the entries  *)
(* that wait for the batch to fill to the pages they are for.               *)
(*                                                                         *)
(* The heap: for pages, headers and requests of any size.  The inductive    *)
(* invariant, HeapInv, says that live and free blocks tile the pages taken  *)
(* (Tiling); MergeState follows xfree along the free list.                  *)
(*                                                                         *)
(* The bitmap: for words of any size.  WordsMatchPages is inductive as it   *)
(* is; the search loops are followed by the runs that are still ahead.      *)
(*                                                                         *)
(* Each lemma named ...Kept is one operation.                               *)
(***************************************************************************)
EXTENDS MCKernel, PageAllocator, TLAPS, FiniteSetTheorems, WellFoundedInduction

-----------------------------------------------------------------------------
(* The page allocator *)

Activations ==
  [pc : {"scan", "grow", "pt", "grown"}, n : Nat \ {0}, fallback : BOOLEAN, left : Int,
   hole_size : Nat, nn : Nat, rc : Nat, result : Nat]
Allocators ==
  [map : SUBSET Nat, first_free_page : Nat, first_free_bulk_page : Nat, end_alloc_page : Nat]
Holes == [start_pfn : Nat, end_pfn : Nat, linked : BOOLEAN]
Blocks == [page : Nat, n : Nat \ {0}, frame : BOOLEAN]

PTypeOK ==
  /\ a \in Allocators /\ hole \in Holes /\ in_increase_memory \in BOOLEAN
  /\ stack \in [Threads -> Seq(Activations)]
  /\ blocks \in SUBSET Blocks /\ backing \in [PageFrames -> Nat]
  /\ sizes \in Workloads /\ halt \in {"none", "crash"}

\* The activation that grows the domain, if there is one, is the outermost; it asks for
\* what the hole still has.
Grows(t) == stack[t] # << >> /\ stack[t][1].pc \in {"grow", "pt", "grown"}
Asks(r) ==
  /\ hole.linked /\ r.hole_size = hole.end_pfn - hole.start_pfn
  /\ 0 < r.left /\ r.left <= r.hole_size /\ r.nn <= r.left
  /\ r.pc # "grow" => r.rc <= r.nn
GrowthOf(t) ==
  /\ Len(stack[t]) <= 2
  /\ Len(stack[t]) = 2 =>
       stack[t][1].pc = "pt" /\ stack[t][2].pc = "scan" /\ stack[t][2].n = 1
  /\ stack[t] # << >> => stack[t][1].n \in sizes
  /\ halt = "none" => (in_increase_memory <=> Grows(t))
  /\ Grows(t) => Asks(stack[t][1])
PGrowth == \A t \in Threads : GrowthOf(t)

\* The hole begins where the pages end.
PHole ==
  /\ FirstEnd <= a.end_alloc_page /\ a.end_alloc_page <= MaxEnd
  /\ hole.linked => hole.start_pfn = a.end_alloc_page /\ hole.end_pfn = MaxEnd
  /\ ~hole.linked => a.end_alloc_page = MaxEnd

\* Memory is populated once up to the end of the pages, and for the round under way.
Pending(t) == IF stack[t] # << >> /\ stack[t][1].pc \in {"pt", "grown"} THEN stack[t][1].rc ELSE 0
PBacking ==
  \A t \in Threads : \A p \in PageFrames :
    backing[p] = IF p < a.end_alloc_page + Pending(t) THEN 1 ELSE 0

\* Blocks lie below the end, bulk blocks in the bulk region.
PBlocks ==
  /\ NoPageLost
  /\ \A b, d \in blocks : b # d => PageRun(b.page, b.n) \cap PageRun(d.page, d.n) = {}
  /\ \A b \in blocks :
       /\ b.page + b.n <= a.end_alloc_page
       /\ is_bulk(b.n) => FirstBulk <= b.page
       /\ ~b.frame => b.n \in sizes

PHints ==
  /\ FirstBulk <= a.first_free_bulk_page /\ a.first_free_bulk_page <= a.end_alloc_page
  /\ FreePagesFindable

\* The inductive invariant.
PagesInv == PTypeOK /\ PGrowth /\ PHole /\ PBacking /\ PBlocks /\ PHints


-----------------------------------------------------------------------------
(* Minima, maxima and sequences *)

\* A set of natural numbers that is not empty has a least element, and Min is one.
LEMMA MinIsLeast ==
  ASSUME NEW S \in SUBSET Nat, S # {}
  PROVE  Min(S) \in S /\ \A y \in S : Min(S) <= y
<1>1. \E x \in S : \A y \in S : ~(<<y, x>> \in OpToRel(<, Nat))
  BY WFMin, NatLessThanWellFounded
<1>2. PICK x \in S : \A y \in S : ~(<<y, x>> \in OpToRel(<, Nat))
  BY <1>1
<1>3. ASSUME NEW y \in S, ~(x <= y) PROVE FALSE
  <2>1. y < x
    BY <1>3
  <2>2. <<y, x>> \in OpToRel(<, Nat)
    BY <2>1 DEF OpToRel
  <2> QED BY <1>2, <2>2
<1> QED BY <1>3 DEF Min

\* The least and the greatest of two numbers.
LEMMA MinOfTwo ==
  ASSUME NEW x \in Nat, NEW y \in Nat
  PROVE  Min({x, y}) \in {x, y} /\ Min({x, y}) <= x /\ Min({x, y}) <= y
  BY MinIsLeast
LEMMA MaxOfTwo ==
  ASSUME NEW x \in Nat, NEW y \in Nat, x <= y
  PROVE  Max({x, y}) = y
  BY DEF Max

\* Appending keeps what was there.
LEMMA AppendOne ==
  ASSUME NEW S, NEW q \in Seq(S), NEW v \in S
  PROVE  /\ Append(q, v) \in Seq(S) /\ Len(q) \in Nat /\ Len(Append(q, v)) = Len(q) + 1
         /\ Append(q, v)[Len(q) + 1] = v
         /\ \A j \in 1..Len(q) : Append(q, v)[j] = q[j]
  OBVIOUS

\* An empty sequence has length 0, and no other has.
LEMMA Lengths ==
  ASSUME NEW S, NEW q \in Seq(S)
  PROVE  /\ Len(q) \in Nat /\ (q = << >> <=> Len(q) = 0)
         /\ \A i \in 1..Len(q) : q[i] \in S
  OBVIOUS

-----------------------------------------------------------------------------
(* Activations *)

USE RegionsAssumption, WorkloadsAssumption

\* A thread within increase_memory_holding_lock has one activation.
LEMMA Outer ==
  ASSUME NEW me, Threads = {me}, PagesInv, NEW pc, Running(me, pc), pc # "scan"
  PROVE  /\ stack[me] \in Seq(Activations) /\ Len(stack[me]) = 1 /\ halt = "none"
         /\ Top(me) = stack[me][1] /\ Top(me) \in Activations /\ Top(me).pc = pc
<1>1. stack[me] \in Seq(Activations)
  BY DEF PagesInv, PTypeOK
<1>2. Len(stack[me]) \in Nat /\ (stack[me] = << >> <=> Len(stack[me]) = 0)
      /\ \A i \in 1..Len(stack[me]) : stack[me][i] \in Activations
  BY <1>1, Lengths
<1>3. /\ halt = "none" /\ stack[me] # << >> /\ stack[me][Len(stack[me])].pc = pc
      /\ Len(stack[me]) <= 2 /\ (Len(stack[me]) = 2 => stack[me][2].pc = "scan")
  BY DEF Running, PagesInv, PGrowth, GrowthOf
<1>4. Len(stack[me]) # 2
  <2>1. SUFFICES ASSUME Len(stack[me]) = 2 PROVE FALSE
    OBVIOUS
  <2>2. stack[me][2].pc = pc
    BY <1>3, <2>1
  <2> QED BY <1>3, <2>1, <2>2
<1>5. Len(stack[me]) \in Nat /\ Len(stack[me]) # 0 /\ Len(stack[me]) <= 2
  BY <1>2, <1>3
<1>6. Len(stack[me]) = 1
  <2> DEFINE l == Len(stack[me])
  <2>1. l \in Nat /\ l # 0 /\ l # 2 /\ l <= 2
    BY <1>4, <1>5
  <2> HIDE DEF l
  <2>2. l = 1
    BY <2>1
  <2> QED BY <2>2 DEF l
<1> QED BY <1>1, <1>2, <1>3, <1>6 DEF Top

\* What replacing the only activation leaves.
LEMMA SetOnly ==
  ASSUME NEW me, Threads = {me}, stack \in [Threads -> Seq(Activations)], Len(stack[me]) = 1,
         NEW r \in Activations, SetTop(me, r)
  PROVE  /\ stack' \in [Threads -> Seq(Activations)]
         /\ Len(stack'[me]) = 1 /\ stack'[me][1] = r
<1>1. stack' = [stack EXCEPT ![me] = [stack[me] EXCEPT ![1] = r]]
  BY DEF SetTop
<1>2. stack'[me] = [stack[me] EXCEPT ![1] = r]
  BY <1>1
<1>3. /\ [stack[me] EXCEPT ![1] = r] \in Seq(Activations)
      /\ Len([stack[me] EXCEPT ![1] = r]) = 1 /\ [stack[me] EXCEPT ![1] = r][1] = r
  OBVIOUS
<1>4. stack' \in [Threads -> Seq(Activations)]
  BY <1>1, <1>3
<1> QED BY <1>2, <1>3, <1>4

\* What a return leaves: nothing, or the activation that waits for the frame.
LEMMA ReturnEffect ==
  ASSUME NEW me, Threads = {me}, stack \in [Threads -> Seq(Activations)], Return(me),
         Len(stack[me]) \in {1, 2}
  PROVE  /\ stack' \in [Threads -> Seq(Activations)]
         /\ Len(stack[me]) = 1 => Len(stack'[me]) = 0
         /\ Len(stack[me]) = 2 =>
              Len(stack'[me]) = 1 /\ stack'[me][1] = [stack[me][1] EXCEPT !.pc = "grown"]
<1> DEFINE s == stack[me]
           q == IF Len(s) = 1 THEN << >>
                ELSE [SubSeq(s, 1, Len(s) - 1) EXCEPT ![Len(s) - 1].pc = "grown"]
<1>1. stack' = [stack EXCEPT ![me] = q]
  BY DEF Return
<1>2. s \in Seq(Activations) /\ Len(s) \in {1, 2}
  OBVIOUS
<1>3. CASE Len(s) = 1
  <2>1. q = << >> /\ q \in Seq(Activations) /\ Len(q) = 0
    BY <1>3
  <2> QED BY <1>1, <1>3, <2>1
<1>4. CASE Len(s) = 2
  <2>1. s[1] \in Activations
    BY <1>2, <1>4
  <2>2. PICK r \in Activations : r = [s[1] EXCEPT !.pc = "grown"]
    BY <2>1 DEF Activations
  <2>3. /\ SubSeq(s, 1, 1) \in Seq(Activations) /\ Len(SubSeq(s, 1, 1)) = 1
        /\ SubSeq(s, 1, 1)[1] = s[1]
    BY <1>2, <1>4
  <2>4. q = [SubSeq(s, 1, 1) EXCEPT ![1] = r]
    BY <1>4, <2>2, <2>3
  <2> HIDE DEF q, s
  <2>5. q \in Seq(Activations) /\ Len(q) = 1 /\ q[1] = r
    BY <2>3, <2>4
  <2>6. stack'[me] = q /\ stack' \in [Threads -> Seq(Activations)]
    BY <1>1, <2>5
  <2> QED BY <1>4, <2>2, <2>5, <2>6 DEF s
<1> QED BY <1>2, <1>3, <1>4

-----------------------------------------------------------------------------
(* Operations *)

\* The initial state.
LEMMA PagesInitially ==
  ASSUME NEW me, Threads = {me}, PaInit
  PROVE  PagesInv
<1> USE DEF PaInit
<1>1. PTypeOK
  <2>1. << >> \in Seq(Activations)
    OBVIOUS
  <2>2. backing \in [PageFrames -> Nat] /\ stack \in [Threads -> Seq(Activations)]
    BY <2>1
  <2>3. a \in Allocators
    BY DEF Allocators
  <2>4. hole \in Holes /\ in_increase_memory \in BOOLEAN
    BY DEF Holes
  <2>5. blocks \in SUBSET Blocks /\ sizes \in Workloads /\ halt \in {"none", "crash"}
    OBVIOUS
  <2> QED BY <2>2, <2>3, <2>4, <2>5 DEF PTypeOK
<1>2. PGrowth
  <2>1. stack[me] = << >> /\ Len(stack[me]) = 0
    OBVIOUS
  <2>2. ~Grows(me)
    BY <2>1 DEF Grows
  <2> QED BY <2>1, <2>2 DEF PGrowth, GrowthOf
<1>3. PHole
  BY DEF PHole
<1>4. PBacking
  BY DEF PBacking, Pending, PageFrames
<1>5. PBlocks
  <2>1. blocks = {} /\ a.map = hole.start_pfn..(hole.end_pfn - 1) /\ hole.linked
    OBVIOUS
  <2>2. UNION {PageRun(b.page, b.n) : b \in blocks} = {}
    <3>1. \A x : x \notin UNION {PageRun(b.page, b.n) : b \in blocks}
      BY <2>1, Zenon
    <3> QED BY <3>1
  <2> HIDE DEF PaInit
  <2>3. a.map = {} \cup (IF hole.linked THEN hole.start_pfn..(hole.end_pfn - 1) ELSE {})
    BY <2>1
  <2>4. NoPageLost
    BY <2>2, <2>3, Zenon DEF NoPageLost
  <2> QED BY <2>1, <2>4 DEF PBlocks
<1>6. PHints
  BY DEF PHints, FreePagesFindable
<1> QED BY <1>1, <1>2, <1>3, <1>4, <1>5, <1>6 DEF PagesInv

\* A call of _allocate_pages.
LEMMA CallKept ==
  ASSUME NEW me, Threads = {me}, PagesInv, NEW n \in sizes, allocate_pages(me, n)
  PROVE  PagesInv'
<1>1. /\ halt = "none" /\ stack[me] = << >> /\ stack' = [stack EXCEPT ![me] = <<Activation(n)>>]
      /\ UNCHANGED <<a, hole, in_increase_memory, blocks, backing, halt, sizes>>
  BY DEF allocate_pages
<1>2. Activation(n) \in Activations /\ Activation(n).pc = "scan" /\ Activation(n).n = n
  BY DEF PagesInv, PTypeOK, Activation, Activations
<1> HIDE DEF Activation
<1>3. PICK r \in Activations : r = Activation(n)
  BY <1>2
<1>4. <<r>> \in Seq(Activations) /\ Len(<<r>>) = 1 /\ <<r>>[1] = r
  OBVIOUS
<1>5. stack' \in [Threads -> Seq(Activations)] /\ stack'[me] = <<r>>
  BY <1>1, <1>3, <1>4 DEF PagesInv, PTypeOK
<1>6. Len(stack'[me]) = 1 /\ stack'[me][1] = r /\ r.pc = "scan" /\ r.n = n /\ stack'[me] # << >>
  BY <1>2, <1>3, <1>4, <1>5
<1>t. PTypeOK'
  BY <1>1, <1>5 DEF PagesInv, PTypeOK
<1>g. PGrowth'
  <2>1. ~Grows(me) /\ ~Grows(me)'
    BY <1>1, <1>6 DEF Grows
  <2> QED BY <1>1, <1>6, <2>1 DEF PagesInv, PGrowth, GrowthOf
<1>h. PHole'
  BY <1>1 DEF PagesInv, PHole
<1>b. PBacking'
  <2>1. Pending(me) = 0 /\ Pending(me)' = 0
    BY <1>1, <1>6 DEF Pending
  <2> QED BY <1>1, <2>1 DEF PagesInv, PBacking
<1>l. PBlocks'
  BY <1>1 DEF PagesInv, PBlocks, NoPageLost
<1>f. PHints'
  BY <1>1 DEF PagesInv, PHints, FreePagesFindable
<1> QED BY <1>t, <1>g, <1>h, <1>b, <1>l, <1>f DEF PagesInv

\* What a step needs to know when it takes nothing from the bitmap and the hole.
LEMMA DataKept ==
  ASSUME NEW me, Threads = {me}, PagesInv, UNCHANGED <<a, hole, blocks, backing, sizes>>,
         halt' \in {"none", "crash"}, in_increase_memory' \in BOOLEAN,
         stack' \in [Threads -> Seq(Activations)], PGrowth', Pending(me)' = Pending(me)
  PROVE  PagesInv'
<1>1. PTypeOK'
  BY DEF PagesInv, PTypeOK
<1>2. PHole'
  BY DEF PagesInv, PHole
<1>3. PBacking'
  BY DEF PagesInv, PBacking
<1>4. PBlocks'
  BY DEF PagesInv, PBlocks, NoPageLost
<1>5. PHints'
  BY DEF PagesInv, PHints, FreePagesFindable
<1> QED BY <1>1, <1>2, <1>3, <1>4, <1>5 DEF PagesInv

\* A request fails: it returns 0 or crashes the system.
LEMMA FailedKept ==
  ASSUME NEW me, Threads = {me}, 1 < BULK_ALLOCATION, PagesInv, halt = "none",
         stack[me] # << >>, Failed(me), Top(me).pc \in {"scan", "grown"},
         Top(me).pc = "grown" => Top(me).rc = 0
  PROVE  PagesInv'
<1>1. /\ in_increase_memory' = FALSE /\ UNCHANGED <<a, hole, blocks, backing, sizes>>
      /\ is_bulk(Top(me).n) => halt' = halt /\ Return(me)
      /\ ~is_bulk(Top(me).n) => halt' = "crash" /\ stack' = stack
  BY DEF Failed
<1>2. stack \in [Threads -> Seq(Activations)] /\ stack[me] \in Seq(Activations)
  BY DEF PagesInv, PTypeOK
<1>3. /\ Len(stack[me]) \in Nat /\ Len(stack[me]) # 0 /\ Len(stack[me]) <= 2
      /\ \A i \in 1..Len(stack[me]) : stack[me][i] \in Activations
  BY <1>2, Lengths DEF PagesInv, PGrowth, GrowthOf
<1>4. CASE is_bulk(Top(me).n)
  <2>1. Len(stack[me]) # 2
    BY <1>4 DEF PagesInv, PGrowth, GrowthOf, Top, is_bulk
  <2>2. Len(stack[me]) = 1
    <3> DEFINE l == Len(stack[me])
    <3>1. l \in Nat /\ l # 0 /\ l <= 2 /\ l # 2
      BY <1>3, <2>1
    <3> HIDE DEF l
    <3>2. l = 1
      BY <3>1
    <3> QED BY <3>2 DEF l
  <2>3. Len(stack'[me]) = 0 /\ stack' \in [Threads -> Seq(Activations)]
    BY <1>1, <1>2, <1>4, <2>2, ReturnEffect
  <2>4. stack'[me] = << >>
    BY <2>3, Lengths
  <2>5. PGrowth'
    BY <1>1, <2>3, <2>4 DEF PGrowth, GrowthOf, Grows
  <2>6. Pending(me) = 0 /\ Pending(me)' = 0
    BY <2>2, <2>4 DEF Pending, Top
  <2> QED BY <1>1, <1>4, <2>3, <2>5, <2>6, DataKept
<1>5. CASE ~is_bulk(Top(me).n)
  <2>1. PGrowth'
    BY <1>1, <1>5 DEF PagesInv, PGrowth, GrowthOf, Grows, Asks
  <2>2. Pending(me)' = Pending(me)
    BY <1>1, <1>5 DEF Pending
  <2> QED BY <1>1, <1>2, <1>5, <2>1, <2>2, DataKept
<1> QED BY <1>4, <1>5

\* The domain starts to grow: the search found nothing and the hole is large enough.
LEMMA StartKept ==
  ASSUME NEW me, Threads = {me}, PagesInv, Running(me, "scan"),
         ~in_increase_memory, can_increase(Top(me).n), increase_memory_holding_lock(me)
  PROVE  PagesInv'
<1>1. /\ stack \in [Threads -> Seq(Activations)] /\ stack[me] \in Seq(Activations)
      /\ hole \in Holes /\ hole.linked /\ hole.end_pfn - hole.start_pfn >= Top(me).n
      /\ halt = "none"
  BY DEF PagesInv, PTypeOK, can_increase, Running
<1>2. /\ Len(stack[me]) \in Nat /\ Len(stack[me]) # 0 /\ Len(stack[me]) <= 2
      /\ \A i \in 1..Len(stack[me]) : stack[me][i] \in Activations
  BY <1>1, Lengths DEF PagesInv, PGrowth, GrowthOf, Running
<1>3. ~Grows(me)
  BY <1>1 DEF PagesInv, PGrowth, GrowthOf
<1>4. Len(stack[me]) # 2
  BY <1>2, <1>3 DEF PagesInv, PGrowth, GrowthOf, Grows, Running
<1>5. Len(stack[me]) = 1
  <2> DEFINE l == Len(stack[me])
  <2>1. l \in Nat /\ l # 0 /\ l <= 2 /\ l # 2
    BY <1>2, <1>4
  <2> HIDE DEF l
  <2>2. l = 1
    BY <2>1
  <2> QED BY <2>2 DEF l
<1>6. Top(me) = stack[me][1] /\ Top(me) \in Activations /\ Top(me).pc = "scan"
      /\ Top(me).n \in sizes /\ stack[me] # << >>
  BY <1>2, <1>5 DEF Top, Running, PagesInv, PGrowth, GrowthOf
<1>7. PICK q : q = Top(me)
  OBVIOUS
<1>8. PICK size \in Nat : size = hole.end_pfn - hole.start_pfn /\ size >= q.n
  BY <1>1, <1>6, <1>7, SMTT(30) DEF Holes, Activations
<1>9. PICK nn \in Nat : nn = Min({size, q.n}) /\ nn <= q.n
  BY <1>6, <1>7, <1>8, MinOfTwo DEF Activations
<1>9x. PICK p : p = [q EXCEPT !.left = q.n, !.result = 0, !.fallback = TRUE]
  OBVIOUS
<1>9y. p \in Activations /\ p.n = q.n /\ p.left = q.n
  <2>1. q \in Activations
    BY <1>6, <1>7
  <2>2. q.n \in Int /\ 0 \in Nat /\ TRUE \in BOOLEAN
    BY <2>1 DEF Activations
  <2>3. p \in Activations
    BY <1>9x, <2>1, <2>2, Zenon DEF Activations
  <2> QED BY <1>9x, <2>1, <2>3 DEF Activations
<1>10. PICK r : r = [p EXCEPT !.pc = "grow", !.hole_size = size, !.nn = nn]
  OBVIOUS
<1>11. r \in Activations
  BY <1>9y, <1>10 DEF Activations
<1>12. Round(p, hole) = r
  BY <1>8, <1>9, <1>9y, <1>10 DEF Round
<1>13. /\ SetTop(me, r) /\ in_increase_memory' = TRUE
       /\ UNCHANGED <<a, hole, blocks, backing, halt, sizes>>
  BY <1>7, <1>9x, <1>12 DEF increase_memory_holding_lock
<1>14. stack' \in [Threads -> Seq(Activations)] /\ Len(stack'[me]) = 1 /\ stack'[me][1] = r
  BY <1>1, <1>5, <1>11, <1>13, SetOnly
<1>15. stack'[me] # << >>
  BY <1>14, Lengths
<1>16. r.pc = "grow" /\ r.n = q.n /\ r.left = q.n /\ r.hole_size = size /\ r.nn = nn
  BY <1>9y, <1>10 DEF Activations
<1>17. PGrowth'
  <2>1. Grows(me)'
    BY <1>14, <1>15, <1>16 DEF Grows
  <2>2. Asks(r)'
    BY <1>1, <1>6, <1>7, <1>8, <1>9, <1>13, <1>16, SMTT(30) DEF Activations, Asks
  <2>3. r.n \in sizes'
    BY <1>6, <1>7, <1>13, <1>16
  <2>4. in_increase_memory' <=> Grows(me)'
    BY <1>13, <2>1
  <2>5. GrowthOf(me)'
    BY <1>14, <1>16, <2>2, <2>3, <2>4 DEF GrowthOf
  <2> QED BY <2>5 DEF PGrowth
<1>18. Pending(me) = 0 /\ Pending(me)' = 0
  BY <1>3, <1>14, <1>16 DEF Pending, Grows
<1> QED BY <1>1, <1>13, <1>14, <1>17, <1>18, DataKept DEF PagesInv, PTypeOK

\* What the invariant says of the activation that grows the domain.
LEMMA Growing ==
  ASSUME NEW me, Threads = {me}, PagesInv, Len(stack[me]) = 1, halt = "none",
         NEW r, r = stack[me][1], r \in Activations, r.pc \in {"grow", "pt", "grown"}
  PROVE  /\ in_increase_memory /\ Grows(me) /\ r.n \in sizes
         /\ hole \in Holes /\ hole.linked /\ r.hole_size = hole.end_pfn - hole.start_pfn
         /\ r.left \in Int /\ r.nn \in Nat /\ r.rc \in Nat /\ r.hole_size \in Nat /\ r.result \in Nat
         /\ 0 < r.left /\ r.left <= r.hole_size /\ r.nn <= r.left
         /\ r.pc # "grow" => r.rc <= r.nn
         /\ Pending(me) = (IF r.pc = "grow" THEN 0 ELSE r.rc)
<1>1. stack[me] # << >>
  OBVIOUS
<1>2. Grows(me)
  BY <1>1 DEF Grows
<1>3. r.left \in Int /\ r.nn \in Nat /\ r.rc \in Nat /\ r.hole_size \in Nat /\ r.result \in Nat
  BY DEF Activations
<1>4. Pending(me) = (IF r.pc = "grow" THEN 0 ELSE r.rc)
  BY <1>1 DEF Pending
<1>5. hole \in Holes
  BY DEF PagesInv, PTypeOK
<1> QED BY <1>1, <1>2, <1>3, <1>4, <1>5 DEF PagesInv, PGrowth, GrowthOf, Asks

\* build_pagetable asks for a frame.
LEMMA FrameKept ==
  ASSUME NEW me, Threads = {me}, PagesInv, pfn_alloc_alloc(me)
  PROVE  PagesInv'
<1>1. /\ Running(me, "pt") /\ stack' = [stack EXCEPT ![me] = Append(stack[me], Activation(1))]
      /\ UNCHANGED <<a, hole, in_increase_memory, blocks, backing, halt, sizes>>
  BY DEF PagesInv, PTypeOK, pfn_alloc_alloc
<1>2. /\ stack[me] \in Seq(Activations) /\ Len(stack[me]) = 1 /\ halt = "none"
      /\ Top(me) = stack[me][1] /\ Top(me) \in Activations /\ Top(me).pc = "pt"
  BY <1>1, Outer
<1>3. PICK f \in Activations : f = Activation(1) /\ f.pc = "scan" /\ f.n = 1
  <2>1. Activation(1) \in Activations /\ Activation(1).pc = "scan" /\ Activation(1).n = 1
    BY DEF Activation, Activations
  <2> QED BY <2>1
<1>4. PICK r \in Activations : r = stack[me][1] /\ r.pc = "pt"
  BY <1>2
<1>5. /\ Append(stack[me], f) \in Seq(Activations) /\ Len(Append(stack[me], f)) = 2
      /\ Append(stack[me], f)[2] = f /\ Append(stack[me], f)[1] = r
  <2>1. PICK q \in Seq(Activations) : q = stack[me] /\ Len(q) = 1 /\ q[1] = r
    BY <1>2, <1>4
  <2>2. /\ Append(q, f) \in Seq(Activations) /\ Len(Append(q, f)) = Len(q) + 1
        /\ Append(q, f)[Len(q) + 1] = f /\ \A j \in 1..Len(q) : Append(q, f)[j] = q[j]
    BY AppendOne
  <2> QED BY <2>1, <2>2
<1>6. /\ stack' \in [Threads -> Seq(Activations)] /\ Len(stack'[me]) = 2
      /\ stack'[me][2] = f /\ stack'[me][1] = r /\ stack'[me] # << >>
  <2>1. stack' \in [Threads -> Seq(Activations)] /\ stack'[me] = Append(stack[me], f)
    BY <1>1, <1>3, <1>5 DEF PagesInv, PTypeOK
  <2>2. Append(stack[me], f) # << >>
    BY <1>5, Lengths
  <2> QED BY <1>5, <2>1, <2>2
<1>7. /\ in_increase_memory /\ r.n \in sizes /\ hole.linked
      /\ r.hole_size = hole.end_pfn - hole.start_pfn
      /\ 0 < r.left /\ r.left <= r.hole_size /\ r.nn <= r.left /\ r.rc <= r.nn
      /\ Pending(me) = r.rc
  BY <1>2, <1>4, Growing
<1>8. PGrowth'
  <2>1. Grows(me)'
    BY <1>4, <1>6 DEF Grows
  <2> QED BY <1>1, <1>3, <1>4, <1>6, <1>7, <2>1 DEF PGrowth, GrowthOf, Asks
<1>9. Pending(me)' = r.rc
  BY <1>4, <1>6 DEF Pending
<1> QED BY <1>1, <1>6, <1>7, <1>8, <1>9, DataKept DEF PagesInv, PTypeOK

\* The search is resumed after what was granted.
LEMMA RescanKept ==
  ASSUME NEW me, Threads = {me}, PagesInv, Running(me, "grown"), Top(me).rc = 0,
         Rescan(me, Top(me))
  PROVE  PagesInv'
<1>1. /\ stack[me] \in Seq(Activations) /\ Len(stack[me]) = 1 /\ halt = "none"
      /\ Top(me) = stack[me][1] /\ Top(me) \in Activations /\ Top(me).pc = "grown"
  BY Outer
<1>2. PICK r \in Activations : r = Top(me)
  BY <1>1
<1>3. PICK s : s = [r EXCEPT !.pc = "scan"]
  OBVIOUS
<1>4. s \in Activations /\ s.pc = "scan" /\ s.n = r.n
  BY <1>3 DEF Activations
<1>5. SetTop(me, s) /\ in_increase_memory' = FALSE /\ UNCHANGED <<a, hole, blocks, backing, halt, sizes>>
  BY <1>2, <1>3 DEF Rescan
<1>6. stack' \in [Threads -> Seq(Activations)] /\ Len(stack'[me]) = 1 /\ stack'[me][1] = s
  BY <1>1, <1>4, <1>5, SetOnly DEF PagesInv, PTypeOK
<1>7. Pending(me) = 0 /\ r.n \in sizes
  BY <1>1, <1>2, Growing
<1>8. PGrowth'
  <2>1. ~Grows(me)'
    BY <1>4, <1>6 DEF Grows
  <2>2. in_increase_memory' <=> Grows(me)'
    BY <1>5, <2>1
  <2>3. s.n \in sizes'
    BY <1>4, <1>5, <1>7
  <2>4. GrowthOf(me)'
    BY <1>6, <2>1, <2>2, <2>3 DEF GrowthOf
  <2> QED BY <2>4 DEF PGrowth
<1>9. Pending(me)' = 0
  BY <1>4, <1>6 DEF Pending
<1> QED BY <1>1, <1>5, <1>6, <1>7, <1>8, <1>9, DataKept DEF PagesInv, PTypeOK

\* Xen populates some of the pages asked for, from the end of memory on.
LEMMA ReservationKept ==
  ASSUME NEW me, Threads = {me}, PagesInv, increase_reservation(me)
  PROVE  PagesInv'
<1>1. Running(me, "grow")
  BY DEF increase_reservation
<1>2. /\ stack[me] \in Seq(Activations) /\ Len(stack[me]) = 1 /\ halt = "none"
      /\ Top(me) = stack[me][1] /\ Top(me) \in Activations /\ Top(me).pc = "grow"
  BY <1>1, Outer
<1>3. PICK q \in Activations : q = Top(me) /\ q = stack[me][1] /\ q.pc = "grow"
  BY <1>2
<1>4. /\ in_increase_memory /\ Grows(me) /\ q.n \in sizes
      /\ hole \in Holes /\ hole.linked /\ q.hole_size = hole.end_pfn - hole.start_pfn
      /\ q.left \in Int /\ q.nn \in Nat /\ q.hole_size \in Nat
      /\ 0 < q.left /\ q.left <= q.hole_size /\ q.nn <= q.left
      /\ Pending(me) = 0
  BY <1>2, <1>3, Growing
<1>5. ~(hole.end_pfn - hole.start_pfn < q.nn)
  BY <1>4 DEF Holes
<1>6. PICK rc \in 0..q.nn, pc \in {"grown", "pt"} :
        /\ backing' = [p \in PageFrames |-> IF p \in PageRun(hole.start_pfn, rc)
                                         THEN backing[p] + 1 ELSE backing[p]]
        /\ SetTop(me, [q EXCEPT !.pc = pc, !.rc = rc])
        /\ UNCHANGED <<a, hole, in_increase_memory, blocks, halt, sizes>>
  BY <1>3, <1>5 DEF increase_reservation
<1>7. PICK r : r = [q EXCEPT !.pc = pc, !.rc = rc]
  OBVIOUS
<1>8. r \in Activations
  <2>1. rc \in Nat /\ pc \in {"scan", "grow", "pt", "grown"}
    OBVIOUS
  <2> QED BY <1>7, <2>1, Zenon DEF Activations
<1>9. /\ r.pc = pc /\ r.rc = rc /\ r.n = q.n /\ r.left = q.left /\ r.nn = q.nn
      /\ r.hole_size = q.hole_size
  BY <1>7 DEF Activations
<1>10. /\ stack' \in [Threads -> Seq(Activations)] /\ Len(stack'[me]) = 1 /\ stack'[me][1] = r
  BY <1>2, <1>6, <1>7, <1>8, SetOnly DEF PagesInv, PTypeOK
<1>11. stack'[me] # << >>
  BY <1>10, Lengths
<1>12. Grows(me)' /\ Pending(me)' = rc
  BY <1>6, <1>9, <1>10, <1>11 DEF Grows, Pending
<1>t. PTypeOK'
  <2>1. backing' \in [PageFrames -> Nat]
    BY <1>6 DEF PagesInv, PTypeOK
  <2> QED BY <1>6, <1>10, <2>1 DEF PagesInv, PTypeOK
<1>g. PGrowth'
  <2>1. Asks(r)'
    BY <1>4, <1>6, <1>9 DEF Asks
  <2>2. in_increase_memory' <=> Grows(me)'
    BY <1>4, <1>6, <1>12
  <2>3. GrowthOf(me)'
    BY <1>4, <1>6, <1>9, <1>10, <2>1, <2>2 DEF GrowthOf
  <2> QED BY <2>3 DEF PGrowth
<1>h. PHole'
  BY <1>6 DEF PagesInv, PHole
<1>b. PBacking'
  <2>1. hole.start_pfn = a.end_alloc_page /\ a.end_alloc_page \in Nat
    BY <1>4 DEF PagesInv, PHole, PTypeOK, Allocators
  <2>2. \A p \in PageFrames : backing[p] = IF p < a.end_alloc_page THEN 1 ELSE 0
    BY <1>4, <2>1 DEF PagesInv, PBacking, PageFrames
  <2>3. \A p \in PageFrames : backing'[p] = IF p < a.end_alloc_page + rc THEN 1 ELSE 0
    BY <1>6, <2>1, <2>2 DEF PageRun, PageFrames
  <2>4. \A p \in PageFrames : backing'[p] = IF p < a'.end_alloc_page + Pending(me)' THEN 1 ELSE 0
    BY <1>6, <1>12, <2>3
  <2> QED BY <2>4 DEF PBacking
<1>l. PBlocks'
  BY <1>6 DEF PagesInv, PBlocks, NoPageLost
<1>f. PHints'
  BY <1>6 DEF PagesInv, PHints, FreePagesFindable
<1> QED BY <1>t, <1>g, <1>h, <1>b, <1>l, <1>f DEF PagesInv

\* The runs of blocks and the rest of the bitmap.
LEMMA Bits ==
  ASSUME PagesInv
  PROVE  /\ a \in Allocators /\ hole \in Holes /\ blocks \in SUBSET Blocks
         /\ \A p : p \in a.map <=>
              \/ \E b \in blocks : p \in PageRun(b.page, b.n)
              \/ hole.linked /\ p \in hole.start_pfn..(hole.end_pfn - 1)
         /\ \A b \in blocks : \A p \in PageRun(b.page, b.n) : p \in Nat /\ p < a.end_alloc_page
<1>1. /\ a \in Allocators /\ hole \in Holes /\ blocks \in SUBSET Blocks
      /\ a.map = (UNION {PageRun(b.page, b.n) : b \in blocks}) \cup
                 (IF hole.linked THEN hole.start_pfn..(hole.end_pfn - 1) ELSE {})
      /\ \A b \in blocks : b.page + b.n <= a.end_alloc_page
  BY DEF PagesInv, PTypeOK, PBlocks, NoPageLost
<1>2. \A p : p \in a.map <=>
        \/ \E b \in blocks : p \in PageRun(b.page, b.n)
        \/ hole.linked /\ p \in hole.start_pfn..(hole.end_pfn - 1)
  BY <1>1
<1>3. \A b \in blocks : \A p \in PageRun(b.page, b.n) : p \in Nat /\ p < a.end_alloc_page
  BY <1>1 DEF PageRun, Blocks, Allocators
<1> QED BY <1>1, <1>2, <1>3

\* The converse: a bitmap that is so lost no page.
LEMMA BitsKept ==
  ASSUME \A p : p \in a'.map <=>
              \/ \E b \in blocks' : p \in PageRun(b.page, b.n)
              \/ hole'.linked /\ p \in hole'.start_pfn..(hole'.end_pfn - 1)
  PROVE  NoPageLost'
<1>1. \A p : p \in UNION {PageRun(b.page, b.n) : b \in blocks'} <=> \E b \in blocks' : p \in PageRun(b.page, b.n)
  OBVIOUS
<1>2. \A p : p \in (IF hole'.linked THEN hole'.start_pfn..(hole'.end_pfn - 1) ELSE {}) <=>
             hole'.linked /\ p \in hole'.start_pfn..(hole'.end_pfn - 1)
  OBVIOUS
<1> DEFINE U == UNION {PageRun(b.page, b.n) : b \in blocks'}
           H == IF hole'.linked THEN hole'.start_pfn..(hole'.end_pfn - 1) ELSE {}
<1>3. NoPageLost' <=> a'.map = U \cup H
  BY DEF NoPageLost
<1> HIDE DEF U, H
<1>4. a'.map \subseteq U \cup H /\ U \cup H \subseteq a'.map
  BY <1>1, <1>2 DEF U, H
<1> QED BY <1>3, <1>4

\* The pages granted become free pages, and the hole loses them.
LEMMA GrantedKept ==
  ASSUME NEW me, Threads = {me}, PagesInv, Running(me, "grown"), Top(me).rc > 0,
         Granted(me, Top(me))
  PROVE  PagesInv'
<1>1. /\ stack[me] \in Seq(Activations) /\ Len(stack[me]) = 1 /\ halt = "none"
      /\ Top(me) = stack[me][1] /\ Top(me) \in Activations /\ Top(me).pc = "grown"
  BY Outer
<1>2. PICK q \in Activations : q = Top(me) /\ q = stack[me][1] /\ q.pc = "grown" /\ q.rc > 0
  BY <1>1
<1>3. /\ in_increase_memory /\ Grows(me) /\ q.n \in sizes
      /\ hole \in Holes /\ hole.linked /\ q.hole_size = hole.end_pfn - hole.start_pfn
      /\ q.left \in Int /\ q.nn \in Nat /\ q.rc \in Nat /\ q.hole_size \in Nat /\ q.result \in Nat
      /\ 0 < q.left /\ q.left <= q.hole_size /\ q.nn <= q.left /\ q.rc <= q.nn
      /\ Pending(me) = q.rc
  BY <1>1, <1>2, Growing
<1>4. PICK end \in Nat, rc \in Nat \ {0}, rest \in Nat :
        /\ end = a.end_alloc_page /\ rc = q.rc /\ rest = q.left - q.rc
        /\ hole.start_pfn = end /\ hole.end_pfn = MaxEnd /\ FirstEnd <= end
        /\ rest <= MaxEnd - (end + rc) /\ end + rc <= MaxEnd
  <2>1. /\ a.end_alloc_page \in Nat /\ hole.start_pfn = a.end_alloc_page /\ hole.end_pfn = MaxEnd
        /\ FirstEnd <= a.end_alloc_page
    BY <1>3 DEF PagesInv, PHole, PTypeOK, Allocators
  <2>2. q.rc \in Nat \ {0} /\ q.left - q.rc \in Nat
    BY <1>2, <1>3
  <2>3. /\ q.left - q.rc <= MaxEnd - (a.end_alloc_page + q.rc)
        /\ a.end_alloc_page + q.rc <= MaxEnd
    BY <1>3, <2>1
  <2> QED BY <2>1, <2>2, <2>3
<1>5. PICK s : s = [q EXCEPT !.left = q.left - q.rc, !.result = q.result + q.rc]
  OBVIOUS
<1>6. s \in Activations /\ s.left = rest /\ s.n = q.n /\ s.pc = "grown"
  <2>1. q.left - q.rc \in Int /\ q.result + q.rc \in Nat
    BY <1>3
  <2>2. s \in Activations
    BY <1>5, <2>1, Zenon DEF Activations
  <2> QED BY <1>2, <1>4, <1>5, <2>2 DEF Activations
<1>7. /\ a' = Grown(q) /\ hole' = Shrunk(q)
      /\ in_increase_memory' = (in_increase_memory /\ s.left > 0)
      /\ SetTop(me, IF s.left > 0 THEN Round(s, hole') ELSE [s EXCEPT !.pc = "scan"])
      /\ halt' = IF s.left > 0 /\ ~hole'.linked THEN "no_hole" ELSE halt
      /\ UNCHANGED <<blocks, backing, sizes>>
  BY <1>2, <1>5 DEF Granted
<1>8. /\ a' \in Allocators /\ a'.map = a.map \ PageRun(end, rc) /\ a'.end_alloc_page = end + rc
      /\ a'.first_free_page = a.first_free_page
      /\ a'.first_free_bulk_page = a.first_free_bulk_page
  <2>1. Max({end, end + rc}) = end + rc
    BY MaxOfTwo
  <2>2. a \in Allocators
    BY DEF PagesInv, PTypeOK
  <2>3. a' = [[a EXCEPT !.map = a.map \ PageRun(end, rc)] EXCEPT !.end_alloc_page = end + rc]
    BY <1>4, <1>7, <2>1, <2>2 DEF Grown, map_free_run, Allocators
  <2>4. a.map \ PageRun(end, rc) \in SUBSET Nat /\ end + rc \in Nat
    BY <2>2 DEF Allocators
  <2> QED BY <2>2, <2>3, <2>4 DEF Allocators
<1>9. /\ hole' \in Holes
      /\ hole'.linked => end + rc < MaxEnd /\ hole'.start_pfn = end + rc /\ hole'.end_pfn = MaxEnd
      /\ ~hole'.linked => end + rc = MaxEnd /\ rest = 0
  <2>1. CASE q.hole_size = q.rc
    <3>1. hole' = [hole EXCEPT !.linked = FALSE]
      BY <1>7, <2>1 DEF Shrunk
    <3>2. hole' \in Holes /\ ~hole'.linked
      BY <1>3, <3>1 DEF Holes
    <3>3. end + rc = MaxEnd /\ rest = 0
      BY <1>3, <1>4, <2>1
    <3> QED BY <3>2, <3>3
  <2>2. CASE q.hole_size # q.rc
    <3>1. hole' = [hole EXCEPT !.start_pfn = end + rc]
      BY <1>3, <1>4, <1>7, <2>2 DEF Shrunk
    <3> QED BY <1>3, <1>4, <2>2, <3>1 DEF Holes
  <2> QED BY <2>1, <2>2
<1>10. halt' = "none"
  BY <1>1, <1>6, <1>7, <1>9
<1>11. PICK r \in Activations :
         /\ stack' \in [Threads -> Seq(Activations)] /\ Len(stack'[me]) = 1 /\ stack'[me][1] = r
         /\ r.n = q.n
         /\ rest = 0 => r.pc = "scan"
         /\ rest > 0 => r.pc = "grow" /\ r.left = rest /\ r.nn <= rest
                        /\ r.hole_size = MaxEnd - (end + rc)
  <2>1. CASE rest > 0
    <3>1. hole'.linked /\ hole'.end_pfn - hole'.start_pfn = MaxEnd - (end + rc)
      BY <1>9, <2>1
    <3>2. PICK size \in Nat : size = MaxEnd - (end + rc)
      BY <1>4
    <3>3. PICK nn \in Nat : nn = Min({size, rest}) /\ nn <= rest
      BY MinOfTwo
    <3>4. PICK r : r = [s EXCEPT !.pc = "grow", !.hole_size = size, !.nn = nn]
      OBVIOUS
    <3>5. r \in Activations
      BY <1>6, <3>4, Zenon DEF Activations
    <3>6. Round(s, hole') = r
      BY <1>6, <3>1, <3>2, <3>3, <3>4 DEF Round
    <3>7. SetTop(me, r)
      BY <1>6, <1>7, <2>1, <3>6
    <3>8. stack' \in [Threads -> Seq(Activations)] /\ Len(stack'[me]) = 1 /\ stack'[me][1] = r
      BY <1>1, <3>5, <3>7, SetOnly DEF PagesInv, PTypeOK
    <3>9. r.n = q.n /\ r.pc = "grow" /\ r.left = rest /\ r.nn = nn /\ r.hole_size = size
      BY <1>6, <3>4 DEF Activations
    <3> QED BY <2>1, <3>2, <3>3, <3>5, <3>8, <3>9
  <2>2. CASE ~(rest > 0)
    <3>1. PICK r : r = [s EXCEPT !.pc = "scan"]
      OBVIOUS
    <3>2. r \in Activations /\ r.n = q.n /\ r.pc = "scan"
      BY <1>6, <3>1 DEF Activations
    <3>3. SetTop(me, r)
      BY <1>6, <1>7, <2>2, <3>1
    <3>4. stack' \in [Threads -> Seq(Activations)] /\ Len(stack'[me]) = 1 /\ stack'[me][1] = r
      BY <1>1, <3>2, <3>3, SetOnly DEF PagesInv, PTypeOK
    <3> QED BY <2>2, <3>2, <3>4
  <2> QED BY <2>1, <2>2
<1>12. stack'[me] # << >>
  <2>1. stack'[me] \in Seq(Activations) /\ Len(stack'[me]) = 1
    BY <1>11
  <2> QED BY <2>1, Lengths, SMTT(30)
<1>13. Grows(me)' <=> rest > 0
  BY <1>11, <1>12 DEF Grows
<1>14. Pending(me)' = 0
  BY <1>11 DEF Pending
<1>t. PTypeOK'
  <2>1. in_increase_memory' \in BOOLEAN
    BY <1>7
  <2> QED BY <1>7, <1>8, <1>9, <1>10, <1>11, <2>1 DEF PagesInv, PTypeOK
<1>g. PGrowth'
  <2>1. in_increase_memory' <=> Grows(me)'
    BY <1>3, <1>6, <1>7, <1>13
  <2>2. rest > 0 => Asks(r)'
    BY <1>4, <1>9, <1>11 DEF Asks
  <2>3. GrowthOf(me)'
    BY <1>3, <1>7, <1>11, <1>13, <2>1, <2>2 DEF GrowthOf
  <2> QED BY <2>3 DEF PGrowth
<1>h. PHole'
  BY <1>4, <1>8, <1>9 DEF PHole
<1>b. PBacking'
  <2>1. \A p \in PageFrames : backing[p] = IF p < end + rc THEN 1 ELSE 0
    BY <1>3, <1>4 DEF PagesInv, PBacking
  <2>2. \A p \in PageFrames : backing'[p] = IF p < a'.end_alloc_page + Pending(me)' THEN 1 ELSE 0
    BY <1>7, <1>8, <1>14, <2>1
  <2> QED BY <2>2 DEF PBacking
<1>l. PBlocks'
  <2>1. NoPageLost'
    <3>1. \A b \in blocks : \A p \in PageRun(b.page, b.n) : p \in Nat /\ p < end
      BY <1>4, Bits
    <3>2. \A p : p \in a.map <=>
            (\E b \in blocks : p \in PageRun(b.page, b.n)) \/ p \in end..(MaxEnd - 1)
      BY <1>3, <1>4, Bits
    <3>3. \A p \in end..(MaxEnd - 1) :
            p \notin PageRun(end, rc) <=> hole'.linked /\ p \in hole'.start_pfn..(hole'.end_pfn - 1)
      BY <1>4, <1>9 DEF PageRun
    <3>4. \A p : hole'.linked /\ p \in hole'.start_pfn..(hole'.end_pfn - 1) => p \in end..(MaxEnd - 1)
      BY <1>4, <1>9
    <3>5. \A p \in PageRun(end, rc) : p >= end
      BY DEF PageRun
    <3>6. \A p : p \in a'.map <=>
              \/ \E b \in blocks' : p \in PageRun(b.page, b.n)
              \/ hole'.linked /\ p \in hole'.start_pfn..(hole'.end_pfn - 1)
      <4> TAKE p
      <4>1. CASE \E b \in blocks : p \in PageRun(b.page, b.n)
        <5>1. p \in Nat /\ p < end /\ p \notin PageRun(end, rc)
          BY <3>1, <3>5, <4>1
        <5> QED BY <1>7, <1>8, <3>2, <4>1, <5>1
      <4>2. CASE ~\E b \in blocks : p \in PageRun(b.page, b.n)
        BY <1>7, <1>8, <3>2, <3>3, <3>4, <4>2
      <4> QED BY <4>1, <4>2
    <3> QED BY <3>6, BitsKept
  <2>2. \A b \in blocks : b.page + b.n <= end + rc
    BY <1>4 DEF PagesInv, PBlocks, PTypeOK, Blocks
  <2>3. blocks' = blocks /\ sizes' = sizes /\ a'.end_alloc_page = end + rc
    BY <1>7, <1>8
  <2>4. PBlocks
    BY DEF PagesInv
  <2>5. (\A b, d \in blocks : b # d => PageRun(b.page, b.n) \cap PageRun(d.page, d.n) = {})'
    BY <2>3, <2>4 DEF PBlocks, PageRun
  <2>6. (\A b \in blocks :
           /\ b.page + b.n <= a.end_alloc_page
           /\ is_bulk(b.n) => FirstBulk <= b.page
           /\ ~b.frame => b.n \in sizes)'
    BY <2>2, <2>3, <2>4 DEF PBlocks, is_bulk
  <2> QED BY <2>1, <2>5, <2>6 DEF PBlocks
<1>f. PHints'
  <2>1. /\ FirstBulk <= a.first_free_bulk_page /\ a.first_free_bulk_page <= end
        /\ a \in Allocators
    BY <1>4 DEF PagesInv, PHints, PTypeOK
  <2>2. FirstBulk <= a'.first_free_bulk_page /\ a'.first_free_bulk_page <= a'.end_alloc_page
    BY <1>8, <2>1 DEF Allocators
  <2>3. FreePagesFindable'
    <3>1. ASSUME NEW p \in 0..(a'.end_alloc_page - 1) \ a'.map
          PROVE  IF p < FirstBulk THEN a.first_free_page <= p
                 ELSE (\A n \in sizes : is_bulk(n)) => a.first_free_bulk_page <= p
      <4>1. CASE p < end
        <5>1. p \in 0..(end - 1) \ a.map
          BY <1>8, <3>1, <4>1 DEF PageRun
        <5> QED BY <1>4, <5>1 DEF PagesInv, PHints, FreePagesFindable
      <4>2. CASE ~(p < end)
        BY <1>4, <1>8, <2>1, <4>2 DEF Allocators
      <4> QED BY <4>1, <4>2
    <3> QED BY <1>7, <1>8, <3>1 DEF FreePagesFindable
  <2> QED BY <2>2, <2>3 DEF PHints
<1> QED BY <1>t, <1>g, <1>h, <1>b, <1>l, <1>f DEF PagesInv

\* A block is freed and a hint goes down to it.
LEMMA DeallocateKept ==
  ASSUME NEW me, Threads = {me}, PagesInv, NEW b \in blocks, deallocate_pages(b)
  PROVE  PagesInv'
<1>1. /\ ~b.frame /\ blocks' = blocks \ {b}
      /\ UNCHANGED <<hole, in_increase_memory, stack, backing, halt, sizes>>
      /\ a' = [map_free_run(b.page, b.n) EXCEPT
                 !.first_free_bulk_page =
                    IF is_bulk(b.n) THEN Min({a.first_free_bulk_page, b.page}) ELSE a.first_free_bulk_page,
                 !.first_free_page =
                    IF is_bulk(b.n) THEN a.first_free_page ELSE Min({a.first_free_page, b.page})]
  BY DEF deallocate_pages, map_free_run, PagesInv, PTypeOK, Allocators
<1>2. /\ a \in Allocators /\ hole \in Holes /\ blocks \in SUBSET Blocks
      /\ \A p : p \in a.map <=>
              \/ \E d \in blocks : p \in PageRun(d.page, d.n)
              \/ hole.linked /\ p \in hole.start_pfn..(hole.end_pfn - 1)
      /\ \A d \in blocks : \A p \in PageRun(d.page, d.n) : p \in Nat /\ p < a.end_alloc_page
  BY Bits
<1>3. /\ b.page \in Nat /\ b.n \in Nat \ {0} /\ b.n \in sizes
      /\ b.page + b.n <= a.end_alloc_page
      /\ is_bulk(b.n) => FirstBulk <= b.page
      /\ a.first_free_page \in Nat /\ a.first_free_bulk_page \in Nat
  BY <1>1, <1>2 DEF PagesInv, PBlocks, Blocks, Allocators
<1>4. PICK fb \in Nat : fb = IF is_bulk(b.n) THEN Min({a.first_free_bulk_page, b.page})
                                              ELSE a.first_free_bulk_page
  BY <1>3, MinOfTwo
<1>5. PICK ff \in Nat : ff = IF is_bulk(b.n) THEN a.first_free_page ELSE Min({a.first_free_page, b.page})
  BY <1>3, MinOfTwo
<1>6. /\ fb \in {a.first_free_bulk_page, b.page} /\ fb <= a.first_free_bulk_page
      /\ fb # a.first_free_bulk_page => is_bulk(b.n)
      /\ is_bulk(b.n) => fb <= b.page
      /\ ff <= a.first_free_page
      /\ ~is_bulk(b.n) => ff <= b.page
  BY <1>3, <1>4, <1>5, MinOfTwo
<1>7. /\ a' \in Allocators /\ a'.map = a.map \ PageRun(b.page, b.n) /\ a'.end_alloc_page = a.end_alloc_page
      /\ a'.first_free_bulk_page = fb /\ a'.first_free_page = ff
  <2>1. PICK m : m = map_free_run(b.page, b.n)
    OBVIOUS
  <2>2. /\ m \in Allocators /\ m.map = a.map \ PageRun(b.page, b.n)
        /\ m.end_alloc_page = a.end_alloc_page
    BY <1>2, <2>1 DEF map_free_run, Allocators
  <2>3. a' = [m EXCEPT !.first_free_bulk_page = fb, !.first_free_page = ff]
    BY <1>1, <1>4, <1>5, <2>1
  <2>4. a' \in Allocators
    BY <2>2, <2>3, Zenon DEF Allocators
  <2> QED BY <2>2, <2>3, <2>4 DEF Allocators
<1>t. PTypeOK'
  BY <1>1, <1>7 DEF PagesInv, PTypeOK
<1>g. PGrowth'
  BY <1>1 DEF PagesInv, PGrowth, GrowthOf, Grows, Asks
<1>h. PHole'
  BY <1>1, <1>7 DEF PagesInv, PHole
<1>b. PBacking'
  <2>1. Pending(me)' = Pending(me)
    BY <1>1 DEF Pending
  <2> QED BY <1>1, <1>7, <2>1 DEF PagesInv, PBacking
<1>l. PBlocks'
  <2>1. \A d, e \in blocks : d # e => PageRun(d.page, d.n) \cap PageRun(e.page, e.n) = {}
    BY DEF PagesInv, PBlocks
  <2>2. NoPageLost'
    <3>1. \A p \in PageRun(b.page, b.n) : ~(hole.linked /\ p \in hole.start_pfn..(hole.end_pfn - 1))
      BY <1>2 DEF PagesInv, PHole, Holes, Allocators
    <3>2. \A p \in PageRun(b.page, b.n) : \A d \in blocks : d # b => p \notin PageRun(d.page, d.n)
      BY <2>1
    <3>3. \A p : p \in a'.map <=>
              \/ \E d \in blocks' : p \in PageRun(d.page, d.n)
              \/ hole'.linked /\ p \in hole'.start_pfn..(hole'.end_pfn - 1)
      BY <1>1, <1>2, <1>7, <3>1, <3>2
    <3> QED BY <3>3, BitsKept
  <2>3. \A d \in blocks' :
          /\ d.page + d.n <= a'.end_alloc_page
          /\ is_bulk(d.n) => FirstBulk <= d.page
          /\ ~d.frame => d.n \in sizes'
    BY <1>1, <1>7 DEF PagesInv, PBlocks
  <2> QED BY <1>1, <2>1, <2>2, <2>3 DEF PBlocks
<1>f. PHints'
  <2>1. FirstBulk <= a'.first_free_bulk_page /\ a'.first_free_bulk_page <= a'.end_alloc_page
    BY <1>2, <1>3, <1>6, <1>7 DEF PagesInv, PHints, Allocators
  <2>2. FreePagesFindable'
    <3>1. ASSUME NEW p \in 0..(a'.end_alloc_page - 1) \ a'.map
          PROVE  IF p < FirstBulk THEN ff <= p
                 ELSE (\A n \in sizes : is_bulk(n)) => fb <= p
      <4>1. CASE p \in a.map
        <5>1. p \in PageRun(b.page, b.n) /\ b.page <= p /\ p \in Nat
          BY <1>7, <3>1, <4>1 DEF PageRun
        <5>2. p < FirstBulk => ff <= p
          BY <1>3, <1>6, <5>1
        <5>3. (\A n \in sizes : is_bulk(n)) => fb <= p
          BY <1>3, <1>6, <5>1
        <5> QED BY <5>2, <5>3
      <4>2. CASE p \notin a.map
        <5>1. p \in 0..(a.end_alloc_page - 1) \ a.map
          BY <1>7, <3>1, <4>2
        <5>2. IF p < FirstBulk THEN a.first_free_page <= p
              ELSE (\A n \in sizes : is_bulk(n)) => a.first_free_bulk_page <= p
          BY <5>1 DEF PagesInv, PHints, FreePagesFindable
        <5> QED BY <1>3, <1>6, <5>1, <5>2
      <4> QED BY <4>1, <4>2
    <3> QED BY <1>1, <1>7, <3>1 DEF FreePagesFindable
  <2> QED BY <2>1, <2>2 DEF PHints
<1> QED BY <1>t, <1>g, <1>h, <1>b, <1>l, <1>f DEF PagesInv

\* The next free page from a place on, or the end.
LEMMA NextFree ==
  ASSUME a \in Allocators, NEW page \in Nat, page <= a.end_alloc_page
  PROVE  /\ next_free(page) \in Nat /\ page <= next_free(page) /\ next_free(page) <= a.end_alloc_page
         /\ \A p \in page..(a.end_alloc_page - 1) \ a.map : next_free(page) <= p
<1> DEFINE S == {p \in page..a.end_alloc_page : p \notin a.map \/ p = a.end_alloc_page}
<1>1. S \in SUBSET Nat /\ a.end_alloc_page \in S /\ a.end_alloc_page \in Nat
  BY DEF Allocators
<1>2. Min(S) \in S /\ \A y \in S : Min(S) <= y
  BY <1>1, MinIsLeast
<1>3. next_free(page) = Min(S)
  BY DEF next_free
<1>4. \A p \in page..(a.end_alloc_page - 1) \ a.map : p \in S
  BY <1>1
<1>5. \A p \in S : p \in Nat /\ page <= p /\ p <= a.end_alloc_page
  BY <1>1
<1> HIDE DEF S
<1> QED BY <1>2, <1>3, <1>4, <1>5

\* The least place where a request fits.
LEMMA FirstFit ==
  ASSUME NEW n \in Nat \ {0}, NEW lo \in Nat, NEW hi \in Nat, FitsIn(n, lo, hi) # {}
  PROVE  LET p == Min(FitsIn(n, lo, hi)) IN
         p \in Nat /\ lo <= p /\ p + n <= hi /\ PageRun(p, n) \cap a.map = {}
<1>1. FitsIn(n, lo, hi) \in SUBSET Nat
  BY DEF FitsIn
<1>2. Min(FitsIn(n, lo, hi)) \in FitsIn(n, lo, hi)
  BY <1>1, MinIsLeast
<1> QED BY <1>2 DEF FitsIn

\* What marking a run and moving the hint of its region changes.
LEMMA TakenEffect ==
  ASSUME a \in Allocators, NEW page \in Nat, NEW n \in Nat \ {0}, page + n <= a.end_alloc_page,
         NEW bulk \in BOOLEAN, a' = Taken(page, n, bulk)
  PROVE  /\ a' \in Allocators /\ a'.map = a.map \cup PageRun(page, n)
         /\ a'.end_alloc_page = a.end_alloc_page
         /\ a'.first_free_page =
              IF ~bulk /\ page = a.first_free_page THEN next_free(page + n) ELSE a.first_free_page
         /\ a'.first_free_bulk_page =
              IF bulk /\ page = a.first_free_bulk_page THEN next_free(page + n)
              ELSE a.first_free_bulk_page
<1>1. PICK nf \in Nat : nf = next_free(page + n)
  BY NextFree
<1>2. PICK m : m = map_alloc_run(page, n)
  OBVIOUS
<1>3. /\ m \in Allocators /\ m.map = a.map \cup PageRun(page, n) /\ m.end_alloc_page = a.end_alloc_page
      /\ m.first_free_page = a.first_free_page /\ m.first_free_bulk_page = a.first_free_bulk_page
  BY <1>2 DEF map_alloc_run, Allocators, PageRun
<1>4. PICK fb : fb = IF bulk /\ page = a.first_free_bulk_page THEN nf ELSE a.first_free_bulk_page
  OBVIOUS
<1>5. PICK ff : ff = IF ~bulk /\ page = a.first_free_page THEN nf ELSE a.first_free_page
  OBVIOUS
<1>6. fb \in Nat /\ ff \in Nat
  BY <1>1, <1>4, <1>5 DEF Allocators
<1>7. a' = [m EXCEPT !.first_free_bulk_page = fb, !.first_free_page = ff]
  BY <1>1, <1>2, <1>3, <1>4, <1>5 DEF Taken
<1>8. a' \in Allocators
  BY <1>3, <1>6, <1>7, ZenonT(90) DEF Allocators
<1>9. /\ a'.map = m.map /\ a'.end_alloc_page = m.end_alloc_page
      /\ a'.first_free_page = ff /\ a'.first_free_bulk_page = fb
  BY <1>3, <1>7 DEF Allocators
<1> QED BY <1>1, <1>3, <1>4, <1>5, <1>8, <1>9

\* A run of free pages is taken.
LEMMA FoundKept ==
  ASSUME NEW me, Threads = {me}, PagesInv, Running(me, "scan"), NEW page \in Nat, NEW bulk \in BOOLEAN,
         page + Top(me).n <= a.end_alloc_page, PageRun(page, Top(me).n) \cap a.map = {},
         bulk => FirstBulk <= page, is_bulk(Top(me).n) => bulk, Found(me, page, bulk)
  PROVE  PagesInv'
<1>1. /\ stack \in [Threads -> Seq(Activations)] /\ stack[me] \in Seq(Activations) /\ halt = "none"
      /\ stack[me] # << >>
  BY DEF PagesInv, PTypeOK, Running
<1>2. /\ Len(stack[me]) \in Nat /\ Len(stack[me]) # 0 /\ Len(stack[me]) <= 2
      /\ \A i \in 1..Len(stack[me]) : stack[me][i] \in Activations
  BY <1>1, Lengths DEF PagesInv, PGrowth, GrowthOf
<1>3. Len(stack[me]) = 1 \/ Len(stack[me]) = 2
  <2> DEFINE l == Len(stack[me])
  <2>1. l \in Nat /\ l # 0 /\ l <= 2
    BY <1>2
  <2> HIDE DEF l
  <2>2. l = 1 \/ l = 2
    BY <2>1
  <2> QED BY <2>2 DEF l
<1>4. Top(me) \in Activations
  BY <1>2, <1>3 DEF Top
<1>5. PICK n \in Nat \ {0} : n = Top(me).n
  BY <1>4 DEF Activations
<1>6. PICK b : b = [page |-> page, n |-> n, frame |-> Len(stack[me]) > 1]
  OBVIOUS
<1>7. b \in Blocks /\ b.page = page /\ b.n = n /\ b.frame = (Len(stack[me]) > 1)
  <2>1. (Len(stack[me]) > 1) \in BOOLEAN
    OBVIOUS
  <2> QED BY <1>6, <2>1 DEF Blocks
<1>8. /\ a' = Taken(page, n, bulk) /\ blocks' = blocks \cup {b} /\ Return(me)
      /\ UNCHANGED <<hole, in_increase_memory, backing, halt, sizes>>
  BY <1>5, <1>6 DEF Found
<1>9. a \in Allocators /\ a.end_alloc_page \in Nat
  BY DEF PagesInv, PTypeOK, Allocators
<1>10. /\ a' \in Allocators /\ a'.map = a.map \cup PageRun(page, n)
       /\ a'.end_alloc_page = a.end_alloc_page
       /\ a'.first_free_page =
            IF ~bulk /\ page = a.first_free_page THEN next_free(page + n) ELSE a.first_free_page
       /\ a'.first_free_bulk_page =
            IF bulk /\ page = a.first_free_bulk_page THEN next_free(page + n)
            ELSE a.first_free_bulk_page
  BY <1>5, <1>8, <1>9, TakenEffect
<1>11. /\ stack' \in [Threads -> Seq(Activations)]
       /\ Len(stack[me]) = 1 => Len(stack'[me]) = 0
       /\ Len(stack[me]) = 2 =>
            Len(stack'[me]) = 1 /\ stack'[me][1] = [stack[me][1] EXCEPT !.pc = "grown"]
  BY <1>1, <1>3, <1>8, ReturnEffect
<1>12. stack'[me] \in Seq(Activations) /\ (stack'[me] = << >> <=> Len(stack'[me]) = 0)
  BY <1>11, Lengths
<1>13. PGrowth' /\ Pending(me)' = Pending(me)
  <2>1. CASE Len(stack[me]) = 1
    <3>1. stack'[me] = << >> /\ Len(stack'[me]) = 0 /\ Top(me) = stack[me][1] /\ stack[me][1].pc = "scan"
      BY <1>11, <1>12, <2>1 DEF Top, Running
    <3>2. ~Grows(me) /\ ~Grows(me)' /\ Pending(me)' = 0 /\ Pending(me) = 0
      BY <3>1 DEF Grows, Pending
    <3>3. in_increase_memory' <=> Grows(me)'
      BY <1>1, <1>8, <3>2 DEF PagesInv, PGrowth, GrowthOf
    <3>4. GrowthOf(me)'
      BY <3>1, <3>2, <3>3 DEF GrowthOf
    <3> QED BY <3>2, <3>4 DEF PGrowth
  <2>2. CASE Len(stack[me]) = 2
    <3>1. PICK q \in Activations : q = stack[me][1]
      BY <1>2, <2>2
    <3>2. PICK r : r = [q EXCEPT !.pc = "grown"]
      OBVIOUS
    <3>3. /\ q.pc = "pt" /\ Grows(me) /\ in_increase_memory /\ Asks(q) /\ q.n \in sizes
      BY <1>1, <2>2, <3>1 DEF PagesInv, PGrowth, GrowthOf, Grows
    <3>4. /\ r.pc = "grown" /\ r.n = q.n /\ r.left = q.left /\ r.hole_size = q.hole_size
          /\ r.nn = q.nn /\ r.rc = q.rc
      BY <3>2 DEF Activations
    <3>5. Len(stack'[me]) = 1 /\ stack'[me][1] = r /\ stack'[me] # << >>
      <4>1. Len(stack'[me]) = 1 /\ stack'[me][1] = [stack[me][1] EXCEPT !.pc = "grown"]
        BY <1>11, <2>2
      <4>2. stack'[me] # << >>
        BY <1>12, <4>1
      <4> QED BY <3>1, <3>2, <4>1, <4>2
    <3>6. Grows(me)' /\ Pending(me)' = q.rc /\ Pending(me) = q.rc
      BY <1>1, <3>1, <3>3, <3>4, <3>5 DEF Grows, Pending
    <3>7. Asks(r)'
      BY <1>8, <3>3, <3>4 DEF Asks
    <3>8. in_increase_memory' <=> Grows(me)'
      BY <1>8, <3>3, <3>6
    <3>9. GrowthOf(me)'
      BY <1>8, <3>3, <3>4, <3>5, <3>7, <3>8 DEF GrowthOf
    <3> QED BY <3>6, <3>9 DEF PGrowth
  <2> QED BY <1>3, <2>1, <2>2
<1>t. PTypeOK'
  <2>1. blocks' \in SUBSET Blocks
    BY <1>7, <1>8 DEF PagesInv, PTypeOK
  <2> QED BY <1>8, <1>10, <1>11, <2>1 DEF PagesInv, PTypeOK
<1>h. PHole'
  BY <1>8, <1>10 DEF PagesInv, PHole
<1>b. PBacking'
  BY <1>8, <1>10, <1>13 DEF PagesInv, PBacking
<1>l. PBlocks'
  <2>1. /\ \A p : p \in a.map <=>
              \/ \E d \in blocks : p \in PageRun(d.page, d.n)
              \/ hole.linked /\ p \in hole.start_pfn..(hole.end_pfn - 1)
    BY Bits
  <2>2. NoPageLost'
    <3>1. \A p : p \in a'.map <=>
              \/ \E d \in blocks' : p \in PageRun(d.page, d.n)
              \/ hole'.linked /\ p \in hole'.start_pfn..(hole'.end_pfn - 1)
      BY <1>7, <1>8, <1>10, <2>1
    <3> QED BY <3>1, BitsKept
  <2>3. \A d \in blocks : PageRun(d.page, d.n) \cap PageRun(page, n) = {}
    BY <1>5, <2>1
  <2>4. \A d, e \in blocks' : d # e => PageRun(d.page, d.n) \cap PageRun(e.page, e.n) = {}
    <3>1. \A d, e \in blocks : d # e => PageRun(d.page, d.n) \cap PageRun(e.page, e.n) = {}
      BY DEF PagesInv, PBlocks
    <3> TAKE d, e \in blocks'
    <3>2. d \in blocks \/ d = b
      BY <1>8
    <3>3. e \in blocks \/ e = b
      BY <1>8
    <3> QED BY <1>7, <2>3, <3>1, <3>2, <3>3
  <2>5. is_bulk(n) => FirstBulk <= page
    BY <1>5
  <2>6. ~b.frame => n \in sizes
    <3>1. ~b.frame => Len(stack[me]) = 1
      <4>1. ASSUME Len(stack[me]) = 2 PROVE b.frame = TRUE
        <5>1. (Len(stack[me]) > 1) = TRUE
          BY <4>1
        <5> QED BY <1>7, <5>1
      <4> QED BY <1>3, <4>1
    <3>2. Len(stack[me]) = 1 => Top(me) = stack[me][1]
      BY DEF Top
    <3>3. stack[me][1].n \in sizes
      BY <1>1 DEF PagesInv, PGrowth, GrowthOf
    <3> QED BY <1>5, <3>1, <3>2, <3>3
  <2>7. \A d \in blocks' :
          /\ d.page + d.n <= a'.end_alloc_page
          /\ is_bulk(d.n) => FirstBulk <= d.page
          /\ ~d.frame => d.n \in sizes'
    BY <1>5, <1>7, <1>8, <1>10, <2>5, <2>6 DEF PagesInv, PBlocks
  <2> QED BY <2>2, <2>4, <2>7 DEF PBlocks
<1>f. PHints'
  <2>1. /\ next_free(page + n) \in Nat /\ page + n <= next_free(page + n)
        /\ next_free(page + n) <= a.end_alloc_page
        /\ \A p \in (page + n)..(a.end_alloc_page - 1) \ a.map : next_free(page + n) <= p
    BY <1>5, <1>9, NextFree
  <2>2. FirstBulk <= a'.first_free_bulk_page /\ a'.first_free_bulk_page <= a'.end_alloc_page
    BY <1>5, <1>9, <1>10, <2>1 DEF PagesInv, PHints, Allocators
  <2>3. FreePagesFindable'
    <3>1. ASSUME NEW p \in 0..(a'.end_alloc_page - 1) \ a'.map
          PROVE  IF p < FirstBulk THEN a'.first_free_page <= p
                 ELSE (\A k \in sizes : is_bulk(k)) => a'.first_free_bulk_page <= p
      <4>1. p \in 0..(a.end_alloc_page - 1) \ a.map /\ p \in Nat
        BY <1>9, <1>10, <3>1
      <4>2. page <= p => p \in (page + n)..(a.end_alloc_page - 1) \ a.map
        BY <1>9, <1>10, <3>1, <4>1 DEF PageRun
      <4>3. page <= p => next_free(page + n) <= p
        BY <2>1, <4>2
      <4>4. IF p < FirstBulk THEN a.first_free_page <= p
            ELSE (\A k \in sizes : is_bulk(k)) => a.first_free_bulk_page <= p
        BY <4>1 DEF PagesInv, PHints, FreePagesFindable
      <4>5. p < FirstBulk => a'.first_free_page <= p
        BY <1>10, <4>3, <4>4
      <4>6. ~(p < FirstBulk) /\ (\A k \in sizes : is_bulk(k)) => a'.first_free_bulk_page <= p
        BY <1>10, <4>3, <4>4
      <4> QED BY <4>5, <4>6
    <3> QED BY <1>8, <3>1 DEF FreePagesFindable
  <2> QED BY <2>2, <2>3 DEF PHints
<1> QED BY <1>t, <1>13, <1>h, <1>b, <1>l, <1>f DEF PagesInv

\* A search, whatever it ends in.
LEMMA SearchKept ==
  ASSUME NEW me, Threads = {me}, 1 < BULK_ALLOCATION, PagesInv, _allocate_pages(me)
  PROVE  PagesInv'
<1>1. Running(me, "scan")
  BY DEF _allocate_pages
<1>2. /\ Len(stack[me]) \in Nat /\ Len(stack[me]) # 0 /\ stack[me] # << >> /\ halt = "none"
      /\ \A i \in 1..Len(stack[me]) : stack[me][i] \in Activations
      /\ Top(me).pc = "scan"
  BY <1>1, Lengths DEF PagesInv, PTypeOK, Running, Top
<1>3. PICK n \in Nat \ {0} : n = Top(me).n
  BY <1>2 DEF Top, Activations
<1>4. /\ a.first_free_page \in Nat /\ a.first_free_bulk_page \in Nat /\ a.end_alloc_page \in Nat
      /\ FirstBulk <= a.first_free_bulk_page /\ FirstBulk <= a.end_alloc_page
  BY DEF PagesInv, PTypeOK, Allocators, PHole, PHints
<1> DEFINE small == IF is_bulk(n) \/ Top(me).fallback THEN {}
                    ELSE FitsIn(n, a.first_free_page, FirstBulk)
           bulk  == FitsIn(n, a.first_free_bulk_page, a.end_alloc_page)
<1>5. \/ small # {} /\ Found(me, Min(small), FALSE)
      \/ small = {} /\ bulk # {} /\ Found(me, Min(bulk), TRUE)
      \/ small = {} /\ bulk = {} /\ increase_memory_holding_lock(me)
  BY <1>3 DEF _allocate_pages
<1>6. CASE small # {} /\ Found(me, Min(small), FALSE)
  <2>1. ~is_bulk(n) /\ small = FitsIn(n, a.first_free_page, FirstBulk)
    BY <1>6
  <2>2. PICK p \in Nat : p = Min(small) /\ p + n <= FirstBulk /\ PageRun(p, n) \cap a.map = {}
    BY <1>4, <1>6, <2>1, FirstFit
  <2>3. p + n <= a.end_alloc_page
    BY <1>4, <2>2
  <2>4. Found(me, p, FALSE)
    BY <1>6, <2>2
  <2> HIDE DEF small, bulk
  <2> QED BY <1>1, <1>3, <2>1, <2>2, <2>3, <2>4, FoundKept
<1>7. CASE small = {} /\ bulk # {} /\ Found(me, Min(bulk), TRUE)
  <2>1. PICK p \in Nat : /\ p = Min(bulk) /\ a.first_free_bulk_page <= p
                         /\ p + n <= a.end_alloc_page /\ PageRun(p, n) \cap a.map = {}
    BY <1>4, <1>7, FirstFit
  <2>2. FirstBulk <= p
    BY <1>4, <2>1
  <2>3. Found(me, p, TRUE)
    BY <1>7, <2>1
  <2> HIDE DEF small, bulk
  <2> QED BY <1>1, <1>3, <2>1, <2>2, <2>3, FoundKept
<1>8. CASE increase_memory_holding_lock(me)
  <2>1. CASE in_increase_memory \/ ~can_increase(Top(me).n)
    <3>1. Failed(me)
      BY <1>8, <2>1 DEF increase_memory_holding_lock
    <3> QED BY <1>2, <3>1, FailedKept
  <2>2. CASE ~in_increase_memory /\ can_increase(Top(me).n)
    BY <1>1, <1>8, <2>2, StartKept
  <2> QED BY <2>1, <2>2
<1> HIDE DEF small, bulk
<1> QED BY <1>5, <1>6, <1>7, <1>8

-----------------------------------------------------------------------------
(* Theorems *)

\* The invariant is inductive with one allocating thread: BULK_ALLOCATION exceeds a page
\* table frame, as 512 does in the code.
LEMMA PagesStep ==
  ASSUME NEW me, Threads = {me}, 1 < BULK_ALLOCATION, PagesInv, [PaNext]_paVars
  PROVE  PagesInv'
<1>1. CASE _allocate_pages(me)
  BY <1>1, SearchKept
<1>2. CASE increase_reservation(me)
  BY <1>2, ReservationKept
<1>3. CASE pfn_alloc_alloc(me)
  BY <1>3, FrameKept
<1>4. CASE AfterReservation(me)
  <2>1. Running(me, "grown")
    BY <1>4 DEF AfterReservation
  <2>2. Top(me) \in Activations /\ Top(me).rc \in Nat /\ Top(me).pc = "grown" /\ halt = "none"
        /\ stack[me] # << >>
    BY <2>1, Outer DEF Activations, Running
  <2>3. CASE Top(me).rc > 0 /\ Granted(me, Top(me))
    BY <2>1, <2>3, GrantedKept
  <2>4. CASE Top(me).rc = 0 /\ Rescan(me, Top(me))
    BY <2>1, <2>4, RescanKept
  <2>5. CASE Top(me).rc = 0 /\ Failed(me)
    BY <2>2, <2>5, FailedKept
  <2> QED BY <1>4, <2>3, <2>4, <2>5 DEF AfterReservation
<1>5. CASE \E n \in sizes : allocate_pages(me, n)
  BY <1>5, CallKept
<1>6. CASE \E b \in blocks : deallocate_pages(b)
  BY <1>6, DeallocateKept
<1>7. CASE UNCHANGED paVars
  BY <1>7, ZenonT(90) DEF paVars, PagesInv, PTypeOK, PGrowth, GrowthOf, Grows, Asks, PHole, PBacking, Pending,
              PBlocks, NoPageLost, PHints, FreePagesFindable
<1> QED BY <1>1, <1>2, <1>3, <1>4, <1>5, <1>6, <1>7 DEF PaNext, Step

\* What the invariant says of the blocks.
LEMMA PagesProperty ==
  ASSUME NEW me, Threads = {me}, PagesInv
  PROVE  PagesAccounted
<1>1. NoBug /\ NoPageLost /\ FreePagesFindable
  BY DEF PagesInv, PTypeOK, NoBug, PBlocks, PHints
<1>2. \A b, d \in blocks : b # d => PageRun(b.page, b.n) \cap PageRun(d.page, d.n) = {}
  BY DEF PagesInv, PBlocks
<1>3. \A b \in blocks : \A p \in PageRun(b.page, b.n) : p \in a.map /\ p \in Nat /\ p < a.end_alloc_page
  BY Bits
<1>4. a.end_alloc_page \in Nat /\ a.end_alloc_page <= MaxEnd /\ Pending(me) \in Nat
  <2>1. stack[me] # << >> => stack[me][1] \in Activations
    BY DEF PagesInv, PTypeOK
  <2>2. Pending(me) \in Nat
    BY <2>1 DEF Pending, Activations
  <2> QED BY <2>2 DEF PagesInv, PTypeOK, Allocators, PHole
<1>5. \A p \in PageFrames : p < a.end_alloc_page => backing[p] = 1
  BY <1>4 DEF PagesInv, PBacking, PageFrames
<1>6. \A b \in blocks : \A p \in PageRun(b.page, b.n) : p \in a.map /\ backing[p] = 1
  BY <1>3, <1>4, <1>5 DEF PageFrames
<1> QED BY <1>1, <1>2, <1>6 DEF PagesAccounted, BlocksDisjoint

\* Whatever memory there is, whatever Xen grants of each reservation and whatever sizes are
\* requested: no page is in two blocks, lost, offered while the hole contains it or populated
\* twice; the assertions of increase_reservation and increase_memory_holding_lock hold, and
\* searches start at or below what is free.  For one allocating thread: two may both be in
\* increase_memory_holding_lock, which mm.c does not exclude while the lock is released.
THEOREM PagesAlwaysAccounted ==
  ASSUME NEW me, Threads = {me}, 1 < BULK_ALLOCATION
  PROVE  PaSpec => []PagesAccounted
<1>1. PaInit => PagesInv
  BY PagesInitially
<1>2. PagesInv /\ [PaNext]_paVars => PagesInv'
  BY PagesStep
<1>3. PagesInv => PagesAccounted
  BY PagesProperty
<1> QED BY <1>1, <1>2, <1>3, PTL DEF PaSpec

-----------------------------------------------------------------------------
(* Page tables *)

\* What holds at 0 and passes from one number to the next holds up to n.
LEMMA Upward ==
  ASSUME NEW n \in Nat, NEW H, 0 \in H, \A i \in 0..(n - 1) : i \in H => i + 1 \in H
  PROVE  0..n \subseteq H
<1> DEFINE B == (0..n) \ H
<1>1. SUFFICES ASSUME B # {} PROVE FALSE
  OBVIOUS
<1>2. B \in SUBSET Nat
  OBVIOUS
<1>3. PICK m \in B : \A y \in B : m <= y
  BY <1>1, <1>2, MinIsLeast
<1>4. m # 0 /\ m - 1 \in 0..(n - 1) /\ m - 1 \notin B
  BY <1>3
<1> QED BY <1>3, <1>4

Iterates(w, n, x, F) == w[0] = x /\ \A i \in 1..n : w[i] = F[i][w[i - 1]]
\* Recursion over an interval defines a function.
LEMMA Recursion ==
  ASSUME NEW S, NEW n \in Nat, NEW x \in S, NEW F \in [1..n -> [S -> S]]
  PROVE  \E w \in [0..n -> S] : Iterates(w, n, x, F)
<1> DEFINE Through(m, w) == Iterates(w, m, x, F)
           H == {m \in 0..n : \E w \in [0..m -> S] : Through(m, w)}
<1>1. 0 \in H
  <2>1. [i \in 0..0 |-> x] \in [0..0 -> S] /\ Through(0, [i \in 0..0 |-> x])
    BY DEF Iterates
  <2> HIDE DEF Through
  <2>2. 0 \in 0..n /\ \E w \in [0..0 -> S] : Through(0, w)
    BY <2>1
  <2> QED BY <2>2
<1>2. ASSUME NEW m \in 0..(n - 1), m \in H PROVE m + 1 \in H
  <2>1. PICK w \in [0..m -> S] : Through(m, w)
    BY <1>2
  <2> HIDE DEF Through
  <2>2. F[m + 1][w[m]] \in S
    OBVIOUS
  <2> DEFINE v == [i \in 0..(m + 1) |-> IF i = m + 1 THEN F[m + 1][w[m]] ELSE w[i]]
  <2>3. v \in [0..(m + 1) -> S]
    BY <2>2
  <2>4. v[0] = x /\ \A i \in 1..(m + 1) : v[i] = F[i][v[i - 1]]
    BY <2>1 DEF Through, Iterates
  <2> HIDE DEF v
  <2>5. Through(m + 1, v)
    BY <2>4 DEF Through, Iterates
  <2> QED BY <2>3, <2>5
<1> HIDE DEF H
<1>3. 0..n \subseteq H
  BY <1>1, <1>2, Upward
<1>4. n \in H
  BY <1>3
<1> QED BY <1>4 DEF H

\* An entry of level l + 1 reaches Fanout times as far as one of level l.
LEMMA Reaches ==
  /\ Reach \in [0..Levels -> Nat \ {0}] /\ Reach[0] = 1
  /\ \A l \in 1..Levels : Reach[l] = Fanout * Reach[l - 1]
<1> DEFINE S == Nat \ {0}
           F == [l \in 1..Levels |-> [x \in S |-> Fanout * x]]
<1>1. Levels \in Nat /\ 1 \in S /\ F \in [1..Levels -> [S -> S]]
  BY PageTablesAssumption
<1>2. \A l \in 1..Levels, x \in S : F[l][x] = Fanout * x
  OBVIOUS
<1> HIDE DEF F, S
<1>3. PICK w \in [0..Levels -> S] : Iterates(w, Levels, 1, F)
  BY <1>1, Recursion
<1>4. ASSUME NEW l \in 1..Levels PROVE w[l] = Fanout * w[l - 1]
  <2>1. l - 1 \in 0..Levels /\ w[l - 1] \in S
    BY <1>1, <1>3
  <2> QED BY <1>2, <1>3, <2>1 DEF Iterates
<1> USE DEF S
<1>5. w = [l \in 0..Levels |-> IF l = 0 THEN 1 ELSE Fanout * w[l - 1]]
  BY <1>1, <1>3, <1>4 DEF Iterates
<1>6. Reach = [l \in 0..Levels |-> IF l = 0 THEN 1 ELSE Fanout * Reach[l - 1]]
  BY <1>5 DEF Reach
<1> DEFINE H == {l \in 0..Levels : Reach[l] \in S}
<1>7. 0..Levels \subseteq H
  <2>1. 0 \in H
    BY <1>1, <1>6
  <2>2. ASSUME NEW l \in 0..(Levels - 1), l \in H PROVE l + 1 \in H
    <3>1. Reach[l + 1] = Fanout * Reach[l]
      BY <1>1, <1>6
    <3> QED BY <2>2, <3>1, PageTablesAssumption
  <2> HIDE DEF H
  <2> QED BY <1>1, <2>1, <2>2, Upward
<1>8. Reach \in [0..Levels -> S]
  BY <1>6, <1>7
<1> QED BY <1>1, <1>6, <1>8

\* The part of an address that leads to a table of level l.
Prefix(pg, l) == pg \div Reach[l]
\* Prefix and offset make the prefix of the next level down.
LEMMA PrefixSplits ==
  ASSUME NEW pg \in Nat, NEW l \in 1..Levels
  PROVE  /\ Prefix(pg, l) \in Nat /\ Prefix(pg, l - 1) \in Nat /\ Offset(pg, l) \in 0..(Fanout - 1)
         /\ Prefix(pg, l - 1) = Fanout * Prefix(pg, l) + Offset(pg, l)
<1>1. /\ Reach[l] \in Nat \ {0} /\ Reach[l - 1] \in Nat \ {0} /\ Fanout \in Nat \ {0}
      /\ Reach[l] = Fanout * Reach[l - 1]
  BY Reaches, PageTablesAssumption
<1>2. PICK p \in Nat : p = pg \div Reach[l - 1]
  BY <1>1
<1>3. p \div Fanout = pg \div Reach[l]
  <2>1. \A x, y \in Nat \ {0} : (pg \div x) \div y = pg \div (y * x)
    OBVIOUS
  <2> QED BY <1>1, <1>2, <2>1
<1>4. p = Fanout * (p \div Fanout) + (p % Fanout) /\ p % Fanout \in 0..(Fanout - 1) /\ p \div Fanout \in Nat
  BY <1>1
<1> QED BY <1>2, <1>3, <1>4 DEF Prefix, Offset

\* Pages have the same prefix at the root and are their own prefix at the end.
LEMMA PrefixEnds ==
  ASSUME NEW pg \in Pages
  PROVE  pg \in Nat /\ Prefix(pg, Levels) = 0 /\ Prefix(pg, 0) = pg
<1>1. Reach[0] = 1 /\ Reach[Levels] \in Nat \ {0}
  BY Reaches, PageTablesAssumption
<1>2. pg \in Nat /\ pg < Reach[Levels]
  BY <1>1 DEF Pages
<1> QED BY <1>1, <1>2 DEF Prefix

PtEntries == TableFrames \cup {0} \cup {DataFrame(pg) : pg \in Pages}
Offsets == 0..(Fanout - 1)
\* Tables whose entries lead to tables of the next level, each in one place.
Levelled(tt, pp) ==
  /\ tt \in [TableFrames -> [Offsets -> PtEntries]] /\ pp \in [TableFrames -> 0..Levels]
  /\ pp[Root] = Levels
  /\ \A f \in TableFrames, o \in Offsets :
       pp[f] > 1 /\ tt[f][o] # 0 => tt[f][o] \in TableFrames /\ pp[tt[f][o]] = pp[f] - 1
Single(tt, pp) == \A f, g \in TableFrames, o, q \in Offsets :
  pp[f] > 1 /\ pp[g] > 1 /\ tt[f][o] = tt[g][q] /\ tt[f][o] # 0 => f = g /\ o = q

\* The walk for a in the tables tt, which is Walk(a) in those of the state.
WalkIn(tt, pg) ==
  LET frame[l \in 1..(Levels + 1)] ==
        IF l = Levels + 1 THEN Root
        ELSE LET tab == frame[l + 1] IN IF tab = 0 THEN 0 ELSE tt[tab][Offset(pg, l)]
  IN frame
IsWalk(w, tt, pg) ==
  /\ w[Levels + 1] = Root
  /\ \A l \in 1..Levels : w[l] = IF w[l + 1] = 0 THEN 0 ELSE tt[w[l + 1]][Offset(pg, l)]
OnLevel(w, pp, l) == w[l] # 0 => w[l] \in TableFrames /\ pp[w[l]] = l - 1

\* The root is a table, and no table is frame 0.
LEMMA RootIsTable == Root \in TableFrames /\ 0 \notin TableFrames /\ Levels \in Nat \ {0} /\ Fanout \in Nat \ {0, 1}
  BY PageTablesAssumption, MinIsLeast DEF Root

\* A walk comes to a table of its level or to none.
LEMMA WalkOnLevels ==
  ASSUME NEW tt, NEW pp, Levelled(tt, pp), NEW pg \in Pages, NEW w, w[Levels + 1] = Root,
         \A l \in 1..Levels : w[l + 1] \in TableFrames => w[l] = tt[w[l + 1]][Offset(pg, l)],
         \A l \in 1..Levels : w[l + 1] = 0 => w[l] = 0
  PROVE  \A l \in 2..(Levels + 1) : OnLevel(w, pp, l)
<1> DEFINE H == {i \in Nat : OnLevel(w, pp, Levels + 1 - i)}
<1>0. Levels \in Nat \ {0} /\ pg \in Nat
  BY RootIsTable, PrefixEnds
<1>1. 0 \in H
  BY <1>0, RootIsTable DEF Levelled, OnLevel
<1>2. ASSUME NEW i \in 0..(Levels - 2), i \in H PROVE i + 1 \in H
  <2> DEFINE l == Levels - i
  <2>1. l \in 2..Levels /\ l = Levels + 1 - (i + 1) /\ l + 1 = Levels + 1 - i
    BY <1>0, <1>2
  <2> HIDE DEF l
  <2>2. OnLevel(w, pp, l + 1)
    BY <1>2, <2>1
  <2>3. Offset(pg, l) \in Offsets
    BY <1>0, <2>1, PrefixSplits DEF Offsets
  <2>4. OnLevel(w, pp, l)
    <3>1. SUFFICES ASSUME w[l] # 0 PROVE w[l] \in TableFrames /\ pp[w[l]] = l - 1
      BY DEF OnLevel
    <3>2. w[l + 1] \in TableFrames /\ pp[w[l + 1]] = l /\ w[l] = tt[w[l + 1]][Offset(pg, l)]
      BY <2>1, <2>2, <3>1 DEF OnLevel
    <3> QED BY <2>1, <2>3, <3>1, <3>2 DEF Levelled
  <2> QED BY <1>2, <2>1, <2>4
<1> HIDE DEF H
<1>3. 0..(Levels - 1) \subseteq H
  BY <1>0, <1>1, <1>2, Upward
<1> QED
  <2> SUFFICES ASSUME NEW l \in 2..(Levels + 1) PROVE OnLevel(w, pp, l)
    OBVIOUS
  <2>1. Levels + 1 - l \in H
    BY <1>0, <1>3
  <2>2. Levels + 1 - (Levels + 1 - l) = l
    BY <1>0
  <2> QED BY <2>1, <2>2 DEF H

\* Walk is defined as the code walks.
LEMMA Walks ==
  ASSUME NEW tt, NEW pp, Levelled(tt, pp), NEW pg \in Pages
  PROVE  /\ IsWalk(WalkIn(tt, pg), tt, pg)
         /\ \A l \in 2..(Levels + 1) : OnLevel(WalkIn(tt, pg), pp, l)
         /\ WalkIn(tt, pg)[1] \in PtEntries
<1> DEFINE F == [i \in 1..Levels |->
             [x \in PtEntries |-> IF x \in TableFrames THEN tt[x][Offset(pg, Levels + 1 - i)] ELSE 0]]
           frame[l \in 1..(Levels + 1)] ==
             IF l = Levels + 1 THEN Root
             ELSE LET tab == frame[l + 1] IN IF tab = 0 THEN 0 ELSE tt[tab][Offset(pg, l)]
<1>0. Levels \in Nat \ {0} /\ pg \in Nat
  BY RootIsTable, PrefixEnds
<1>1. \A l \in 1..Levels : Offset(pg, l) \in Offsets
  BY <1>0, PrefixSplits DEF Offsets
<1>2. F \in [1..Levels -> [PtEntries -> PtEntries]]
  <2>1. ASSUME NEW i \in 1..Levels, NEW x \in PtEntries, x \in TableFrames
        PROVE tt[x][Offset(pg, Levels + 1 - i)] \in PtEntries
    <3>1. Offset(pg, Levels + 1 - i) \in Offsets
      BY <1>0, <1>1
    <3> QED BY <2>1, <3>1 DEF Levelled
  <2>2. 0 \in PtEntries
    BY DEF PtEntries
  <2> QED BY <2>1, <2>2
<1>3. \A i \in 1..Levels, x \in PtEntries :
        F[i][x] = IF x \in TableFrames THEN tt[x][Offset(pg, Levels + 1 - i)] ELSE 0
  OBVIOUS
<1> HIDE DEF F
<1>4. PICK v \in [0..Levels -> PtEntries] : Iterates(v, Levels, Root, F)
  BY <1>0, <1>2, Recursion, RootIsTable DEF PtEntries
<1> DEFINE w == [l \in 1..(Levels + 1) |-> v[Levels + 1 - l]]
<1>5. w[Levels + 1] = Root /\ w \in [1..(Levels + 1) -> PtEntries]
  BY <1>0, <1>4 DEF Iterates
<1>6. ASSUME NEW l \in 1..Levels
      PROVE w[l] = IF w[l + 1] \in TableFrames THEN tt[w[l + 1]][Offset(pg, l)] ELSE 0
  <2> DEFINE i == Levels + 1 - l
  <2>1. i \in 1..Levels /\ i - 1 = Levels + 1 - (l + 1) /\ Levels + 1 - i = l /\ i - 1 \in 0..Levels
    BY <1>0
  <2>2. w[l] = v[i] /\ w[l + 1] = v[i - 1]
    BY <1>0, <2>1
  <2> HIDE DEF i
  <2>3. v[i] = F[i][v[i - 1]] /\ v[i - 1] \in PtEntries
    BY <1>4, <2>1 DEF Iterates
  <2> QED BY <1>3, <2>1, <2>2, <2>3
<1> HIDE DEF w
<1>7. \A l \in 2..(Levels + 1) : OnLevel(w, pp, l)
  BY <1>5, <1>6, RootIsTable, WalkOnLevels
<1>8. \A l \in 1..Levels : w[l] = IF w[l + 1] = 0 THEN 0 ELSE tt[w[l + 1]][Offset(pg, l)]
  <2> SUFFICES ASSUME NEW l \in 1..Levels
      PROVE w[l] = IF w[l + 1] = 0 THEN 0 ELSE tt[w[l + 1]][Offset(pg, l)]
    OBVIOUS
  <2>1. OnLevel(w, pp, l + 1)
    BY <1>0, <1>7
  <2> QED BY <1>6, <2>1, RootIsTable DEF OnLevel
<1>9. w = [l \in 1..(Levels + 1) |->
             IF l = Levels + 1 THEN Root
             ELSE LET tab == w[l + 1] IN IF tab = 0 THEN 0 ELSE tt[tab][Offset(pg, l)]]
  <2>1. \A l \in 1..(Levels + 1) : l # Levels + 1 => l \in 1..Levels
    BY <1>0
  <2> QED BY <1>5, <1>8, <2>1
<1>10. frame = [l \in 1..(Levels + 1) |->
             IF l = Levels + 1 THEN Root
             ELSE LET tab == frame[l + 1] IN IF tab = 0 THEN 0 ELSE tt[tab][Offset(pg, l)]]
  BY <1>9
<1>11. WalkIn(tt, pg) = frame
  BY DEF WalkIn
<1> HIDE DEF frame
<1>12. IsWalk(frame, tt, pg)
  <2>1. \A l \in 1..Levels : l \in 1..(Levels + 1) /\ l # Levels + 1
    BY <1>0
  <2>2. Levels + 1 \in 1..(Levels + 1)
    BY <1>0
  <2> QED BY <1>10, <2>1, <2>2 DEF IsWalk
<1>13. \A l \in 2..(Levels + 1) : OnLevel(frame, pp, l)
  BY <1>12, RootIsTable, WalkOnLevels DEF IsWalk
<1>14. frame[1] \in PtEntries
  <2>1. frame[1] = IF frame[2] = 0 THEN 0 ELSE tt[frame[2]][Offset(pg, 1)]
    BY <1>0, <1>12 DEF IsWalk
  <2>2. frame[2] # 0 => frame[2] \in TableFrames
    BY <1>0, <1>13 DEF OnLevel
  <2> QED BY <1>0, <1>1, <2>1, <2>2 DEF Levelled, PtEntries
<1> QED BY <1>11, <1>12, <1>13, <1>14

\* Descending from the root: what holds of it and passes to the next level.
LEMMA Downward ==
  ASSUME NEW k \in 0..Levels, NEW H, Levels + 1 \in H,
         \A l \in (k + 1)..Levels : l + 1 \in H => l \in H
  PROVE  (k + 1)..(Levels + 1) \subseteq H
<1> DEFINE G == {i \in Nat : Levels + 1 - i \in H}
<1>0. Levels \in Nat \ {0}
  BY RootIsTable
<1>1. 0 \in G
  BY <1>0
<1>2. ASSUME NEW i \in 0..((Levels - k) - 1), i \in G PROVE i + 1 \in G
  <2>1. Levels - i \in (k + 1)..Levels /\ (Levels - i) + 1 = Levels + 1 - i
        /\ Levels + 1 - (i + 1) = Levels - i
    BY <1>0
  <2> QED BY <1>2, <2>1
<1> HIDE DEF G
<1>3. 0..(Levels - k) \subseteq G
  BY <1>0, <1>1, <1>2, Upward
<1> QED
  <2> SUFFICES ASSUME NEW l \in (k + 1)..(Levels + 1) PROVE l \in H
    OBVIOUS
  <2>1. Levels + 1 - l \in 0..(Levels - k) /\ Levels + 1 - (Levels + 1 - l) = l
    BY <1>0
  <2>2. Levels + 1 - l \in G
    BY <1>3, <2>1
  <2> QED BY <2>1, <2>2 DEF G

\* Where tables of the levels above k are as they were, walks come to the same
\* frames down to there.
LEMMA SameWalk ==
  ASSUME NEW tt, NEW pp, Levelled(tt, pp), NEW uu, NEW qq, Levelled(uu, qq),
         NEW k \in 0..Levels, \A f \in TableFrames : pp[f] > k => uu[f] = tt[f],
         NEW pg \in Pages
  PROVE  \A l \in (k + 1)..(Levels + 1) : WalkIn(uu, pg)[l] = WalkIn(tt, pg)[l]
<1> DEFINE H == {l \in 1..(Levels + 1) : WalkIn(uu, pg)[l] = WalkIn(tt, pg)[l]}
<1>0. Levels \in Nat \ {0}
  BY RootIsTable
<1>1. Levels + 1 \in H
  BY <1>0, Walks DEF IsWalk
<1>2. ASSUME NEW l \in (k + 1)..Levels, l + 1 \in H PROVE l \in H
  <2>1. l \in 1..Levels /\ l + 1 \in 2..(Levels + 1)
    BY <1>0
  <2>2. /\ WalkIn(uu, pg)[l] = IF WalkIn(uu, pg)[l + 1] = 0 THEN 0 ELSE uu[WalkIn(uu, pg)[l + 1]][Offset(pg, l)]
        /\ WalkIn(tt, pg)[l] = IF WalkIn(tt, pg)[l + 1] = 0 THEN 0 ELSE tt[WalkIn(tt, pg)[l + 1]][Offset(pg, l)]
    BY <2>1, Walks DEF IsWalk
  <2>3. WalkIn(tt, pg)[l + 1] # 0 => WalkIn(tt, pg)[l + 1] \in TableFrames /\ pp[WalkIn(tt, pg)[l + 1]] = l
    BY <2>1, Walks DEF OnLevel
  <2>4. WalkIn(uu, pg)[l + 1] = WalkIn(tt, pg)[l + 1]
    BY <1>2
  <2>5. WalkIn(tt, pg)[l + 1] # 0 => uu[WalkIn(tt, pg)[l + 1]] = tt[WalkIn(tt, pg)[l + 1]]
    BY <2>1, <2>3
  <2>6. WalkIn(uu, pg)[l] = WalkIn(tt, pg)[l]
    BY <2>2, <2>4, <2>5
  <2> QED BY <1>0, <2>1, <2>6
<1> HIDE DEF H
<1>3. (k + 1)..(Levels + 1) \subseteq H
  BY <1>1, <1>2, Downward
<1> QED BY <1>3 DEF H

\* A walk that comes to a frame still comes to it when tables have been added.
LEMMA WalkStays ==
  ASSUME NEW tt, NEW pp, Levelled(tt, pp), NEW uu, NEW qq, Levelled(uu, qq),
         \A f \in TableFrames, o \in Offsets : pp[f] > 0 /\ tt[f][o] # 0 => uu[f][o] = tt[f][o],
         NEW pg \in Pages
  PROVE  \A l \in 1..(Levels + 1) : WalkIn(tt, pg)[l] # 0 => WalkIn(uu, pg)[l] = WalkIn(tt, pg)[l]
<1> DEFINE H == {l \in 1..(Levels + 1) : WalkIn(tt, pg)[l] # 0 => WalkIn(uu, pg)[l] = WalkIn(tt, pg)[l]}
<1>0. Levels \in Nat \ {0} /\ 0 \in 0..Levels /\ pg \in Nat
  BY RootIsTable, PrefixEnds
<1>1. Levels + 1 \in H
  BY <1>0, Walks DEF IsWalk
<1>2. ASSUME NEW l \in 1..Levels, l + 1 \in H PROVE l \in H
  <2>1. l + 1 \in 2..(Levels + 1) /\ l \in 1..(Levels + 1) /\ Offset(pg, l) \in Offsets
    BY <1>0, PrefixSplits DEF Offsets
  <2>2. /\ WalkIn(uu, pg)[l] = IF WalkIn(uu, pg)[l + 1] = 0 THEN 0 ELSE uu[WalkIn(uu, pg)[l + 1]][Offset(pg, l)]
        /\ WalkIn(tt, pg)[l] = IF WalkIn(tt, pg)[l + 1] = 0 THEN 0 ELSE tt[WalkIn(tt, pg)[l + 1]][Offset(pg, l)]
    BY Walks DEF IsWalk
  <2>3. WalkIn(tt, pg)[l + 1] # 0 => WalkIn(tt, pg)[l + 1] \in TableFrames /\ pp[WalkIn(tt, pg)[l + 1]] = l
    BY <2>1, Walks DEF OnLevel
  <2>4. SUFFICES ASSUME WalkIn(tt, pg)[l] # 0 PROVE WalkIn(uu, pg)[l] = WalkIn(tt, pg)[l]
    BY <2>1
  <2>5. WalkIn(tt, pg)[l + 1] # 0 /\ tt[WalkIn(tt, pg)[l + 1]][Offset(pg, l)] # 0
        /\ WalkIn(uu, pg)[l + 1] = WalkIn(tt, pg)[l + 1]
    BY <1>2, <2>2, <2>4
  <2> QED BY <2>1, <2>2, <2>3, <2>5
<1> HIDE DEF H
<1>3. (0 + 1)..(Levels + 1) \subseteq H
  BY <1>0, <1>1, <1>2, Downward
<1> QED BY <1>3 DEF H

\* A walk that comes to another frame than an empty table that was added came
\* to it before.
LEMMA WalkWasThere ==
  ASSUME NEW tt, NEW pp, Levelled(tt, pp), NEW uu, NEW qq, Levelled(uu, qq),
         NEW new \in TableFrames, \A o \in Offsets : uu[new][o] = 0,
         \A f \in TableFrames, o \in Offsets : uu[f][o] \in {tt[f][o], new},
         NEW pg \in Pages
  PROVE  \A l \in 1..(Levels + 1) :
           WalkIn(uu, pg)[l] \notin {0, new} => WalkIn(tt, pg)[l] = WalkIn(uu, pg)[l]
<1> DEFINE H == {l \in 1..(Levels + 1) :
                   WalkIn(uu, pg)[l] \notin {0, new} => WalkIn(tt, pg)[l] = WalkIn(uu, pg)[l]}
<1>0. Levels \in Nat \ {0} /\ 0 \in 0..Levels /\ pg \in Nat
  BY RootIsTable, PrefixEnds
<1>1. Levels + 1 \in H
  BY <1>0, Walks DEF IsWalk
<1>2. ASSUME NEW l \in 1..Levels, l + 1 \in H PROVE l \in H
  <2>1. l + 1 \in 2..(Levels + 1) /\ l \in 1..(Levels + 1) /\ Offset(pg, l) \in Offsets
    BY <1>0, PrefixSplits DEF Offsets
  <2>2. /\ WalkIn(uu, pg)[l] = IF WalkIn(uu, pg)[l + 1] = 0 THEN 0 ELSE uu[WalkIn(uu, pg)[l + 1]][Offset(pg, l)]
        /\ WalkIn(tt, pg)[l] = IF WalkIn(tt, pg)[l + 1] = 0 THEN 0 ELSE tt[WalkIn(tt, pg)[l + 1]][Offset(pg, l)]
    BY Walks DEF IsWalk
  <2>3. WalkIn(uu, pg)[l + 1] # 0 => WalkIn(uu, pg)[l + 1] \in TableFrames
    BY <2>1, Walks DEF OnLevel
  <2>4. SUFFICES ASSUME WalkIn(uu, pg)[l] \notin {0, new} PROVE WalkIn(tt, pg)[l] = WalkIn(uu, pg)[l]
    BY <2>1
  <2>5. WalkIn(uu, pg)[l + 1] \notin {0, new}
    BY <2>1, <2>2, <2>4
  <2>6. WalkIn(tt, pg)[l + 1] = WalkIn(uu, pg)[l + 1]
    BY <1>2, <2>5
  <2> QED BY <2>1, <2>2, <2>3, <2>4, <2>5, <2>6
<1> HIDE DEF H
<1>3. (0 + 1)..(Levels + 1) \subseteq H
  BY <1>0, <1>1, <1>2, Downward
<1> QED BY <1>3 DEF H

\* Walks that come to one table have taken one way: no entry of a last table is
\* that of two pages.
LEMMA SlotsAreOwn ==
  ASSUME NEW tt, NEW pp, Levelled(tt, pp), Single(tt, pp), NEW pg \in Pages, NEW b \in Pages,
         WalkIn(tt, pg)[2] = WalkIn(tt, b)[2], WalkIn(tt, pg)[2] # 0, Offset(pg, 1) = Offset(b, 1)
  PROVE  pg = b
<1> DEFINE wa == WalkIn(tt, pg)
           wb == WalkIn(tt, b)
           H == {l \in 2..(Levels + 1) : wa[l] = wb[l] /\ wa[l] # 0 => Prefix(pg, l - 1) = Prefix(b, l - 1)}
<1>0. Levels \in Nat \ {0} /\ Fanout \in Nat /\ pg \in Nat /\ b \in Nat /\ 1 \in 0..Levels
  BY RootIsTable, PrefixEnds
<1>1. Levels + 1 \in H
  BY <1>0, PrefixEnds
<1>2. ASSUME NEW l \in (1 + 1)..Levels, l + 1 \in H PROVE l \in H
  <2>1. /\ l \in 1..Levels /\ l \in 2..(Levels + 1) /\ l + 1 \in 2..(Levels + 1) /\ (l + 1) - 1 = l /\ l > 1
    BY <1>0
  <2>8. Offset(pg, l) \in Offsets /\ Offset(b, l) \in Offsets
    BY <1>0, <2>1, PrefixSplits DEF Offsets
  <2>2. SUFFICES ASSUME wa[l] = wb[l], wa[l] # 0 PROVE Prefix(pg, l - 1) = Prefix(b, l - 1)
    BY <2>1
  <2>3. /\ wa[l] = IF wa[l + 1] = 0 THEN 0 ELSE tt[wa[l + 1]][Offset(pg, l)]
        /\ wb[l] = IF wb[l + 1] = 0 THEN 0 ELSE tt[wb[l + 1]][Offset(b, l)]
    BY <2>1, Walks DEF IsWalk
  <2>4. OnLevel(wa, pp, l + 1) /\ OnLevel(wb, pp, l + 1)
    BY <2>1, Walks
  <2> HIDE DEF wa, wb
  <2>5. wa[l + 1] \in TableFrames /\ wb[l + 1] \in TableFrames /\ pp[wa[l + 1]] = l /\ pp[wb[l + 1]] = l
    BY <2>1, <2>2, <2>3, <2>4 DEF OnLevel
  <2>6. wa[l + 1] = wb[l + 1] /\ Offset(pg, l) = Offset(b, l)
    <3>1. wa[l] = tt[wa[l + 1]][Offset(pg, l)] /\ wb[l] = tt[wb[l + 1]][Offset(b, l)]
      BY <2>3, <2>5, RootIsTable
    <3>2. /\ tt[wa[l + 1]][Offset(pg, l)] = tt[wb[l + 1]][Offset(b, l)]
          /\ tt[wa[l + 1]][Offset(pg, l)] # 0 /\ pp[wa[l + 1]] > 1 /\ pp[wb[l + 1]] > 1
      BY <2>1, <2>2, <2>5, <3>1
    <3> QED BY <2>5, <2>8, <3>2 DEF Single
  <2>7. Prefix(pg, l) = Prefix(b, l)
    BY <1>2, <2>1, <2>5, <2>6, RootIsTable
  <2> QED BY <1>0, <2>1, <2>6, <2>7, PrefixSplits
<1> HIDE DEF H
<1>3. (1 + 1)..(Levels + 1) \subseteq H
  BY <1>0, <1>1, <1>2, Downward
<1>4. Prefix(pg, 1) = Prefix(b, 1)
  <2>1. 2 \in H /\ 2 - 1 = 1
    BY <1>0, <1>3
  <2> QED BY <2>1 DEF H
<1>5. Prefix(pg, 1 - 1) = Prefix(b, 1 - 1)
  BY <1>0, <1>4, PrefixSplits
<1> QED BY <1>5, PrefixEnds

\* A finite set of natural numbers that is not empty has a greatest element.
LEMMA MaxIsGreatest ==
  ASSUME NEW S \in SUBSET Nat, IsFiniteSet(S), S # {}
  PROVE  Max(S) \in S /\ \A y \in S : y <= Max(S)
<1>1. PICK n \in Nat : ExistsSurjection(1..n, S)
  BY FS_NatSurjection
<1>2. PICK f \in Surjection(1..n, S) : TRUE
  BY <1>1 DEF ExistsSurjection
<1>3. f \in [1..n -> S] /\ \A x \in S : \E j \in 1..n : f[j] = x
  BY <1>2 DEF Surjection
<1> DEFINE H == {i \in 0..n : \E m \in Nat : \A j \in 1..i : f[j] <= m}
<1>4. 0 \in H
  OBVIOUS
<1>5. ASSUME NEW i \in 0..(n - 1), i \in H PROVE i + 1 \in H
  <2>1. PICK m \in Nat : \A j \in 1..i : f[j] <= m
    BY <1>5
  <2>2. i + 1 \in 1..n /\ i + 1 \in 0..n /\ f[i + 1] \in Nat
    <3>1. i + 1 \in 1..n /\ i + 1 \in 0..n
      OBVIOUS
    <3>2. f[i + 1] \in S
      BY <1>3, <3>1
    <3> QED BY <3>1, <3>2
  <2>3. \A j \in 1..(i + 1) : f[j] <= m + f[i + 1]
    <3> SUFFICES ASSUME NEW j \in 1..(i + 1) PROVE f[j] <= m + f[i + 1]
      OBVIOUS
    <3>1. CASE j = i + 1
      BY <2>2, <3>1
    <3>2. CASE j # i + 1
      <4>1. j \in 1..i /\ j \in 1..n
        BY <1>5, <3>2
      <4>2. f[j] \in Nat /\ f[j] <= m
        BY <1>3, <2>1, <4>1
      <4> QED BY <2>2, <4>2
    <3> QED BY <3>1, <3>2
  <2>4. m + f[i + 1] \in Nat
    BY <2>2
  <2> QED BY <2>2, <2>3, <2>4
<1> HIDE DEF H
<1>6. 0..n \subseteq H
  BY <1>4, <1>5, Upward
<1>7. PICK m \in Nat : \A j \in 1..n : f[j] <= m
  <2>1. n \in H
    BY <1>6
  <2> QED BY <2>1 DEF H
<1> DEFINE B == {b \in Nat : \A x \in S : x <= b}
<1>8. m \in B
  BY <1>3, <1>7
<1>9. PICK b \in B : \A c \in B : b <= c
  BY <1>8, MinIsLeast
<1>10. b \in S
  <2>1. SUFFICES ASSUME b \notin S PROVE FALSE
    OBVIOUS
  <2>2. \A x \in S : x \in Nat /\ x <= b /\ x # b
    BY <2>1
  <2>3. PICK x \in S : x \in Nat /\ x <= b /\ x # b
    BY <2>2
  <2>4. b \in Nat /\ b - 1 \in Nat /\ ~(b <= b - 1)
    BY <2>3
  <2>5. \A y \in S : y <= b - 1
    BY <2>2, <2>4
  <2>6. b - 1 \in B
    BY <2>4, <2>5
  <2> QED BY <1>9, <2>4, <2>6
<1> QED BY <1>9, <1>10 DEF Max


\* Pages are not mapped to frame 0.
LEMMA DataIsNoFrame == \A pg \in Pages : DataFrame(pg) # 0 /\ DataFrame(pg) \notin TableFrames
<1>1. Max(TableFrames) \in Nat /\ \A f \in TableFrames : f \in Nat /\ f <= Max(TableFrames)
  BY MaxIsGreatest, PageTablesAssumption
<1> QED BY <1>1, PrefixEnds DEF DataFrame

\* The call, its entries that wait, and the types of the rest.
Updates == [tab : TableFrames, offset : Offsets, frame : PtEntries]
Builds == [pc : {"idle", "walk", "clear", "protect", "pin", "link", "built"}, at : Nat,
           start : Nat, end : Nat, level : 1..Levels, tab : TableFrames,
           new : TableFrames \cup {0}, updates : Seq(Updates)]
PtTyped ==
  /\ Levelled(table, pinned) /\ readOnly \in SUBSET TableFrames
  /\ mapped \in [Pages -> PtEntries]
  /\ build \in Builds
  /\ ~rejected

\* Every table is entered once, and nobody can write to it.
PtTree == Single(table, pinned) /\ \A f \in TableFrames : pinned[f] > 0 => f \in readOnly

\* The frame for a missing table on its way.
Adding == {"clear", "protect", "pin", "link"}
PtNew == build.pc \in Adding =>
  /\ build.level > 1 /\ build.new \in TableFrames /\ Entry = 0
  /\ build.pc # "link" => pinned[build.new] = 0
  /\ build.pc # "clear" => \A o \in Offsets : table[build.new][o] = 0
  /\ build.pc \in {"pin", "link"} => build.new \in readOnly
  /\ build.pc = "link" =>
       /\ pinned[build.new] = build.level - 1
       /\ \A f \in TableFrames, o \in Offsets : pinned[f] > 1 => table[f][o] # build.new

\* The walk has come to its table.
PtAt ==
  /\ build.pc # "idle" => build.start..(build.end - 1) \subseteq Pages
  /\ build.pc \in {"walk"} \cup Adding =>
       /\ build.at \in build.start..(build.end - 1)
       /\ Walk(build.at)[build.level + 1] = build.tab
  /\ build.pc = "built" => build.at = build.end

\* The entries before the one at hand are in their tables, but for the last
\* few, which wait to be handed over.
PtBatch == build.pc # "idle" =>
  /\ build.start <= build.at - Len(build.updates)
  /\ \A k \in 1..Len(build.updates) : LET pg == build.at - Len(build.updates) + k - 1 IN
       /\ get_pgt(pg) # 0
       /\ build.updates[k] = [tab |-> get_pgt(pg), offset |-> Offset(pg, 1), frame |-> DataFrame(pg)]
  /\ \A pg \in build.start..(build.at - Len(build.updates) - 1) : not11_virt_to_pfn(pg) = DataFrame(pg)
  /\ build.pc = "built" => Len(build.updates) = 0

TablesInv == PtTyped /\ PtTree /\ PtNew /\ PtAt /\ PtBatch /\ BuiltStaysMapped

\* It holds initially.
LEMMA TablesStart == PtInit => TablesInv
<1> SUFFICES ASSUME PtInit PROVE TablesInv
  OBVIOUS
<1>1. Root \in TableFrames /\ 0 \notin TableFrames /\ Levels \in Nat \ {0} /\ Fanout \in Nat \ {0, 1}
  BY RootIsTable
<1>2. 0 \in Pages
  BY Reaches, <1>1 DEF Pages
<1>3. Garbage \in PtEntries /\ 0 \in PtEntries
  BY <1>2 DEF Garbage, PtEntries
<1>4. /\ table \in [TableFrames -> [Offsets -> PtEntries]] /\ pinned \in [TableFrames -> 0..Levels]
      /\ pinned[Root] = Levels /\ \A f \in TableFrames : pinned[f] > 0 => f = Root
      /\ \A o \in Offsets : table[Root][o] = 0
  BY <1>1, <1>3 DEF PtInit, Offsets
<1>5. Levelled(table, pinned)
  BY <1>1, <1>4 DEF Levelled
<1>6. PtTyped
  <2>1. mapped \in [Pages -> PtEntries] /\ readOnly \in SUBSET TableFrames /\ ~rejected
    BY <1>1, <1>3 DEF PtInit
  <2>2. build = [pc |-> "idle", at |-> 0, start |-> 0, end |-> 0, level |-> Levels,
                 tab |-> Root, new |-> 0, updates |-> <<>>] /\ <<>> \in Seq(Updates)
    BY DEF PtInit, NoBuild
  <2> QED BY <1>1, <1>5, <2>1, <2>2 DEF PtTyped, Builds
<1>7. PtTree
  <2>1. readOnly = {Root}
    BY DEF PtInit
  <2>2. ASSUME NEW f \in TableFrames, NEW o \in Offsets, pinned[f] > 1 PROVE table[f][o] = 0
    <3>1. pinned[f] > 0
      BY <1>1, <1>4, <2>2
    <3> QED BY <1>4, <3>1
  <2> QED BY <1>4, <2>1, <2>2 DEF PtTree, Single
<1>8. build.pc = "idle"
  BY DEF PtInit, NoBuild
<1>9. BuiltStaysMapped
  <2> SUFFICES ASSUME NEW pg \in Pages PROVE mapped[pg] = 0 /\ not11_virt_to_pfn(pg) = 0
    BY DEF BuiltStaysMapped
  <2>1. Walk(pg) = WalkIn(table, pg)
    BY DEF Walk, WalkIn
  <2>2. Walk(pg)[1] = IF Walk(pg)[2] = 0 THEN 0 ELSE table[Walk(pg)[2]][Offset(pg, 1)]
    <3>1. IsWalk(Walk(pg), table, pg)
      BY <1>5, <2>1, Walks
    <3>2. 1 \in 1..Levels /\ 1 + 1 = 2
      BY <1>1
    <3> QED BY <3>1, <3>2 DEF IsWalk
  <2>3. Walk(pg)[2] # 0 => Walk(pg)[2] \in TableFrames /\ pinned[Walk(pg)[2]] = 1
    BY <1>1, <1>5, <2>1, Walks DEF OnLevel
  <2>4. pg \in Nat /\ Offset(pg, 1) \in Offsets
    BY <1>1, PrefixEnds, PrefixSplits DEF Offsets
  <2>5. Walk(pg)[1] = 0
    <3>1. CASE Walk(pg)[2] = 0
      BY <2>2, <3>1
    <3>2. CASE Walk(pg)[2] # 0
      <4>1. Walk(pg)[2] = Root
        BY <1>4, <2>3, <3>2
      <4> QED BY <1>1, <1>4, <2>2, <2>4, <4>1
    <3> QED BY <3>1, <3>2
  <2>6. mapped[pg] = 0
    BY DEF PtInit
  <2> QED BY <2>5, <2>6 DEF not11_virt_to_pfn
<1> QED BY <1>6, <1>7, <1>8, <1>9 DEF TablesInv, PtNew, PtAt, PtBatch, Adding

\* Walks in the state.
LEMMA WalksHere ==
  ASSUME PtTyped, NEW pg \in Pages
  PROVE  /\ Walk(pg) = WalkIn(table, pg) /\ Offset(pg, 1) \in Offsets /\ pg \in Nat
         /\ \A l \in 1..Levels : Offset(pg, l) \in Offsets
         /\ Walk(pg)[Levels + 1] = Root /\ Walk(pg)[1] \in PtEntries
         /\ \A l \in 1..Levels :
              Walk(pg)[l] = IF Walk(pg)[l + 1] = 0 THEN 0 ELSE table[Walk(pg)[l + 1]][Offset(pg, l)]
         /\ \A l \in 1..Levels : OnLevel(Walk(pg), pinned, l + 1)
         /\ get_pgt(pg) # 0 => get_pgt(pg) \in TableFrames /\ pinned[get_pgt(pg)] = 1
                              /\ not11_virt_to_pfn(pg) = table[get_pgt(pg)][Offset(pg, 1)]
<1>1. Levels \in Nat \ {0} /\ pg \in Nat
  BY RootIsTable, PrefixEnds
<1>2. Walk(pg) = WalkIn(table, pg) /\ Levelled(table, pinned)
  BY DEF Walk, WalkIn, PtTyped
<1>3. \A l \in 1..Levels : Offset(pg, l) \in Offsets
  BY <1>1, PrefixSplits DEF Offsets
<1>4. IsWalk(Walk(pg), table, pg) /\ \A l \in 2..(Levels + 1) : OnLevel(Walk(pg), pinned, l)
      /\ Walk(pg)[1] \in PtEntries
  BY <1>2, Walks
<1>5. \A l \in 1..Levels : l + 1 \in 2..(Levels + 1)
  BY <1>1
<1>6. 1 \in 1..Levels /\ 1 + 1 = 2 /\ 2 - 1 = 1
  BY <1>1
<1>7. \A l \in 1..Levels : OnLevel(Walk(pg), pinned, l + 1)
  BY <1>4, <1>5
<1>8. OnLevel(Walk(pg), pinned, 2) /\ Walk(pg)[1] = IF Walk(pg)[2] = 0 THEN 0 ELSE table[Walk(pg)[2]][Offset(pg, 1)]
  BY <1>4, <1>6, <1>7 DEF IsWalk
<1> QED BY <1>1, <1>2, <1>3, <1>4, <1>6, <1>7, <1>8 DEF IsWalk, OnLevel, get_pgt, not11_virt_to_pfn

\* A step that leaves tables alone leaves the walks alone.
LEMMA QuietWalks ==
  ASSUME UNCHANGED table
  PROVE  /\ \A pg : Walk(pg)' = Walk(pg)
         /\ \A pg : get_pgt(pg)' = get_pgt(pg) /\ not11_virt_to_pfn(pg)' = not11_virt_to_pfn(pg)
  BY DEF Walk, get_pgt, not11_virt_to_pfn

\* A step by which the call goes on, without a change of its range and entries.
LEMMA BatchStays ==
  ASSUME TablesInv, UNCHANGED table, build.pc # "idle",
         build'.at = build.at, build'.start = build.start, build'.updates = build.updates,
         build'.pc # "built"
  PROVE  PtBatch'
  BY QuietWalks DEF TablesInv, PtBatch

\* A call begins.
LEMMA build_pagetableKept ==
  ASSUME TablesInv, NEW start \in Pages, NEW end \in Pages, build_pagetable(start, end)
  PROVE  TablesInv'
<1>1. start \in Nat /\ end \in Nat /\ Levels \in Nat \ {0}
  BY PrefixEnds, RootIsTable
<1>2. build' = [pc |-> "walk", at |-> start, start |-> start, end |-> end, level |-> Levels,
                tab |-> Root, new |-> 0, updates |-> <<>>]
  BY DEF build_pagetable, NoBuild
<1>3. UNCHANGED <<table, pinned, readOnly, mapped, rejected>> /\ start < end
  BY DEF build_pagetable
<1>4. <<>> \in Seq(Updates) /\ Len(<<>>) = 0
  OBVIOUS
<1>5. PtTyped'
  BY <1>1, <1>2, <1>3, <1>4, RootIsTable DEF TablesInv, PtTyped, Builds, Levelled
<1>6. PtTree' /\ BuiltStaysMapped'
  BY <1>3, QuietWalks DEF TablesInv, PtTree, Single, BuiltStaysMapped
<1>7. PtNew'
  BY <1>2 DEF PtNew, Adding
<1>8. PtAt'
  <2>1. start..(end - 1) \subseteq Pages /\ start \in start..(end - 1)
    <3>1. Reach[Levels] \in Nat
      BY Reaches, RootIsTable
    <3> QED BY <1>1, <1>3, <3>1 DEF Pages
  <2>2. Walk(start)' = Walk(start) /\ Walk(start)[Levels + 1] = Root
    BY <1>3, QuietWalks, WalksHere DEF TablesInv
  <2> QED BY <1>2, <2>1, <2>2 DEF PtAt, Adding
<1>9. PtBatch'
  BY <1>1, <1>2, <1>4 DEF PtBatch
<1> QED BY <1>5, <1>6, <1>7, <1>8, <1>9 DEF TablesInv

\* The table at hand and its entry.
LEMMA AtHand ==
  ASSUME TablesInv, build.pc \in {"walk"} \cup Adding
  PROVE  /\ build.at \in Pages /\ build.tab \in TableFrames /\ build.level \in 1..Levels
         /\ pinned[build.tab] = build.level /\ Offset(build.at, build.level) \in Offsets
         /\ Entry = Walk(build.at)[build.level]
         /\ Entry \in PtEntries
         /\ build.level > 1 /\ Entry # 0 => Entry \in TableFrames /\ pinned[Entry] = build.level - 1
<1>1. /\ build.tab \in TableFrames /\ build.level \in 1..Levels /\ build.pc # "idle"
      /\ build.at \in build.start..(build.end - 1) /\ build.start..(build.end - 1) \subseteq Pages
      /\ Walk(build.at)[build.level + 1] = build.tab
  BY DEF TablesInv, PtTyped, Builds, PtAt, Adding
<1>2. build.at \in Pages /\ PtTyped
  BY <1>1 DEF TablesInv
<1>3. /\ Offset(build.at, build.level) \in Offsets
      /\ Walk(build.at)[build.level] = IF build.tab = 0 THEN 0 ELSE table[build.tab][Offset(build.at, build.level)]
      /\ OnLevel(Walk(build.at), pinned, build.level + 1)
  BY <1>1, <1>2, WalksHere
<1>4. build.tab # 0 /\ Levels \in Nat
  BY <1>1, RootIsTable
<1>5. pinned[build.tab] = build.level
  BY <1>1, <1>3, <1>4 DEF OnLevel
<1>6. Entry = Walk(build.at)[build.level]
  BY <1>3, <1>4 DEF Entry
<1>7. Entry \in PtEntries /\ (build.level > 1 /\ Entry # 0 => Entry \in TableFrames /\ pinned[Entry] = build.level - 1)
  BY <1>1, <1>3, <1>5 DEF Entry, TablesInv, PtTyped, Levelled
<1> QED BY <1>1, <1>2, <1>3, <1>5, <1>6, <1>7

\* Steps that change the call alone.
LEMMA QuietCall ==
  ASSUME TablesInv, UNCHANGED <<table, pinned, readOnly, mapped, rejected>>, build' \in Builds
  PROVE  PtTyped' /\ PtTree' /\ BuiltStaysMapped'
<1>1. PtTyped'
  BY DEF TablesInv, PtTyped, Levelled, Builds
<1>2. PtTree' /\ BuiltStaysMapped'
  BY QuietWalks DEF TablesInv, PtTree, Single, BuiltStaysMapped
<1> QED BY <1>1, <1>2

\* The walk goes on in the next table.
LEMMA DescendKept ==
  ASSUME TablesInv, Descend
  PROVE  TablesInv'
<1>1. build.pc = "walk" /\ build.level > 1 /\ Entry # 0 /\ UNCHANGED <<table, pinned, readOnly, mapped, rejected>>
      /\ build' = [build EXCEPT !.tab = Entry, !.level = @ - 1] /\ build \in Builds
  BY DEF Descend, TablesInv, PtTyped, Builds
<1>2. /\ build.at \in Pages /\ build.level \in 1..Levels /\ Entry = Walk(build.at)[build.level]
      /\ Entry \in TableFrames
  BY <1>1, AtHand DEF Adding
<1>3. build' \in Builds
  <2>1. PICK e \in TableFrames : e = Entry
    BY <1>2
  <2>2. build.level - 1 \in 1..Levels
    BY <1>1, <1>2, RootIsTable
  <2> QED BY <1>1, <2>1, <2>2 DEF Builds
<1>4. /\ build'.pc = "walk" /\ build'.at = build.at /\ build'.start = build.start /\ build'.end = build.end
      /\ build'.updates = build.updates /\ build'.level = build.level - 1 /\ build'.tab = Entry
  BY <1>1 DEF Builds
<1>5. PtAt'
  <2>1. Walk(build.at)'[(build.level - 1) + 1] = Entry
    BY <1>1, <1>2, QuietWalks, RootIsTable
  <2> QED BY <1>1, <1>4, <2>1 DEF TablesInv, PtAt, Adding
<1>6. PtBatch'
  BY <1>1, <1>4, BatchStays
<1>7. PtNew'
  BY <1>4 DEF PtNew, Adding
<1> QED BY <1>1, <1>3, <1>5, <1>6, <1>7, QuietCall DEF TablesInv

\* The call ends without a frame.
LEMMA EndedKept ==
  ASSUME TablesInv, UNCHANGED <<table, pinned, readOnly, mapped, rejected>>, build' = Ended
  PROVE  TablesInv'
<1>1. build' = [pc |-> "idle", at |-> 0, start |-> 0, end |-> 0, level |-> Levels,
                tab |-> Root, new |-> 0, updates |-> <<>>] /\ <<>> \in Seq(Updates)
  BY DEF Ended, NoBuild
<1>2. build' \in Builds
  BY <1>1, RootIsTable DEF Builds
<1>3. build'.pc = "idle"
  BY <1>1
<1>4. PtNew' /\ PtAt' /\ PtBatch'
  BY <1>3 DEF PtNew, PtAt, PtBatch, Adding
<1> QED BY <1>2, <1>4, QuietCall DEF TablesInv

\* It gets a frame for the missing table.
LEMMA TableFrameKept ==
  ASSUME TablesInv, TableFrame
  PROVE  TablesInv'
<1>1. build.pc = "walk" /\ build.level > 1 /\ Entry = 0 /\ UNCHANGED <<table, pinned, readOnly, mapped, rejected>>
      /\ build' = [build EXCEPT !.pc = "clear", !.new = Min(FreeFrames)] /\ build \in Builds
  BY DEF TableFrame, TablesInv, PtTyped, Builds
<1>2. Min(FreeFrames) \in TableFrames /\ pinned[Min(FreeFrames)] = 0
  <2>1. FreeFrames \in SUBSET Nat /\ FreeFrames # {}
    BY PageTablesAssumption DEF FreeFrames, TableFrame
  <2>2. Min(FreeFrames) \in FreeFrames
    BY <2>1, MinIsLeast
  <2>3. pinned[Min(FreeFrames)] \in 0..Levels /\ ~(pinned[Min(FreeFrames)] > 0)
    BY <2>2 DEF FreeFrames, TablesInv, PtTyped, Levelled
  <2> QED BY <2>2, <2>3, RootIsTable DEF FreeFrames
<1>3. build' \in Builds
  BY <1>1, <1>2 DEF Builds
<1>4. /\ build'.pc = "clear" /\ build'.at = build.at /\ build'.start = build.start /\ build'.end = build.end
      /\ build'.updates = build.updates /\ build'.level = build.level /\ build'.tab = build.tab
      /\ build'.new = Min(FreeFrames)
  BY <1>1 DEF Builds
<1>5. PtAt'
  BY <1>1, <1>4, QuietWalks DEF TablesInv, PtAt, Adding
<1>6. PtBatch'
  BY <1>1, <1>4, BatchStays
<1>7. PtNew'
  <2>1. Entry' = Entry
    BY <1>1, <1>4 DEF Entry
  <2> QED BY <1>1, <1>2, <1>4, <2>1 DEF PtNew, Adding
<1> QED BY <1>1, <1>3, <1>5, <1>6, <1>7, QuietCall DEF TablesInv

\* The pages before the one at hand are pages of the range.
LEMMA BatchPages ==
  ASSUME TablesInv, build.pc # "idle"
  PROVE  /\ build.at \in Nat /\ build.start \in Nat /\ Len(build.updates) \in Nat
         /\ build.at <= build.end /\ build.start <= build.at - Len(build.updates)
         /\ \A k \in 1..Len(build.updates) : build.at - Len(build.updates) + k - 1 \in Pages
         /\ build.start..(build.at - 1) \subseteq Pages
<1>1. build \in Builds /\ build.start..(build.end - 1) \subseteq Pages /\ build.updates \in Seq(Updates)
      /\ build.start <= build.at - Len(build.updates)
      /\ (build.pc = "built" => build.at = build.end)
      /\ (build.pc \in {"walk"} \cup Adding => build.at \in build.start..(build.end - 1))
  BY DEF TablesInv, PtTyped, Builds, PtAt, PtBatch
<1>2. build.at \in Nat /\ build.start \in Nat /\ build.end \in Nat
      /\ build.pc \in {"idle", "walk", "clear", "protect", "pin", "link", "built"}
  BY <1>1 DEF Builds
<1>3. Len(build.updates) \in Nat
  BY <1>1
<1>4. build.at <= build.end
  BY <1>1, <1>2 DEF Adding
<1>5. build.start..(build.at - 1) \subseteq Pages
  BY <1>1, <1>2, <1>4
<1>6. \A k \in 1..Len(build.updates) : build.at - Len(build.updates) + k - 1 \in build.start..(build.at - 1)
  BY <1>1, <1>2, <1>3
<1> QED BY <1>1, <1>2, <1>3, <1>4, <1>5, <1>6

\* The table at hand and the one to be added are not the same.
LEMMA NewIsNotHere ==
  ASSUME TablesInv, build.pc \in Adding
  PROVE  /\ build.new \in TableFrames /\ build.new # build.tab
         /\ build.pc # "link" => pinned[build.new] = 0
<1>1. pinned[build.tab] = build.level /\ build.level \in 1..Levels /\ Levels \in Nat
  BY AtHand, RootIsTable
<1>2. build.new \in TableFrames /\ build.level > 1 /\ (build.pc # "link" => pinned[build.new] = 0)
      /\ (build.pc = "link" => pinned[build.new] = build.level - 1)
  BY DEF TablesInv, PtNew
<1> QED BY <1>1, <1>2

\* A table that Xen has not accepted is in no table's way.
LEMMA ClearFrameKept ==
  ASSUME TablesInv, ClearFrame
  PROVE  TablesInv'
<1>1. /\ build.pc = "clear" /\ UNCHANGED <<pinned, readOnly, mapped, rejected>>
      /\ build' = [build EXCEPT !.pc = "protect"] /\ build \in Builds
      /\ table' = [table EXCEPT ![build.new] = [o \in Offsets |-> 0]]
  BY DEF ClearFrame, TablesInv, PtTyped, Builds, Offsets
<1>2. /\ build.new \in TableFrames /\ build.new # build.tab /\ pinned[build.new] = 0
  BY <1>1, NewIsNotHere DEF Adding
<1>3. Levelled(table, pinned) /\ Levels \in Nat \ {0} /\ 0 \in PtEntries
  BY RootIsTable DEF TablesInv, PtTyped, PtEntries
<1>4. \A f \in TableFrames : f # build.new => table'[f] = table[f]
  BY <1>1, <1>3 DEF Levelled
<1>5. \A f \in TableFrames : pinned[f] > 0 => table'[f] = table[f]
  BY <1>2, <1>4
<1>6. table' \in [TableFrames -> [Offsets -> PtEntries]] /\ \A o \in Offsets : table'[build.new][o] = 0
  BY <1>1, <1>2, <1>3 DEF Levelled
<1>7. \A f \in TableFrames : pinned[f] > 1 => pinned[f] > 0 /\ table'[f] = table[f]
  BY <1>3, <1>5 DEF Levelled
<1>8. Levelled(table', pinned')
  BY <1>1, <1>3, <1>6, <1>7 DEF Levelled
<1>9. PtTyped'
  <2>1. build' \in Builds
    BY <1>1 DEF Builds
  <2> QED BY <1>1, <1>8, <2>1 DEF TablesInv, PtTyped, Builds
<1>10. PtTree'
  BY <1>1, <1>7 DEF TablesInv, PtTree, Single
<1>11. \A pg \in Pages : \A l \in 1..(Levels + 1) : Walk(pg)'[l] = Walk(pg)[l]
  <2> SUFFICES ASSUME NEW pg \in Pages PROVE \A l \in 1..(Levels + 1) : Walk(pg)'[l] = Walk(pg)[l]
    OBVIOUS
  <2>1. 0 \in 0..Levels /\ 0 + 1 = 1
    BY <1>3
  <2>2. Walk(pg)' = WalkIn(table', pg) /\ Walk(pg) = WalkIn(table, pg)
    BY DEF Walk, WalkIn
  <2> QED BY <1>3, <1>5, <1>8, <2>1, <2>2, SameWalk
<1>12. \A pg \in Pages : get_pgt(pg)' = get_pgt(pg) /\ not11_virt_to_pfn(pg)' = not11_virt_to_pfn(pg)
  <2>1. 1 \in 1..(Levels + 1) /\ 2 \in 1..(Levels + 1)
    BY <1>3
  <2> QED BY <1>11, <2>1 DEF get_pgt, not11_virt_to_pfn
<1>13. BuiltStaysMapped'
  BY <1>1, <1>12 DEF TablesInv, BuiltStaysMapped
<1>14. /\ build'.pc = "protect" /\ build'.at = build.at /\ build'.start = build.start /\ build'.end = build.end
       /\ build'.updates = build.updates /\ build'.level = build.level /\ build'.tab = build.tab
       /\ build'.new = build.new
  BY <1>1 DEF Builds
<1>15. PtNew'
  <2>1. Entry' = Entry
    BY <1>1, <1>2, <1>4, <1>14, AtHand DEF Entry, Adding
  <2> QED BY <1>1, <1>2, <1>6, <1>14, <2>1 DEF TablesInv, PtNew, Adding
<1>16. PtAt'
  <2>1. build.at \in Pages /\ build.level + 1 \in 1..(Levels + 1)
    BY <1>1, <1>3, AtHand DEF Adding
  <2>2. Walk(build.at)'[build.level + 1] = Walk(build.at)[build.level + 1]
    BY <1>11, <1>14, <2>1
  <2> QED BY <1>1, <1>14, <2>2 DEF TablesInv, PtAt, Adding
<1>17. PtBatch'
  BY <1>1, <1>12, <1>14, BatchPages DEF TablesInv, PtBatch
<1> QED BY <1>9, <1>10, <1>13, <1>15, <1>16, <1>17 DEF TablesInv

\* Nobody can write to the frame of the table any more.
LEMMA ProtectFrameKept ==
  ASSUME TablesInv, ProtectFrame
  PROVE  TablesInv'
<1>1. /\ build.pc = "protect" /\ UNCHANGED <<table, pinned, mapped, rejected>>
      /\ build' = [build EXCEPT !.pc = "pin"] /\ build \in Builds
      /\ readOnly' = readOnly \cup {build.new}
  BY DEF ProtectFrame, TablesInv, PtTyped, Builds
<1>2. build.new \in TableFrames
  BY <1>1, NewIsNotHere DEF Adding
<1>3. PtTyped'
  <2>1. build' \in Builds
    BY <1>1 DEF Builds
  <2> QED BY <1>1, <1>2, <2>1 DEF TablesInv, PtTyped, Builds, Levelled
<1>4. PtTree' /\ BuiltStaysMapped'
  BY <1>1, QuietWalks DEF TablesInv, PtTree, Single, BuiltStaysMapped
<1>5. /\ build'.pc = "pin" /\ build'.at = build.at /\ build'.start = build.start /\ build'.end = build.end
      /\ build'.updates = build.updates /\ build'.level = build.level /\ build'.tab = build.tab
      /\ build'.new = build.new
  BY <1>1 DEF Builds
<1>6. PtAt'
  BY <1>1, <1>5, QuietWalks DEF TablesInv, PtAt, Adding
<1>7. PtBatch'
  BY <1>1, <1>5, BatchStays
<1>8. PtNew'
  <2>1. Entry' = Entry
    BY <1>1, <1>5 DEF Entry
  <2> QED BY <1>1, <1>2, <1>5, <2>1 DEF TablesInv, PtNew, Adding
<1> QED BY <1>3, <1>4, <1>6, <1>7, <1>8 DEF TablesInv

\* Xen accepts the table, which is empty and which nobody can write to.
LEMMA PinFrameKept ==
  ASSUME TablesInv, PinFrame
  PROVE  TablesInv'
<1>1. /\ build.pc = "pin" /\ UNCHANGED <<table, readOnly, mapped>> /\ build \in Builds
  BY DEF PinFrame, TablesInv, PtTyped, Builds
<1>2. /\ build.new \in TableFrames /\ build.new # build.tab /\ pinned[build.new] = 0
      /\ build.level > 1 /\ build.level \in 1..Levels /\ Levels \in Nat
      /\ build.new \in readOnly /\ \A o \in Offsets : table[build.new][o] = 0
      /\ Entry = 0
  <2>1. build.new \in TableFrames /\ build.new # build.tab /\ pinned[build.new] = 0 /\ build.level \in 1..Levels
    BY <1>1, NewIsNotHere, AtHand DEF Adding
  <2>2. PtNew
    BY DEF TablesInv
  <2> QED BY <1>1, <2>1, <2>2, RootIsTable DEF PtNew, Adding
<1>3. Acceptable(build.new, build.level - 1)
  BY <1>2 DEF Acceptable, Offsets
<1>4. /\ pinned' = [pinned EXCEPT ![build.new] = build.level - 1]
      /\ build' = [build EXCEPT !.pc = "link"] /\ rejected' = rejected
  BY <1>3 DEF PinFrame
<1>5. Levelled(table, pinned)
  BY DEF TablesInv, PtTyped
<1>6. /\ pinned' \in [TableFrames -> 0..Levels] /\ pinned'[build.new] = build.level - 1
      /\ \A f \in TableFrames : f # build.new => pinned'[f] = pinned[f]
  BY <1>2, <1>4, <1>5 DEF Levelled
<1>7. \A f \in TableFrames, o \in Offsets : pinned[f] > 1 => table[f][o] # build.new
  BY <1>2, <1>5, RootIsTable DEF Levelled
<1>8. Levelled(table', pinned')
  <2>1. pinned'[Root] = Levels
    BY <1>2, <1>5, <1>6, RootIsTable DEF Levelled
  <2>2. ASSUME NEW f \in TableFrames, NEW o \in Offsets, pinned'[f] > 1, table[f][o] # 0
        PROVE table[f][o] \in TableFrames /\ pinned'[table[f][o]] = pinned'[f] - 1
    <3>1. f # build.new
      BY <1>2, <2>2
    <3>2. pinned'[f] = pinned[f] /\ table[f][o] # build.new
      BY <1>6, <1>7, <2>2, <3>1
    <3> QED BY <1>5, <1>6, <2>2, <3>2 DEF Levelled
  <2> QED BY <1>1, <1>5, <1>6, <2>1, <2>2 DEF Levelled
<1>9. PtTyped'
  <2>1. build' \in Builds
    BY <1>1, <1>4 DEF Builds
  <2> QED BY <1>1, <1>4, <1>8, <2>1 DEF TablesInv, PtTyped, Builds
<1>10. PtTree'
  <2>1. Single(table', pinned')
    <3> SUFFICES ASSUME NEW f \in TableFrames, NEW g \in TableFrames, NEW o \in Offsets, NEW q \in Offsets,
                        pinned'[f] > 1, pinned'[g] > 1, table[f][o] = table[g][q], table[f][o] # 0
                 PROVE f = g /\ o = q
      BY <1>1 DEF Single
    <3>1. f # build.new /\ g # build.new
      BY <1>2
    <3> QED BY <1>6, <3>1 DEF TablesInv, PtTree, Single
  <2>2. \A f \in TableFrames : pinned'[f] > 0 => f \in readOnly'
    BY <1>1, <1>2, <1>6 DEF TablesInv, PtTree
  <2> QED BY <2>1, <2>2 DEF PtTree
<1>11. BuiltStaysMapped'
  BY <1>1, QuietWalks DEF TablesInv, BuiltStaysMapped
<1>12. /\ build'.pc = "link" /\ build'.at = build.at /\ build'.start = build.start /\ build'.end = build.end
      /\ build'.updates = build.updates /\ build'.level = build.level /\ build'.tab = build.tab
      /\ build'.new = build.new
  BY <1>1, <1>4 DEF Builds
<1>13. PtAt'
  BY <1>1, <1>12, QuietWalks DEF TablesInv, PtAt, Adding
<1>14. PtBatch'
  BY <1>1, <1>12, BatchStays
<1>15. PtNew'
  <2>1. Entry' = Entry
    BY <1>1, <1>12 DEF Entry
  <2>2. \A f \in TableFrames, o \in Offsets : pinned'[f] > 1 => table'[f][o] # build.new
    <3> SUFFICES ASSUME NEW f \in TableFrames, NEW o \in Offsets, pinned'[f] > 1 PROVE table[f][o] # build.new
      BY <1>1
    <3>1. CASE f = build.new
      BY <1>2, <3>1, RootIsTable
    <3>2. CASE f # build.new
      BY <1>6, <1>7, <3>2
    <3> QED BY <3>1, <3>2
  <2> QED BY <1>1, <1>2, <1>6, <1>12, <2>1, <2>2 DEF PtNew, Adding
<1> QED BY <1>9, <1>10, <1>11, <1>13, <1>14, <1>15 DEF TablesInv

\* The table is entered: walks get further, and none to anything else.
LEMMA LinkFrameKept ==
  ASSUME TablesInv, LinkFrame
  PROVE  TablesInv'
<1> DEFINE slot == Offset(build.at, build.level)
<1>1. /\ build.pc = "link" /\ UNCHANGED <<pinned, readOnly, mapped, rejected>> /\ build \in Builds
      /\ build' = [build EXCEPT !.pc = "walk", !.new = 0]
      /\ table' = [table EXCEPT ![build.tab][slot] = build.new]
  BY DEF LinkFrame, TablesInv, PtTyped, Builds
<1>2. /\ build.tab \in TableFrames /\ build.new \in TableFrames /\ build.new # build.tab
      /\ build.level \in 1..Levels /\ pinned[build.tab] = build.level /\ slot \in Offsets /\ build.at \in Pages
  BY <1>1, NewIsNotHere, AtHand DEF Adding
<1>3. /\ build.level > 1 /\ table[build.tab][slot] = 0 /\ \A o \in Offsets : table[build.new][o] = 0
      /\ pinned[build.new] = build.level - 1
      /\ \A f \in TableFrames, o \in Offsets : pinned[f] > 1 => table[f][o] # build.new
  BY <1>1 DEF TablesInv, PtNew, Adding, Entry
<1>4. Levelled(table, pinned) /\ Levels \in Nat \ {0} /\ 0 \notin TableFrames /\ build.new \in PtEntries
  BY <1>2, RootIsTable DEF TablesInv, PtTyped, PtEntries
<1> HIDE DEF slot
<1>5. /\ table' \in [TableFrames -> [Offsets -> PtEntries]]
      /\ \A f \in TableFrames, o \in Offsets :
           table'[f][o] = IF f = build.tab /\ o = slot THEN build.new ELSE table[f][o]
  BY <1>1, <1>2, <1>4 DEF Levelled
<1>6. Levelled(table', pinned')
  <2>1. ASSUME NEW f \in TableFrames, NEW o \in Offsets, pinned[f] > 1, table'[f][o] # 0
        PROVE table'[f][o] \in TableFrames /\ pinned[table'[f][o]] = pinned[f] - 1
    <3>1. CASE f = build.tab /\ o = slot
      BY <1>2, <1>3, <1>5, <3>1
    <3>2. CASE ~(f = build.tab /\ o = slot)
      <4>1. table'[f][o] = table[f][o]
        BY <1>5, <3>2
      <4> QED BY <1>4, <2>1, <4>1 DEF Levelled
    <3> QED BY <3>1, <3>2
  <2> QED BY <1>1, <1>4, <1>5, <2>1 DEF Levelled
<1>7. PtTyped'
  <2>1. build' \in Builds
    BY <1>1 DEF Builds
  <2> QED BY <1>1, <1>6, <2>1 DEF TablesInv, PtTyped, Builds
<1>8. PtTree'
  <2>1. Single(table, pinned)
    BY DEF TablesInv, PtTree
  <2>2. Single(table', pinned')
    <3> SUFFICES ASSUME NEW f \in TableFrames, NEW g \in TableFrames, NEW o \in Offsets, NEW q \in Offsets,
                        pinned[f] > 1, pinned[g] > 1, table'[f][o] = table'[g][q], table'[f][o] # 0
                 PROVE f = g /\ o = q
      BY <1>1 DEF Single
    <3>1. CASE f = build.tab /\ o = slot
      BY <1>3, <1>5, <3>1
    <3>2. CASE g = build.tab /\ q = slot
      BY <1>3, <1>5, <3>2
    <3>3. CASE ~(f = build.tab /\ o = slot) /\ ~(g = build.tab /\ q = slot)
      <4>1. table'[f][o] = table[f][o] /\ table'[g][q] = table[g][q]
        BY <1>5, <3>3
      <4>2. table[f][o] = table[g][q] /\ table[f][o] # 0
        BY <4>1
      <4> QED BY <2>1, <4>2 DEF Single
    <3> QED BY <3>1, <3>2, <3>3
  <2> QED BY <1>1, <2>2 DEF TablesInv, PtTree
<1>9. \A pg \in Pages : \A l \in 1..(Levels + 1) : Walk(pg)[l] # 0 => Walk(pg)'[l] = Walk(pg)[l]
  <2> SUFFICES ASSUME NEW pg \in Pages
      PROVE \A l \in 1..(Levels + 1) : Walk(pg)[l] # 0 => Walk(pg)'[l] = Walk(pg)[l]
    OBVIOUS
  <2>1. Walk(pg)' = WalkIn(table', pg) /\ Walk(pg) = WalkIn(table, pg)
    BY DEF Walk, WalkIn
  <2>2. \A f \in TableFrames, o \in Offsets : pinned[f] > 0 /\ table[f][o] # 0 => table'[f][o] = table[f][o]
    BY <1>3, <1>5
  <2> QED BY <1>4, <1>6, <2>1, <2>2, WalkStays
<1>10. ASSUME NEW pg \in Pages PROVE not11_virt_to_pfn(pg)' \in {0, not11_virt_to_pfn(pg)}
  <2>1. Walk(pg)' = WalkIn(table', pg) /\ Walk(pg) = WalkIn(table, pg)
    BY DEF Walk, WalkIn
  <2>2. Walk(pg)'[2] \notin {0, build.new} => Walk(pg)[2] = Walk(pg)'[2]
    <3>1. /\ \A f \in TableFrames, o \in Offsets : table'[f][o] \in {table[f][o], build.new}
          /\ \A o \in Offsets : table'[build.new][o] = 0
      BY <1>2, <1>3, <1>5
    <3>2. 2 \in 1..(Levels + 1)
      BY <1>4
    <3> QED BY <1>2, <1>4, <1>6, <2>1, <3>1, <3>2, WalkWasThere
  <2>3. /\ Walk(pg)'[1] = IF Walk(pg)'[2] = 0 THEN 0 ELSE table'[Walk(pg)'[2]][Offset(pg, 1)]
        /\ Walk(pg)[1] = IF Walk(pg)[2] = 0 THEN 0 ELSE table[Walk(pg)[2]][Offset(pg, 1)]
    <3>1. IsWalk(Walk(pg)', table', pg) /\ IsWalk(Walk(pg), table, pg)
      BY <1>4, <1>6, <2>1, Walks
    <3>2. 1 \in 1..Levels
      BY <1>4
    <3> QED BY <3>1, <3>2 DEF IsWalk
  <2>4. /\ Offset(pg, 1) \in Offsets
        /\ Walk(pg)[2] # 0 => Walk(pg)[2] \in TableFrames /\ pinned[Walk(pg)[2]] = 1
    BY WalksHere DEF TablesInv, get_pgt
  <2>5. CASE Walk(pg)'[2] = 0
    BY <2>3, <2>5 DEF not11_virt_to_pfn
  <2>6. CASE Walk(pg)'[2] = build.new
    <3>1. table'[build.new][Offset(pg, 1)] = 0
      BY <1>2, <1>3, <1>5, <2>4
    <3> QED BY <2>3, <2>6, <3>1 DEF not11_virt_to_pfn
  <2>7. CASE Walk(pg)'[2] \notin {0, build.new}
    <3>1. Walk(pg)[2] = Walk(pg)'[2] /\ Walk(pg)[2] # 0
      BY <2>2, <2>7
    <3>2. Walk(pg)[2] \in TableFrames /\ Walk(pg)[2] # build.tab
      BY <1>2, <1>3, <2>4, <3>1
    <3>3. table'[Walk(pg)[2]][Offset(pg, 1)] = table[Walk(pg)[2]][Offset(pg, 1)]
      BY <1>5, <2>4, <3>2
    <3> QED BY <2>3, <3>1, <3>3 DEF not11_virt_to_pfn
  <2> QED BY <2>5, <2>6, <2>7
<1>11. ASSUME NEW pg \in Pages
       PROVE  /\ get_pgt(pg) # 0 => get_pgt(pg)' = get_pgt(pg)
              /\ not11_virt_to_pfn(pg) # 0 => not11_virt_to_pfn(pg)' = not11_virt_to_pfn(pg)
  <2>1. 1 \in 1..(Levels + 1) /\ 2 \in 1..(Levels + 1)
    BY <1>4
  <2> QED BY <1>9, <2>1 DEF get_pgt, not11_virt_to_pfn
<1>12. BuiltStaysMapped'
  <2> SUFFICES ASSUME NEW pg \in Pages
      PROVE /\ mapped'[pg] # 0 => not11_virt_to_pfn(pg)' = mapped'[pg]
            /\ not11_virt_to_pfn(pg)' \in {0, DataFrame(pg)}
    BY DEF BuiltStaysMapped, DataFrame
  <2>1. (mapped[pg] # 0 => not11_virt_to_pfn(pg) = mapped[pg]) /\ not11_virt_to_pfn(pg) \in {0, DataFrame(pg)}
    BY DEF TablesInv, BuiltStaysMapped
  <2>2. not11_virt_to_pfn(pg)' \in {0, not11_virt_to_pfn(pg)}
    BY <1>10
  <2>3. not11_virt_to_pfn(pg) # 0 => not11_virt_to_pfn(pg)' = not11_virt_to_pfn(pg)
    BY <1>11
  <2>4. DataFrame(pg) # 0
    BY DataIsNoFrame
  <2>5. mapped'[pg] = mapped[pg]
    BY <1>1
  <2> QED BY <2>1, <2>2, <2>3, <2>4, <2>5
<1>13. /\ build'.pc = "walk" /\ build'.at = build.at /\ build'.start = build.start /\ build'.end = build.end
       /\ build'.updates = build.updates /\ build'.level = build.level /\ build'.tab = build.tab
  BY <1>1 DEF Builds
<1>14. PtNew'
  BY <1>13 DEF PtNew, Adding
<1>15. PtAt'
  <2>1. build.level + 1 \in 1..(Levels + 1) /\ Walk(build.at)[build.level + 1] = build.tab
    BY <1>1, <1>2, <1>4 DEF TablesInv, PtAt, Adding
  <2>2. Walk(build.at)'[build.level + 1] = Walk(build.at)[build.level + 1]
    BY <1>2, <1>4, <1>9, <1>13, <2>1
  <2> QED BY <1>1, <1>13, <2>1, <2>2 DEF TablesInv, PtAt, Adding
<1>16. PtBatch'
  <2>1. \A pg \in build.start..(build.at - Len(build.updates) - 1) :
          pg \in Pages /\ not11_virt_to_pfn(pg) = DataFrame(pg)
    BY <1>1, BatchPages DEF TablesInv, PtBatch
  <2>2. \A pg \in build.start..(build.at - Len(build.updates) - 1) : not11_virt_to_pfn(pg)' = DataFrame(pg)
    <3> SUFFICES ASSUME NEW pg \in build.start..(build.at - Len(build.updates) - 1)
        PROVE not11_virt_to_pfn(pg)' = DataFrame(pg)
      OBVIOUS
    <3>1. pg \in Pages /\ not11_virt_to_pfn(pg) = DataFrame(pg)
      BY <2>1
    <3>2. DataFrame(pg) # 0
      BY <3>1, DataIsNoFrame
    <3>3. not11_virt_to_pfn(pg)' = not11_virt_to_pfn(pg)
      BY <1>11, <3>1, <3>2
    <3> QED BY <3>1, <3>3
  <2>3. ASSUME NEW k \in 1..Len(build.updates), NEW pg, pg = build.at - Len(build.updates) + k - 1
        PROVE  /\ get_pgt(pg)' # 0
               /\ build.updates[k] = [tab |-> get_pgt(pg)', offset |-> Offset(pg, 1), frame |-> DataFrame(pg)]
    <3>1. /\ get_pgt(pg) # 0
          /\ build.updates[k] = [tab |-> get_pgt(pg), offset |-> Offset(pg, 1), frame |-> DataFrame(pg)]
      BY <1>1, <2>3 DEF TablesInv, PtBatch
    <3>2. pg \in Pages
      BY <1>1, <2>3, BatchPages
    <3>3. get_pgt(pg)' = get_pgt(pg)
      BY <1>11, <3>1, <3>2
    <3> QED BY <3>1, <3>3
  <2> QED BY <1>1, <1>13, <2>2, <2>3 DEF TablesInv, PtBatch, DataFrame
<1> QED BY <1>7, <1>8, <1>12, <1>14, <1>15, <1>16 DEF TablesInv

SlotOf(pg) == [tab |-> get_pgt(pg), offset |-> Offset(pg, 1), frame |-> DataFrame(pg)]
\* us has the entries of n pages from base on.
SlotsOf(us, base, n) ==
  /\ DOMAIN us = 1..n
  /\ \A k \in 1..n : /\ base + k - 1 \in Pages /\ get_pgt(base + k - 1) # 0
                     /\ us[k] = SlotOf(base + k - 1)
\* In the tables tt, and nowhere else, these pages have got their frames.
Entered(tt, base, n) ==
  /\ tt \in [TableFrames -> [Offsets -> PtEntries]]
  /\ \A k \in 1..n : tt[get_pgt(base + k - 1)][Offset(base + k - 1, 1)] = DataFrame(base + k - 1)
  /\ \A f \in TableFrames, o \in Offsets :
       \/ tt[f][o] = table[f][o]
       \/ \E k \in 1..n : f = get_pgt(base + k - 1) /\ o = Offset(base + k - 1, 1)
\* What entries handed over together do: each page of theirs gets its own.
LEMMA UpdatedEntries ==
  ASSUME PtTyped, PtTree, NEW base \in Nat, NEW n \in Nat, NEW us, SlotsOf(us, base, n)
  PROVE  Entered(Updated(us), base, n)
<1> USE DEF SlotsOf
<1> DEFINE Mine(f, o) == {k \in DOMAIN us : us[k].tab = f /\ us[k].offset = o}
<1>1. \A k, j \in 1..n : us[k].tab = us[j].tab /\ us[k].offset = us[j].offset => k = j
  <2> SUFFICES ASSUME NEW k \in 1..n, NEW j \in 1..n, us[k].tab = us[j].tab, us[k].offset = us[j].offset
      PROVE k = j
    OBVIOUS
  <2> PICK pg \in Pages : pg = base + k - 1
    OBVIOUS
  <2> PICK b \in Pages : b = base + j - 1
    OBVIOUS
  <2>1. get_pgt(pg) = get_pgt(b) /\ get_pgt(pg) # 0 /\ Offset(pg, 1) = Offset(b, 1)
    BY DEF SlotOf
  <2>2. Walk(pg) = WalkIn(table, pg) /\ Walk(b) = WalkIn(table, b)
    BY DEF Walk, WalkIn
  <2>3. pg = b
    BY <2>1, <2>2, SlotsAreOwn DEF PtTyped, PtTree, get_pgt
  <2> QED BY <2>3
<1>2. \A f \in TableFrames, o \in Offsets :
        Updated(us)[f][o] = IF Mine(f, o) = {} THEN table[f][o] ELSE us[Max(Mine(f, o))].frame
  BY DEF Updated, Offsets
<1>3. \A f \in TableFrames, o \in Offsets, k \in 1..n :
        us[k].tab = f /\ us[k].offset = o => Updated(us)[f][o] = us[k].frame
  <2> SUFFICES ASSUME NEW f \in TableFrames, NEW o \in Offsets, NEW k \in 1..n, us[k].tab = f, us[k].offset = o
      PROVE Updated(us)[f][o] = us[k].frame
    OBVIOUS
  <2>1. Mine(f, o) = {k}
    BY <1>1
  <2>2. Max({k}) = k
    BY DEF Max
  <2> QED BY <1>2, <2>1, <2>2
<1>4. \A f \in TableFrames, o \in Offsets :
        \/ Updated(us)[f][o] = table[f][o]
        \/ \E k \in 1..n : us[k].tab = f /\ us[k].offset = o
  <2> SUFFICES ASSUME NEW f \in TableFrames, NEW o \in Offsets, Updated(us)[f][o] # table[f][o]
      PROVE \E k \in 1..n : us[k].tab = f /\ us[k].offset = o
    OBVIOUS
  <2> HIDE DEF Mine
  <2>1. Mine(f, o) # {}
    BY <1>2
  <2> USE DEF Mine
  <2>2. PICK k \in DOMAIN us : us[k].tab = f /\ us[k].offset = o
    BY <2>1
  <2> QED BY <2>2
<1> HIDE DEF Mine
<1>5. \A k \in 1..n : /\ us[k].tab = get_pgt(base + k - 1) /\ us[k].offset = Offset(base + k - 1, 1)
                      /\ us[k].frame = DataFrame(base + k - 1)
                      /\ us[k].tab \in TableFrames /\ us[k].offset \in Offsets /\ us[k].frame \in PtEntries
  <2> SUFFICES ASSUME NEW k \in 1..n, NEW pg \in Pages, pg = base + k - 1
      PROVE /\ us[k].tab = get_pgt(pg) /\ us[k].offset = Offset(pg, 1) /\ us[k].frame = DataFrame(pg)
            /\ us[k].tab \in TableFrames /\ us[k].offset \in Offsets /\ us[k].frame \in PtEntries
    OBVIOUS
  <2>1. us[k] = SlotOf(pg) /\ get_pgt(pg) # 0
    OBVIOUS
  <2>2. get_pgt(pg) \in TableFrames /\ Offset(pg, 1) \in Offsets
    BY <2>1, WalksHere
  <2> QED BY <2>1, <2>2 DEF SlotOf, PtEntries
<1>6. \A k \in 1..n :
        Updated(us)[get_pgt(base + k - 1)][Offset(base + k - 1, 1)] = DataFrame(base + k - 1)
  <2> SUFFICES ASSUME NEW k \in 1..n
      PROVE Updated(us)[get_pgt(base + k - 1)][Offset(base + k - 1, 1)] = DataFrame(base + k - 1)
    OBVIOUS
  <2>1. Updated(us)[us[k].tab][us[k].offset] = us[k].frame
    BY <1>3, <1>5
  <2> QED BY <1>5, <2>1
<1>7. \A f \in TableFrames, o \in Offsets : Updated(us)[f][o] \in PtEntries
  <2> SUFFICES ASSUME NEW f \in TableFrames, NEW o \in Offsets PROVE Updated(us)[f][o] \in PtEntries
    OBVIOUS
  <2>1. CASE Updated(us)[f][o] = table[f][o]
    BY <2>1 DEF PtTyped, Levelled
  <2>2. CASE \E k \in 1..n : us[k].tab = f /\ us[k].offset = o
    BY <1>3, <1>5, <2>2
  <2> QED BY <1>4, <2>1, <2>2
<1>8. Updated(us) \in [TableFrames -> [Offsets -> PtEntries]]
  <2> DEFINE e(f, o) == LET mine == {k \in DOMAIN us : us[k].tab = f /\ us[k].offset = o}
                        IN IF mine = {} THEN table[f][o] ELSE us[Max(mine)].frame
  <2>1. Updated(us) = [f \in TableFrames |-> [o \in Offsets |-> e(f, o)]]
    BY DEF Updated, Offsets
  <2> HIDE DEF e
  <2>2. \A f \in TableFrames, o \in Offsets : Updated(us)[f][o] = e(f, o)
    BY <2>1
  <2>3. \A f \in TableFrames, o \in Offsets : e(f, o) \in PtEntries
    BY <1>7, <2>2
  <2> QED BY <2>1, <2>3
<1>9. \A f \in TableFrames, o \in Offsets :
        \/ Updated(us)[f][o] = table[f][o]
        \/ \E k \in 1..n : f = get_pgt(base + k - 1) /\ o = Offset(base + k - 1, 1)
  <2> SUFFICES ASSUME NEW f \in TableFrames, NEW o \in Offsets, Updated(us)[f][o] # table[f][o]
      PROVE \E k \in 1..n : f = get_pgt(base + k - 1) /\ o = Offset(base + k - 1, 1)
    OBVIOUS
  <2>1. PICK k \in 1..n : us[k].tab = f /\ us[k].offset = o
    BY <1>4
  <2>2. f = get_pgt(base + k - 1) /\ o = Offset(base + k - 1, 1)
    BY <1>5, <2>1
  <2> QED BY <2>2
<1> HIDE DEF SlotsOf
<1> QED BY <1>6, <1>8, <1>9 DEF Entered

\* PtEntries handed over change no walk but its last step.
LEMMA UpdatedWalks ==
  ASSUME PtTyped, PtTree, NEW base \in Nat, NEW n \in Nat, NEW tt, Entered(tt, base, n),
         \A k \in 1..n : base + k - 1 \in Pages /\ get_pgt(base + k - 1) # 0,
         table' = tt, pinned' = pinned
  PROVE  /\ Levelled(table', pinned') /\ Single(table', pinned')
         /\ \A pg \in Pages, l \in 2..(Levels + 1) : Walk(pg)'[l] = Walk(pg)[l]
         /\ \A pg \in Pages :
              not11_virt_to_pfn(pg)' =
                IF pg \in base..(base + n - 1) THEN DataFrame(pg) ELSE not11_virt_to_pfn(pg)
<1>1. /\ table' \in [TableFrames -> [Offsets -> PtEntries]]
      /\ \A k \in 1..n : table'[get_pgt(base + k - 1)][Offset(base + k - 1, 1)] = DataFrame(base + k - 1)
      /\ \A f \in TableFrames, o \in Offsets :
           \/ table'[f][o] = table[f][o]
           \/ \E k \in 1..n : f = get_pgt(base + k - 1) /\ o = Offset(base + k - 1, 1)
  BY DEF Entered
<1>2. Levelled(table, pinned) /\ Single(table, pinned) /\ Levels \in Nat \ {0}
  BY RootIsTable DEF PtTyped, PtTree
<1>3. \A f \in TableFrames, o \in Offsets : pinned[f] > 1 => table'[f][o] = table[f][o]
  <2>1. \A k \in 1..n : pinned[get_pgt(base + k - 1)] = 1
    <3> SUFFICES ASSUME NEW k \in 1..n, NEW pg \in Pages, pg = base + k - 1 PROVE pinned[get_pgt(pg)] = 1
      OBVIOUS
    <3>1. get_pgt(pg) # 0
      OBVIOUS
    <3> QED BY <3>1, WalksHere
  <2> SUFFICES ASSUME NEW f \in TableFrames, NEW o \in Offsets, table'[f][o] # table[f][o]
      PROVE ~(pinned[f] > 1)
    OBVIOUS
  <2>2. PICK k \in 1..n : f = get_pgt(base + k - 1) /\ o = Offset(base + k - 1, 1)
    BY <1>1
  <2>3. pinned[f] = 1
    BY <2>1, <2>2
  <2> QED BY <2>3
<1>4. Levelled(table', pinned')
  BY <1>1, <1>2, <1>3 DEF Levelled
<1>5. Single(table', pinned')
  BY <1>2, <1>3 DEF Single
<1>6. \A pg \in Pages, l \in 2..(Levels + 1) : Walk(pg)'[l] = Walk(pg)[l]
  <2> SUFFICES ASSUME NEW pg \in Pages PROVE \A l \in 2..(Levels + 1) : Walk(pg)'[l] = Walk(pg)[l]
    OBVIOUS
  <2>1. Walk(pg)' = WalkIn(table', pg) /\ Walk(pg) = WalkIn(table, pg)
    BY DEF Walk, WalkIn
  <2>2. \A f \in TableFrames : pinned[f] > 1 => table'[f] = table[f]
    <3> SUFFICES ASSUME NEW f \in TableFrames, pinned[f] > 1 PROVE table'[f] = table[f]
      OBVIOUS
    <3>1. table'[f] \in [Offsets -> PtEntries] /\ table[f] \in [Offsets -> PtEntries]
      BY <1>1, <1>2 DEF Levelled
    <3> QED BY <1>3, <3>1
  <2>3. 1 \in 0..Levels /\ 1 + 1 = 2
    BY <1>2
  <2> QED BY <1>2, <1>4, <2>1, <2>2, <2>3, SameWalk
<1>7. ASSUME NEW pg \in Pages
      PROVE not11_virt_to_pfn(pg)' = IF pg \in base..(base + n - 1) THEN DataFrame(pg) ELSE not11_virt_to_pfn(pg)
  <2>1. /\ get_pgt(pg)' = get_pgt(pg) /\ Offset(pg, 1) \in Offsets
        /\ not11_virt_to_pfn(pg)' = IF get_pgt(pg) = 0 THEN 0 ELSE table'[get_pgt(pg)][Offset(pg, 1)]
        /\ not11_virt_to_pfn(pg) = IF get_pgt(pg) = 0 THEN 0 ELSE table[get_pgt(pg)][Offset(pg, 1)]
        /\ get_pgt(pg) # 0 => get_pgt(pg) \in TableFrames
    <3>1. 1 \in 1..Levels /\ 2 \in 2..(Levels + 1) /\ 1 + 1 = 2
      BY <1>2
    <3>2. get_pgt(pg)' = get_pgt(pg)
      BY <1>6, <3>1 DEF get_pgt
    <3>3. Walk(pg)' = WalkIn(table', pg)
      BY DEF Walk, WalkIn
    <3>4. Walk(pg)'[1] = IF Walk(pg)'[1 + 1] = 0 THEN 0 ELSE table'[Walk(pg)'[1 + 1]][Offset(pg, 1)]
      BY <1>4, <3>1, <3>3, Walks DEF IsWalk
    <3> QED BY <3>1, <3>2, <3>4, WalksHere DEF get_pgt, not11_virt_to_pfn
  <2>2. CASE pg \in base..(base + n - 1)
    <3>1. PICK k \in 1..n : pg = base + k - 1
      <4>1. pg - base + 1 \in 1..n /\ pg = base + (pg - base + 1) - 1
        BY <2>2
      <4> QED BY <4>1
    <3> QED BY <1>1, <2>1, <2>2, <3>1
  <2>3. CASE pg \notin base..(base + n - 1)
    <3>1. CASE get_pgt(pg) = 0
      BY <2>1, <2>3, <3>1
    <3>2. CASE get_pgt(pg) # 0
      <4>1. ASSUME NEW k \in 1..n, get_pgt(pg) = get_pgt(base + k - 1), Offset(pg, 1) = Offset(base + k - 1, 1)
            PROVE FALSE
        <5> PICK b \in Pages : b = base + k - 1
          OBVIOUS
        <5>1. Walk(pg) = WalkIn(table, pg) /\ Walk(b) = WalkIn(table, b)
          BY DEF Walk, WalkIn
        <5>2. pg = b
          BY <1>2, <3>2, <4>1, <5>1, SlotsAreOwn DEF get_pgt
        <5> QED BY <2>3, <5>2
      <4>2. table'[get_pgt(pg)][Offset(pg, 1)] = table[get_pgt(pg)][Offset(pg, 1)]
        BY <1>1, <2>1, <3>2, <4>1
      <4> QED BY <2>1, <2>3, <4>2
    <3> QED BY <3>1, <3>2
  <2> QED BY <2>2, <2>3
<1> QED BY <1>4, <1>5, <1>6, <1>7

\* The entry of the page at hand joins those that wait.
LEMMA OneMoreSlot ==
  ASSUME TablesInv, build.pc = "walk", build.level = 1, NEW us,
         us = Append(build.updates, [tab |-> build.tab, offset |-> Offset(build.at, 1),
                                     frame |-> DataFrame(build.at)])
  PROVE  /\ build.at \in Nat /\ build.at \in Pages /\ build.start \in Nat /\ Len(build.updates) \in Nat
         /\ build.at < build.end /\ build.end \in Nat /\ build.start <= build.at - Len(build.updates)
         /\ us \in Seq(Updates) /\ Len(us) = Len(build.updates) + 1
         /\ SlotsOf(us, build.at - Len(build.updates), Len(us))
<1>1. /\ build.at \in Pages /\ build.tab \in TableFrames /\ build.tab # 0
  BY AtHand, RootIsTable
<1>2. /\ build \in Builds /\ build.updates \in Seq(Updates) /\ build.at \in build.start..(build.end - 1)
      /\ Walk(build.at)[build.level + 1] = build.tab /\ PtTyped
  BY DEF TablesInv, PtTyped, Builds, PtAt
<1>3. get_pgt(build.at) = build.tab /\ 1 + 1 = 2
  BY <1>2 DEF get_pgt
<1>4. /\ build.at \in Nat /\ build.start \in Nat /\ build.end \in Nat
  BY <1>2 DEF Builds
<1>5. /\ Len(build.updates) \in Nat /\ build.start <= build.at - Len(build.updates)
      /\ \A k \in 1..Len(build.updates) : build.at - Len(build.updates) + k - 1 \in Pages
  BY BatchPages
<1>6. SlotOf(build.at) \in Updates
  <2>1. Offset(build.at, 1) \in Offsets /\ DataFrame(build.at) \in PtEntries
    BY <1>1, <1>2, WalksHere DEF PtEntries
  <2> QED BY <1>1, <1>3, <2>1 DEF SlotOf, Updates
<1>7. us = Append(build.updates, SlotOf(build.at))
  BY <1>3 DEF SlotOf
<1>8. /\ us \in Seq(Updates) /\ Len(us) = Len(build.updates) + 1
      /\ \A k \in 1..Len(build.updates) : us[k] = build.updates[k]
      /\ us[Len(build.updates) + 1] = SlotOf(build.at)
  BY <1>2, <1>6, <1>7
<1>9. SlotsOf(us, build.at - Len(build.updates), Len(us))
  <2>1. DOMAIN us = 1..Len(us)
    BY <1>8
  <2>2. ASSUME NEW k \in 1..Len(us), NEW pg, pg = build.at - Len(build.updates) + k - 1
        PROVE pg \in Pages /\ get_pgt(pg) # 0 /\ us[k] = SlotOf(pg)
    <3>1. CASE k \in 1..Len(build.updates)
      <4>1. /\ get_pgt(pg) # 0
            /\ build.updates[k] = [tab |-> get_pgt(pg), offset |-> Offset(pg, 1), frame |-> DataFrame(pg)]
        BY <2>2, <3>1 DEF TablesInv, PtBatch
      <4> QED BY <1>5, <1>8, <2>2, <3>1, <4>1 DEF SlotOf
    <3>2. CASE k = Len(build.updates) + 1
      <4>1. pg = build.at
        BY <1>4, <1>5, <2>2, <3>2
      <4> QED BY <1>1, <1>3, <1>8, <3>2, <4>1
    <3> QED BY <1>5, <1>8, <3>1, <3>2
  <2> QED BY <2>1, <2>2 DEF SlotsOf
<1> QED BY <1>1, <1>2, <1>4, <1>5, <1>8, <1>9

\* The page at hand is done with; its entry is handed over with those that
\* waited for it, or waits too.
LEMMA MapPageKept ==
  ASSUME TablesInv, MapPage
  PROVE  TablesInv'
<1> DEFINE n == Len(build.updates)
           base == build.at - n
<1>1. PICK us : us = Append(build.updates, [tab |-> build.tab, offset |-> Offset(build.at, 1),
                                            frame |-> DataFrame(build.at)])
  OBVIOUS
<1> DEFINE full == Len(us) = Batch \/ build.at + 1 = build.end
<1>2. /\ build.pc = "walk" /\ build.level = 1 /\ UNCHANGED <<pinned, readOnly, mapped, rejected>>
      /\ table' = IF full THEN Updated(us) ELSE table
      /\ build' = [build EXCEPT !.at = @ + 1, !.level = Levels, !.tab = Root,
                     !.pc = IF build.at + 1 = build.end THEN "built" ELSE "walk",
                     !.updates = IF full THEN <<>> ELSE us]
  BY <1>1 DEF MapPage
<1>3. /\ build.at \in Nat /\ build.at \in Pages /\ build.start \in Nat /\ n \in Nat
      /\ build.at < build.end /\ build.end \in Nat /\ build.start <= base
      /\ us \in Seq(Updates) /\ Len(us) = n + 1 /\ SlotsOf(us, base, Len(us))
  BY <1>1, <1>2, OneMoreSlot
<1> HIDE DEF n, full
<1>4. build \in Builds /\ PtTyped /\ PtTree /\ <<>> \in Seq(Updates) /\ Len(<<>>) = 0
  BY DEF TablesInv, PtTyped, Builds
<1>5. /\ build'.pc = IF build.at + 1 = build.end THEN "built" ELSE "walk"
      /\ build'.at = build.at + 1 /\ build'.start = build.start /\ build'.end = build.end
      /\ build'.updates = IF full THEN <<>> ELSE us
      /\ build'.level = Levels /\ build'.tab = Root
  BY <1>2, <1>4 DEF Builds
<1>6. build' \in Builds
  <2>1. PICK ws \in Seq(Updates) : ws = IF full THEN <<>> ELSE us
    BY <1>3, <1>4
  <2>2. PICK p \in {"built", "walk"} : p = IF build.at + 1 = build.end THEN "built" ELSE "walk"
    OBVIOUS
  <2>3. build' = [build EXCEPT !.at = @ + 1, !.level = Levels, !.tab = Root, !.pc = p, !.updates = ws]
    BY <1>2, <2>1, <2>2
  <2>4. build.at + 1 \in Nat /\ Levels \in 1..Levels /\ Root \in TableFrames
    BY <1>3, RootIsTable
  <2> QED BY <1>4, <2>3, <2>4 DEF Builds
<1>7. /\ Levelled(table', pinned') /\ Single(table', pinned')
      /\ \A pg \in Pages : get_pgt(pg)' = get_pgt(pg)
      /\ \A pg \in Pages : not11_virt_to_pfn(pg)' =
           IF full /\ pg \in base..build.at THEN DataFrame(pg) ELSE not11_virt_to_pfn(pg)
  <2>1. CASE full
    <3>1. PICK m \in Nat : m = Len(us) /\ m = n + 1
      BY <1>3
    <3>2. PICK b \in Nat : b = base /\ b + m - 1 = build.at
      BY <1>3, <3>1
    <3>3. Entered(Updated(us), b, m)
      BY <1>3, <1>4, <3>1, <3>2, UpdatedEntries
    <3>4. \A k \in 1..m : b + k - 1 \in Pages /\ get_pgt(b + k - 1) # 0
      BY <1>3, <3>1, <3>2 DEF SlotsOf
    <3>5. table' = Updated(us) /\ pinned' = pinned
      BY <1>2, <2>1
    <3>6. /\ Levelled(table', pinned') /\ Single(table', pinned')
          /\ \A pg \in Pages, l \in 2..(Levels + 1) : Walk(pg)'[l] = Walk(pg)[l]
          /\ \A pg \in Pages :
               not11_virt_to_pfn(pg)' = IF pg \in b..(b + m - 1) THEN DataFrame(pg) ELSE not11_virt_to_pfn(pg)
      BY <1>4, <3>3, <3>4, <3>5, UpdatedWalks
    <3>7. 2 \in 2..(Levels + 1)
      BY RootIsTable
    <3> QED BY <2>1, <3>2, <3>6, <3>7 DEF get_pgt
  <2>2. CASE ~full
    <3>1. UNCHANGED table
      BY <1>2, <2>2
    <3> QED BY <1>2, <1>4, <2>2, <3>1, QuietWalks DEF PtTyped, PtTree
  <2> QED BY <2>1, <2>2
<1>8. PtTyped'
  BY <1>2, <1>4, <1>6, <1>7 DEF PtTyped, Builds
<1>9. PtTree'
  BY <1>2, <1>4, <1>7 DEF PtTree
<1>10. PtNew'
  BY <1>5 DEF PtNew, Adding
<1>11. PtAt'
  <2>1. build.start..(build.end - 1) \subseteq Pages
    BY <1>2 DEF TablesInv, PtAt
  <2>2. build.at + 1 # build.end => build.at + 1 \in build.start..(build.end - 1)
    BY <1>3
  <2>3. CASE build.at + 1 # build.end
    <3>1. PICK pg \in Pages : pg = build.at + 1
      BY <2>1, <2>2, <2>3
    <3>2. Walk(pg)' = WalkIn(table', pg)
      BY DEF Walk, WalkIn
    <3>3. Walk(pg)'[Levels + 1] = Root
      BY <1>7, <3>2, Walks DEF IsWalk
    <3>4. build'.at = pg /\ build'.pc = "walk"
      BY <1>5, <2>3, <3>1
    <3>5. Walk(build.at)' = Walk(pg)'
      BY <3>4 DEF Walk
    <3> QED BY <1>5, <2>1, <2>2, <2>3, <3>3, <3>4, <3>5 DEF PtAt, Adding
  <2>4. CASE build.at + 1 = build.end
    BY <1>5, <2>1, <2>4 DEF PtAt, Adding
  <2> QED BY <2>3, <2>4
<1>12. BuiltStaysMapped'
  <2> SUFFICES ASSUME NEW pg \in Pages
      PROVE /\ mapped'[pg] # 0 => not11_virt_to_pfn(pg)' = mapped'[pg]
            /\ not11_virt_to_pfn(pg)' \in {0, DataFrame(pg)}
    BY DEF BuiltStaysMapped, DataFrame
  <2>1. (mapped[pg] # 0 => not11_virt_to_pfn(pg) = mapped[pg]) /\ not11_virt_to_pfn(pg) \in {0, DataFrame(pg)}
    BY DEF TablesInv, BuiltStaysMapped
  <2> QED BY <1>2, <1>7, <2>1
<1>13. PtBatch'
  <2>1. /\ \A pg \in build.start..(base - 1) : pg \in Pages /\ not11_virt_to_pfn(pg) = DataFrame(pg)
        /\ build.start..(build.end - 1) \subseteq Pages
    <3>1. build.start..(build.at - 1) \subseteq Pages
      BY <1>2, BatchPages
    <3>2. \A pg \in build.start..(base - 1) : not11_virt_to_pfn(pg) = DataFrame(pg)
      BY <1>2 DEF TablesInv, PtBatch, n
    <3> QED BY <1>2, <1>3, <3>1, <3>2 DEF TablesInv, PtAt
  <2>2. CASE full
    <3>1. build'.updates = <<>> /\ Len(build'.updates) = 0
      BY <1>4, <1>5, <2>2
    <3>2. \A pg \in build.start..build.at : not11_virt_to_pfn(pg)' = DataFrame(pg)
      <4> SUFFICES ASSUME NEW pg \in build.start..build.at PROVE not11_virt_to_pfn(pg)' = DataFrame(pg)
        OBVIOUS
      <4>1. pg \in Pages /\ (pg \in base..build.at \/ pg \in build.start..(base - 1))
        BY <1>3, <2>1
      <4> QED BY <1>7, <2>1, <2>2, <4>1
    <3> QED BY <1>3, <1>5, <3>1, <3>2 DEF PtBatch, DataFrame
  <2>3. CASE ~full
    <3>1. build'.updates = us /\ build'.pc = "walk" /\ build'.at - Len(us) = base
      <4>1. build.at + 1 # build.end
        BY <2>3 DEF full
      <4>2. build'.updates = us /\ build'.pc = "walk" /\ build'.at = build.at + 1
        BY <1>5, <2>3, <4>1
      <4>3. base = build.at - n /\ Len(us) = n + 1 /\ n \in Nat /\ build.at \in Nat
        BY <1>3
      <4>4. (build.at + 1) - (n + 1) = build.at - n
        BY <4>3
      <4> QED BY <4>2, <4>3, <4>4
    <3>2. \A pg \in build.start..(base - 1) : not11_virt_to_pfn(pg)' = DataFrame(pg)
      BY <1>7, <2>1, <2>3
    <3>3. ASSUME NEW k \in 1..Len(us), NEW pg, pg = base + k - 1
          PROVE  /\ get_pgt(pg)' # 0
                 /\ us[k] = [tab |-> get_pgt(pg)', offset |-> Offset(pg, 1), frame |-> DataFrame(pg)]
      <4>1. pg \in Pages /\ get_pgt(pg) # 0 /\ us[k] = SlotOf(pg)
        BY <1>3, <3>3 DEF SlotsOf
      <4> QED BY <1>7, <4>1 DEF SlotOf
    <3> QED BY <1>3, <1>5, <3>1, <3>2, <3>3 DEF PtBatch, DataFrame
  <2> QED BY <2>2, <2>3
<1> QED BY <1>8, <1>9, <1>10, <1>11, <1>12, <1>13 DEF TablesInv

\* The call succeeds: all pages of its range have their frames.
LEMMA BuiltKept ==
  ASSUME TablesInv, Built
  PROVE  TablesInv'
<1>1. /\ build.pc = "built" /\ build' = Ended /\ UNCHANGED <<table, pinned, readOnly, rejected>>
      /\ mapped' = [pg \in Pages |-> IF pg \in build.start..(build.end - 1) THEN DataFrame(pg) ELSE mapped[pg]]
  BY DEF Built
<1>2. build' = [pc |-> "idle", at |-> 0, start |-> 0, end |-> 0, level |-> Levels,
                tab |-> Root, new |-> 0, updates |-> <<>>] /\ <<>> \in Seq(Updates)
  BY <1>1 DEF Ended, NoBuild
<1>3. build'.pc = "idle" /\ build' \in Builds
  BY <1>2, RootIsTable DEF Builds
<1>4. mapped' \in [Pages -> PtEntries]
  <2>1. \A pg \in Pages : DataFrame(pg) \in PtEntries
    BY DEF PtEntries
  <2> QED BY <1>1, <2>1 DEF TablesInv, PtTyped
<1>5. PtTyped' /\ PtTree'
  BY <1>1, <1>3, <1>4 DEF TablesInv, PtTyped, Levelled, Builds, PtTree, Single
<1>6. PtNew' /\ PtAt' /\ PtBatch'
  BY <1>3 DEF PtNew, PtAt, PtBatch, Adding
<1>7. \A pg \in build.start..(build.end - 1) : not11_virt_to_pfn(pg) = DataFrame(pg)
  <2>1. build.at = build.end /\ Len(build.updates) = 0 /\ build.at \in Nat
    BY <1>1, BatchPages DEF TablesInv, PtAt, PtBatch
  <2>2. build.at - Len(build.updates) - 1 = build.end - 1
    BY <2>1
  <2> QED BY <1>1, <2>2 DEF TablesInv, PtBatch
<1>8. BuiltStaysMapped'
  <2> SUFFICES ASSUME NEW pg \in Pages
      PROVE /\ mapped'[pg] # 0 => not11_virt_to_pfn(pg)' = mapped'[pg]
            /\ not11_virt_to_pfn(pg)' \in {0, DataFrame(pg)}
    BY DEF BuiltStaysMapped, DataFrame
  <2>1. (mapped[pg] # 0 => not11_virt_to_pfn(pg) = mapped[pg]) /\ not11_virt_to_pfn(pg) \in {0, DataFrame(pg)}
    BY DEF TablesInv, BuiltStaysMapped
  <2>2. not11_virt_to_pfn(pg)' = not11_virt_to_pfn(pg)
    BY <1>1, QuietWalks
  <2> QED BY <1>1, <1>7, <2>1, <2>2
<1> QED BY <1>5, <1>6, <1>8 DEF TablesInv

\* The entry of a page is its own: a change of it is none to another page.
LEMMA SetEntryKept ==
  ASSUME TablesInv, NEW pg \in Pages, NEW e \in {0, DataFrame(pg)}, SetEntry(pg, e)
  PROVE  TablesInv'
<1>1. /\ build.pc = "idle" /\ get_pgt(pg) # 0 /\ UNCHANGED <<pinned, readOnly, build, rejected>>
      /\ table' = [table EXCEPT ![get_pgt(pg)][Offset(pg, 1)] = e]
      /\ mapped' = [mapped EXCEPT ![pg] = e]
  BY DEF SetEntry
<1>2. /\ Offset(pg, 1) \in Offsets /\ get_pgt(pg) \in TableFrames /\ pinned[get_pgt(pg)] = 1
      /\ Walk(pg) = WalkIn(table, pg)
  BY <1>1, WalksHere DEF TablesInv
<1>3. /\ Levelled(table, pinned) /\ Single(table, pinned) /\ mapped \in [Pages -> PtEntries]
      /\ Levels \in Nat \ {0} /\ e \in PtEntries
  BY RootIsTable DEF TablesInv, PtTyped, PtTree, PtEntries
<1> PICK t \in TableFrames : t = get_pgt(pg)
  BY <1>2
<1> PICK s \in Offsets : s = Offset(pg, 1)
  BY <1>2
<1>4. /\ table' \in [TableFrames -> [Offsets -> PtEntries]] /\ table'[t][s] = e
      /\ \A f \in TableFrames, o \in Offsets : ~(f = t /\ o = s) => table'[f][o] = table[f][o]
      /\ \A f \in TableFrames : f # t => table'[f] = table[f]
  <2>1. table \in [TableFrames -> [Offsets -> PtEntries]] /\ table' = [table EXCEPT ![t][s] = e]
    BY <1>1, <1>3 DEF Levelled
  <2> QED BY <1>3, <2>1
<1>5. \A f \in TableFrames : pinned[f] > 1 => table'[f] = table[f]
  BY <1>2, <1>4
<1>6. Levelled(table', pinned') /\ Single(table', pinned')
  BY <1>1, <1>3, <1>4, <1>5 DEF Levelled, Single
<1>7. \A b \in Pages : get_pgt(b)' = get_pgt(b)
  <2> SUFFICES ASSUME NEW b \in Pages PROVE Walk(b)'[2] = Walk(b)[2]
    BY DEF get_pgt
  <2>1. Walk(b)' = WalkIn(table', b) /\ Walk(b) = WalkIn(table, b)
    BY DEF Walk, WalkIn
  <2>2. 1 \in 0..Levels /\ 1 + 1 = 2 /\ 2 \in 2..(Levels + 1)
    BY <1>3
  <2> QED BY <1>3, <1>5, <1>6, <2>1, <2>2, SameWalk
<1>8. PtTyped' /\ PtTree'
  <2>1. mapped' \in [Pages -> PtEntries]
    BY <1>1, <1>3
  <2> QED BY <1>1, <1>6, <2>1 DEF TablesInv, PtTyped, PtTree
<1>9. \A b \in Pages : not11_virt_to_pfn(b)' = IF b = pg THEN e ELSE not11_virt_to_pfn(b)
  <2> SUFFICES ASSUME NEW b \in Pages
      PROVE not11_virt_to_pfn(b)' = IF b = pg THEN e ELSE not11_virt_to_pfn(b)
    OBVIOUS
  <2>1. /\ get_pgt(b)' = get_pgt(b) /\ Offset(b, 1) \in Offsets
        /\ not11_virt_to_pfn(b)' = IF get_pgt(b) = 0 THEN 0 ELSE table'[get_pgt(b)][Offset(b, 1)]
        /\ not11_virt_to_pfn(b) = IF get_pgt(b) = 0 THEN 0 ELSE table[get_pgt(b)][Offset(b, 1)]
        /\ get_pgt(b) # 0 => get_pgt(b) \in TableFrames
    <3>1. 1 \in 1..Levels /\ 1 + 1 = 2 /\ PtTyped
      BY <1>3 DEF TablesInv
    <3>2. get_pgt(b)' = get_pgt(b)
      BY <1>7
    <3>3. Walk(b)' = WalkIn(table', b)
      BY DEF Walk, WalkIn
    <3>4. Walk(b)'[1] = IF Walk(b)'[1 + 1] = 0 THEN 0 ELSE table'[Walk(b)'[1 + 1]][Offset(b, 1)]
      BY <1>6, <3>1, <3>3, Walks DEF IsWalk
    <3> QED BY <3>1, <3>2, <3>4, WalksHere DEF get_pgt, not11_virt_to_pfn
  <2>2. CASE b = pg
    BY <1>1, <1>4, <2>1, <2>2
  <2>3. CASE b # pg
    <3>1. get_pgt(b) # 0 => ~(get_pgt(b) = t /\ Offset(b, 1) = s)
      <4>1. Walk(b) = WalkIn(table, b)
        BY DEF Walk, WalkIn
      <4> QED BY <1>2, <1>3, <2>3, <4>1, SlotsAreOwn DEF get_pgt
    <3> QED BY <1>4, <2>1, <2>3, <3>1
  <2> QED BY <2>2, <2>3
<1>10. BuiltStaysMapped'
  <2> SUFFICES ASSUME NEW b \in Pages
      PROVE /\ mapped'[b] # 0 => not11_virt_to_pfn(b)' = mapped'[b]
            /\ not11_virt_to_pfn(b)' \in {0, DataFrame(b)}
    BY DEF BuiltStaysMapped, DataFrame
  <2>1. (mapped[b] # 0 => not11_virt_to_pfn(b) = mapped[b]) /\ not11_virt_to_pfn(b) \in {0, DataFrame(b)}
    BY DEF TablesInv, BuiltStaysMapped
  <2>2. mapped'[b] = IF b = pg THEN e ELSE mapped[b]
    BY <1>1, <1>3
  <2> QED BY <1>9, <2>1, <2>2
<1>11. PtNew' /\ PtAt' /\ PtBatch'
  <2>1. build'.pc = "idle"
    BY <1>1
  <2> QED BY <2>1 DEF PtNew, PtAt, PtBatch, Adding
<1> QED BY <1>8, <1>10, <1>11 DEF TablesInv

\* Each step keeps it, ...
LEMMA TablesNext == TablesInv /\ PtNext => TablesInv'
<1> SUFFICES ASSUME TablesInv, PtNext PROVE TablesInv'
  OBVIOUS
<1>1. CASE \E start \in Pages, end \in Pages : build_pagetable(start, end)
  BY <1>1, build_pagetableKept
<1>2. CASE BuildStep
  <2>1. CASE Descend
    BY <2>1, DescendKept
  <2>2. CASE NoTableFrame
    BY <2>2, EndedKept DEF NoTableFrame
  <2>3. CASE TableFrame
    BY <2>3, TableFrameKept
  <2>4. CASE ClearFrame
    BY <2>4, ClearFrameKept
  <2>5. CASE ProtectFrame
    BY <2>5, ProtectFrameKept
  <2>6. CASE PinFrame
    BY <2>6, PinFrameKept
  <2>7. CASE LinkFrame
    BY <2>7, LinkFrameKept
  <2>8. CASE MapPage
    BY <2>8, MapPageKept
  <2>9. CASE Built
    BY <2>9, BuiltKept
  <2> QED BY <1>2, <2>1, <2>2, <2>3, <2>4, <2>5, <2>6, <2>7, <2>8, <2>9 DEF BuildStep
<1>3. CASE \E pg \in Pages : unmap_page(pg) \/ remap_page(pg)
  <2>1. PICK pg \in Pages : unmap_page(pg) \/ remap_page(pg)
    BY <1>3
  <2>2. PICK e \in {0, DataFrame(pg)} : SetEntry(pg, e)
    BY <2>1 DEF unmap_page, remap_page
  <2> QED BY <2>2, SetEntryKept
<1> QED BY <1>1, <1>2, <1>3 DEF PtNext

\* ... as does a step of another component, ...
LEMMA TablesStay == TablesInv /\ UNCHANGED ptVars => TablesInv'
<1> SUFFICES ASSUME TablesInv, UNCHANGED ptVars PROVE TablesInv'
  OBVIOUS
<1>1. UNCHANGED <<table, pinned, readOnly, build, mapped, rejected>>
  BY DEF ptVars
<1>2. PtTyped' /\ PtTree' /\ PtNew'
  BY <1>1 DEF TablesInv, PtTyped, Levelled, PtTree, Single, PtNew, Entry
<1>3. PtAt' /\ PtBatch' /\ BuiltStaysMapped'
  BY <1>1, QuietWalks DEF TablesInv, PtAt, PtBatch, BuiltStaysMapped
<1> QED BY <1>2, <1>3 DEF TablesInv

\* ... and Xen rejects no update.
LEMMA TablesInvAccepted == TablesInv => TablesAreAccepted
<1> SUFFICES ASSUME TablesInv PROVE TablesAreAccepted
  OBVIOUS
<1>1. Levelled(table, pinned) /\ Single(table, pinned) /\ ~rejected /\ Levels \in Nat
      /\ \A f \in TableFrames : pinned[f] > 0 => f \in readOnly
  BY RootIsTable DEF TablesInv, PtTyped, PtTree
<1> SUFFICES ASSUME NEW f \in TableFrames, NEW g \in TableFrames, NEW o \in Offsets, NEW q \in Offsets,
                    pinned[f] > 1, table[f][o] # 0
    PROVE /\ table[f][o] \in readOnly /\ pinned[table[f][o]] = pinned[f] - 1
          /\ (pinned[g] > 1 /\ table[g][q] = table[f][o] => f = g /\ o = q)
  BY <1>1 DEF TablesAreAccepted, Offsets
<1>2. table[f][o] \in TableFrames /\ pinned[table[f][o]] = pinned[f] - 1 /\ pinned[f] \in 0..Levels
  BY <1>1 DEF Levelled
<1>3. table[f][o] \in readOnly
  BY <1>1, <1>2
<1>4. pinned[g] > 1 /\ table[g][q] = table[f][o] => f = g /\ o = q
  BY <1>1 DEF Single
<1> QED BY <1>2, <1>3, <1>4

\* The next address with the alignment.
LEMMA RoundsUp ==
  ASSUME NEW alignment \in {1, 2}, NEW y \in Nat
  PROVE  /\ RoundUp(y, alignment) \in Nat /\ RoundUp(y, alignment) % alignment = 0
         /\ y <= RoundUp(y, alignment) /\ RoundUp(y, alignment) < y + alignment
         /\ \A x \in Nat : x % alignment = 0 /\ y <= x => RoundUp(y, alignment) <= x
<1>1. CASE alignment = 1
  <2>1. RoundUp(y, 1) = y /\ \A x \in Nat : x % 1 = 0
    BY DEF RoundUp
  <2> QED BY <1>1, <2>1
<1>2. CASE alignment = 2
  <2>1. RoundUp(y, 2) = ((y + 1) \div 2) * 2
    BY DEF RoundUp
  <2>2. PICK h \in Nat : h = (y + 1) \div 2
    OBVIOUS
  <2>3. 2 * h <= y + 1 /\ y + 1 < 2 * h + 2
    BY <2>2
  <2>4. (h * 2) % 2 = 0 /\ h * 2 \in Nat
    OBVIOUS
  <2>5. ASSUME NEW x \in Nat, x % 2 = 0, y <= x PROVE h * 2 <= x
    BY <2>3, <2>5
  <2> QED BY <1>2, <2>1, <2>2, <2>3, <2>4, <2>5
<1> QED BY <1>1, <1>2

\* The search over the unmapped ones of d pages, where those in mm are mapped:
\* the runs of n pages, the lowest of them from x on, ...
RunsOf(mm, d, n, alignment) == {x \in 0..(d - n) : x % alignment = 0 /\ mm \cap x..(x + n - 1) = {}}
From(R, x) == {r \in R : x <= r}
Lowest(R) == IF R = {} THEN -1 ELSE Min(R)
\* ... and what the code computes from x on, where try has it for the rest.
TryFrom(try, mm, d, n, alignment, x) ==
  IF x > d - n THEN -1
  ELSE LET hit == mm \cap x..(x + n - 1)
       IN IF hit = {} THEN x ELSE try[RoundUp(Min(hit) + 1, alignment)]

Searches(R, mm, d, n, alignment) ==
  /\ d \in Nat /\ n \in 1..d /\ alignment \in {1, 2} /\ mm \in SUBSET (0..(d - 1))
  /\ R = RunsOf(mm, d, n, alignment)
\* The first mapped page z in the way of a run from x on, and where the search goes on.
Behind(z, m, mm, x, d, n, alignment) ==
  /\ z \in mm \cap x..(x + n - 1) /\ \A y \in mm \cap x..(x + n - 1) : z <= y
  /\ z = Min(mm \cap x..(x + n - 1))
  /\ m = RoundUp(z + 1, alignment) /\ m \in 0..(d + alignment) /\ m % alignment = 0 /\ x < m

\* The search goes on with an aligned page behind that.
LEMMA GoesOnBehind ==
  ASSUME NEW R, NEW mm, NEW d, NEW n, NEW alignment, Searches(R, mm, d, n, alignment),
         NEW x \in Nat, mm \cap x..(x + n - 1) # {}
  PROVE  \E z, m : Behind(z, m, mm, x, d, n, alignment)
<1>1. d \in Nat /\ alignment \in {1, 2} /\ mm \in SUBSET (0..(d - 1))
  BY DEF Searches
<1>2. PICK z \in mm \cap x..(x + n - 1) :
        z = Min(mm \cap x..(x + n - 1)) /\ \A y \in mm \cap x..(x + n - 1) : z <= y
  <2>1. mm \cap x..(x + n - 1) \in SUBSET Nat
    BY <1>1
  <2> QED BY <2>1, MinIsLeast
<1>3. z \in Nat /\ z <= d - 1 /\ x <= z
  BY <1>1
<1>4. PICK y \in Nat : y = z + 1
  BY <1>3
<1>5. PICK m \in Nat : m = RoundUp(y, alignment) /\ m % alignment = 0 /\ y <= m /\ m < y + alignment
  BY <1>1, RoundsUp
<1>6. m \in 0..(d + alignment) /\ x < m /\ m = RoundUp(z + 1, alignment)
  BY <1>1, <1>3, <1>4, <1>5
<1>7. Behind(z, m, mm, x, d, n, alignment)
  BY <1>2, <1>5, <1>6 DEF Behind
<1> QED BY <1>7

\* The lowest run where the search ends ...
LEMMA SearchEnds ==
  ASSUME NEW R, NEW mm, NEW d, NEW n, NEW alignment, Searches(R, mm, d, n, alignment),
         NEW x \in Nat, x % alignment = 0
  PROVE  /\ x > d - n => Lowest(From(R, x)) = -1
         /\ x <= d - n /\ mm \cap x..(x + n - 1) = {} => Lowest(From(R, x)) = x
<1>1. d \in Nat /\ n \in 1..d /\ R \in SUBSET Nat /\ \A r \in R : r <= d - n
  BY DEF Searches, RunsOf
<1>2. ASSUME x > d - n PROVE From(R, x) = {}
  <2>1. \A r \in R : r \in Nat /\ ~(x <= r)
    BY <1>1, <1>2
  <2> QED BY <2>1 DEF From
<1>3. ASSUME x <= d - n, mm \cap x..(x + n - 1) = {} PROVE Lowest(From(R, x)) = x
  <2>1. x \in From(R, x)
    BY <1>3 DEF From, RunsOf, Searches
  <2>2. From(R, x) \in SUBSET Nat
    BY <1>1 DEF From
  <2>3. Min(From(R, x)) \in From(R, x) /\ Min(From(R, x)) <= x
    BY <2>1, <2>2, MinIsLeast
  <2>4. Min(From(R, x)) = x
    BY <2>2, <2>3 DEF From
  <2> QED BY <2>1, <2>4 DEF Lowest
<1> QED BY <1>2, <1>3 DEF Lowest

\* ... and where it goes on: no run is lost.
LEMMA NoRunIsLost ==
  ASSUME NEW R, NEW mm, NEW d, NEW n, NEW alignment, Searches(R, mm, d, n, alignment),
         NEW x \in Nat, NEW z, NEW m, Behind(z, m, mm, x, d, n, alignment)
  PROVE  From(R, x) = From(R, m)
<1>1. /\ d \in Nat /\ n \in 1..d /\ alignment \in {1, 2} /\ mm \in SUBSET (0..(d - 1))
      /\ R \in SUBSET Nat /\ \A r \in R : r % alignment = 0 /\ mm \cap r..(r + n - 1) = {}
  BY DEF Searches, RunsOf
<1>2. z \in mm /\ z \in x..(x + n - 1) /\ m = RoundUp(z + 1, alignment) /\ m \in Nat /\ z \in Nat
  BY <1>1 DEF Behind
<1>3. PICK y \in Nat : y = z + 1
  BY <1>2
<1>4. y <= m /\ \A r \in Nat : r % alignment = 0 /\ y <= r => m <= r
  BY <1>1, <1>2, <1>3, RoundsUp
<1>5. ASSUME NEW r \in R, x <= r PROVE m <= r
  <2>1. SUFFICES ASSUME r <= z PROVE FALSE
    BY <1>1, <1>2, <1>3, <1>4
  <2>2. z \in mm \cap r..(r + n - 1)
    BY <1>1, <1>2, <1>5, <2>1
  <2> QED BY <1>1, <2>2
<1>6. \A r \in R : x <= r <=> m <= r
  BY <1>1, <1>2, <1>3, <1>4, <1>5
<1> QED BY <1>6 DEF From

\* The way the code computes it leads to the lowest run.
LEMMA TryIsLowest ==
  ASSUME NEW R, NEW mm, NEW d, NEW n, NEW alignment, Searches(R, mm, d, n, alignment), NEW try,
         \A x \in 0..(d + alignment) : x % alignment = 0 => try[x] = TryFrom(try, mm, d, n, alignment, x)
  PROVE  \A x \in 0..(d + alignment) : x % alignment = 0 => try[x] = Lowest(From(R, x))
<1> DEFINE Bad == {x \in 0..(d + alignment) : x % alignment = 0 /\ try[x] # Lowest(From(R, x))}
<1>1. SUFFICES ASSUME Bad # {} PROVE FALSE
  OBVIOUS
<1>2. PICK x \in Bad : \A y \in Bad : y <= x
  <2>1. IsFiniteSet(0..(d + alignment))
    BY FS_Interval DEF Searches
  <2>2. Bad \subseteq 0..(d + alignment) /\ 0..(d + alignment) \subseteq Nat
    OBVIOUS
  <2> HIDE DEF Bad
  <2>3. Bad \in SUBSET Nat /\ IsFiniteSet(Bad)
    BY <2>1, <2>2, FS_Subset
  <2> QED BY <1>1, <2>3, MaxIsGreatest
<1>3. x \in 0..(d + alignment) /\ x \in Nat /\ x % alignment = 0 /\ try[x] # Lowest(From(R, x))
      /\ try[x] = TryFrom(try, mm, d, n, alignment, x) /\ d \in Nat /\ n \in Nat
  BY DEF Searches
<1>4. x <= d - n /\ mm \cap x..(x + n - 1) # {}
  <2>1. /\ x > d - n => Lowest(From(R, x)) = -1
        /\ x <= d - n /\ mm \cap x..(x + n - 1) = {} => Lowest(From(R, x)) = x
    BY <1>3, SearchEnds
  <2> QED BY <1>3, <2>1 DEF TryFrom
<1>5. PICK z, m : Behind(z, m, mm, x, d, n, alignment)
  BY <1>3, <1>4, GoesOnBehind
<1>6. try[x] = try[m] /\ m \in 0..(d + alignment) /\ m % alignment = 0 /\ x < m
  <2>1. /\ m = RoundUp(Min(mm \cap x..(x + n - 1)) + 1, alignment)
        /\ m \in 0..(d + alignment) /\ m % alignment = 0 /\ x < m
    BY <1>5 DEF Behind
  <2>2. ~(x > d - n)
    BY <1>3, <1>4
  <2>3. try[x] = try[m]
    BY <1>3, <1>4, <2>1, <2>2 DEF TryFrom
  <2> QED BY <2>1, <2>3
<1>7. From(R, x) = From(R, m)
  BY <1>3, <1>5, NoRunIsLost
<1>8. m \in Bad
  BY <1>3, <1>6, <1>7
<1> QED BY <1>2, <1>3, <1>6, <1>8

\* There is such a way.
LEMMA TryExists ==
  ASSUME NEW R, NEW mm, NEW d, NEW n, NEW alignment, Searches(R, mm, d, n, alignment)
  PROVE  \E try : try = [x \in 0..(d + alignment) |-> TryFrom(try, mm, d, n, alignment, x)]
<1> DEFINE low == [x \in 0..(d + alignment) |-> Lowest(From(R, x))]
           try == [x \in 0..(d + alignment) |-> TryFrom(low, mm, d, n, alignment, x)]
<1>1. d \in Nat /\ n \in Nat /\ alignment \in Nat
  BY DEF Searches
<1>2. ASSUME NEW x \in 0..(d + alignment), x % alignment = 0
      PROVE  low[x] = TryFrom(low, mm, d, n, alignment, x)
  <2>1. /\ x > d - n => Lowest(From(R, x)) = -1
        /\ x <= d - n /\ mm \cap x..(x + n - 1) = {} => Lowest(From(R, x)) = x
    BY <1>1, <1>2, SearchEnds
  <2>2. CASE x > d - n \/ mm \cap x..(x + n - 1) = {}
    BY <1>1, <1>2, <2>1, <2>2 DEF TryFrom
  <2>3. CASE x <= d - n /\ mm \cap x..(x + n - 1) # {}
    <3>1. PICK z, m : Behind(z, m, mm, x, d, n, alignment)
      BY <1>1, <2>3, GoesOnBehind
    <3>2. From(R, x) = From(R, m)
      BY <1>1, <3>1, NoRunIsLost
    <3>3. m \in 0..(d + alignment) /\ m = RoundUp(Min(mm \cap x..(x + n - 1)) + 1, alignment)
      BY <3>1 DEF Behind
    <3>4. TryFrom(low, mm, d, n, alignment, x) = low[m]
      <4> HIDE DEF low
      <4> QED BY <1>1, <2>3, <3>3 DEF TryFrom
    <3> QED BY <3>2, <3>3, <3>4
  <2> QED BY <1>1, <2>2, <2>3
<1>3. ASSUME NEW x \in 0..(d + alignment), x % alignment = 0 PROVE try[x] = low[x]
  BY <1>2, <1>3
<1>4. ASSUME NEW x \in 0..(d + alignment)
      PROVE  TryFrom(try, mm, d, n, alignment, x) = TryFrom(low, mm, d, n, alignment, x)
  <2>1. CASE x > d - n \/ mm \cap x..(x + n - 1) = {}
    BY <2>1 DEF TryFrom
  <2>2. CASE x <= d - n /\ mm \cap x..(x + n - 1) # {}
    <3>1. PICK z, m : Behind(z, m, mm, x, d, n, alignment)
      BY <1>1, <2>2, GoesOnBehind
    <3>2. m \in 0..(d + alignment) /\ m % alignment = 0 /\ m = RoundUp(Min(mm \cap x..(x + n - 1)) + 1, alignment)
      BY <3>1 DEF Behind
    <3>3. try[m] = low[m]
      BY <1>3, <3>2
    <3> HIDE DEF try, low
    <3> QED BY <2>2, <3>2, <3>3 DEF TryFrom
  <2> QED BY <1>1, <2>1, <2>2
<1>5. try = [x \in 0..(d + alignment) |-> TryFrom(try, mm, d, n, alignment, x)]
  BY <1>4
<1> QED BY <1>5

\* The search for unmapped addresses finds the lowest that fit.
LEMMA DemandIsFirst == DemandFindsFirst
<1> SUFFICES ASSUME NEW n \in 1..DemandPages, NEW alignment \in {1, 2}
    PROVE allocate_ondemand(n, alignment)
            = IF FreeRuns(n, alignment) = {} THEN -1 ELSE Min(FreeRuns(n, alignment))
  BY DEF DemandFindsFirst
<1>1. PICK d \in Nat : d = DemandPages
  <2>1. Reach[Levels] \in Nat /\ Pages = 0..(Reach[Levels] - 1)
    BY Reaches, RootIsTable DEF Pages
  <2>2. IsFiniteSet(Pages)
    BY <2>1, FS_Interval
  <2>3. IsFiniteSet({pg \in Pages : pg >= DemandFrom})
    BY <2>2, FS_Subset
  <2> QED BY <2>3, FS_CardinalityType DEF DemandPages
<1>2. PICK mm \in SUBSET (0..(d - 1)) : mm = {y \in 0..(DemandPages - 1) : validate(DemandFrom + y)}
  BY <1>1
<1> DEFINE try[x \in 0..(d + alignment)] ==
             IF x > d - n THEN -1
             ELSE LET hit == mm \cap x..(x + n - 1)
                  IN IF hit = {} THEN x ELSE try[RoundUp(Min(hit) + 1, alignment)]
<1>3. allocate_ondemand(n, alignment) = try[0]
  BY <1>1, <1>2 DEF allocate_ondemand
<1> PICK R : R = RunsOf(mm, d, n, alignment)
  OBVIOUS
<1>6. Searches(R, mm, d, n, alignment)
  BY <1>1 DEF Searches
<1>4. try = [x \in 0..(d + alignment) |-> TryFrom(try, mm, d, n, alignment, x)]
  <2>1. PICK t : t = [x \in 0..(d + alignment) |-> TryFrom(t, mm, d, n, alignment, x)]
    BY <1>6, TryExists
  <2>2. t = [x \in 0..(d + alignment) |->
               IF x > d - n THEN -1
               ELSE LET hit == mm \cap x..(x + n - 1)
                    IN IF hit = {} THEN x ELSE t[RoundUp(Min(hit) + 1, alignment)]]
    BY <2>1 DEF TryFrom
  <2>3. try = [x \in 0..(d + alignment) |->
               IF x > d - n THEN -1
               ELSE LET hit == mm \cap x..(x + n - 1)
                    IN IF hit = {} THEN x ELSE try[RoundUp(Min(hit) + 1, alignment)]]
    BY <2>2
  <2> HIDE DEF try
  <2> QED BY <2>3 DEF TryFrom
<1> HIDE DEF try
<1>5. FreeRuns(n, alignment) = RunsOf(mm, d, n, alignment)
  <2>1. ASSUME NEW x \in 0..(d - n)
        PROVE (\A y \in x..(x + n - 1) : ~validate(DemandFrom + y)) <=> mm \cap x..(x + n - 1) = {}
    <3>1. \A y \in x..(x + n - 1) : y \in 0..(DemandPages - 1)
      BY <1>1
    <3>2. \A y \in x..(x + n - 1) : y \in mm <=> validate(DemandFrom + y)
      BY <1>2, <3>1
    <3> QED BY <3>2
  <2> QED BY <1>1, <2>1 DEF FreeRuns, RunsOf
<1>7. 0 \in 0..(d + alignment) /\ 0 % alignment = 0
  BY <1>1
<1>8. \A x \in 0..(d + alignment) : x % alignment = 0 => try[x] = TryFrom(try, mm, d, n, alignment, x)
  BY <1>4
<1>9. try[0] = Lowest(From(R, 0))
  BY <1>6, <1>7, <1>8, TryIsLowest
<1>10. From(R, 0) = R
  BY DEF From, RunsOf
<1> QED BY <1>3, <1>5, <1>9, <1>10 DEF Lowest

\* Xen accepts every page table, what was mapped stays mapped through later and
\* failing calls, and the search finds the lowest range without a mapping
\* (build_pagetable, new_pt_frame, allocate_ondemand), for tables of any size and
\* any number of levels, of frames and of entries handed over at a time.
THEOREM PageTablesAlwaysHold == Spec => []PageTablesHold
<1> DEFINE I == component = "tables" => TablesInv
<1>1. Init => I
  BY TablesStart DEF Init
<1>2. I /\ [Next]_vars => I'
  <2> SUFFICES ASSUME I, [Next]_vars PROVE I'
    OBVIOUS
  <2>1. CASE UNCHANGED vars
    BY <2>1, TablesStay DEF vars, memory
  <2>2. CASE Next
    <3>1. component' = component /\ (component = "tables" => PtNext)
      BY <2>2 DEF Next
    <3> QED BY <3>1, TablesNext
  <2> QED BY <2>1, <2>2
<1>3. I => PageTablesHold
  BY TablesInvAccepted, DemandIsFirst DEF PageTablesHold, Of, TablesInv
<1> QED BY <1>1, <1>2, <1>3, PTL DEF Spec

-----------------------------------------------------------------------------
(* The heap *)

HBlocks == [addr : Nat, size : Nat \ {0}]
\* Block b lies on page p; a block of the free list is smaller than a page and on
\* one, a block of callers may also be whole pages.
OnPage(b, p) == PAGE_SIZE * p <= b.addr /\ b.addr + b.size <= PAGE_SIZE * p + PAGE_SIZE
Small(b) == b.size < PAGE_SIZE /\ OnPage(b, PageOf(b))
Whole(b, p, n) == p \in Nat /\ n \in Nat \ {0} /\ b.addr = PAGE_SIZE * p /\ b.size = PAGE_SIZE * n
Large(b) == \E p, n : Whole(b, p, n)
TakenPages(P) == (0..(NumPages - 1)) \ P

\* The live blocks L and the free blocks F tile the pages that are not in P.
Sound(L, F, P) ==
  /\ L \in SUBSET HBlocks /\ F \in SUBSET HBlocks /\ P \in SUBSET (0..(NumPages - 1)) /\ L \cap F = {}
  /\ \A f \in F : Small(f)
  /\ \A b \in L : Small(b) \/ Large(b)
Disjoint(S) == \A b, d \in S : \A u \in Nat : u \in Units(b) /\ u \in Units(d) => b = d
Covers(S, P) == \A u \in Nat : (\E b \in S : u \in Units(b)) <=> u \div PAGE_SIZE \in TakenPages(P)
Apart(F) == \A b, d \in F : PageOf(b) = PageOf(d) => b.addr + b.size # d.addr
Used(L, P) == \A p \in TakenPages(P) : \E b \in L : PAGE_SIZE * p \in Units(b) \/ PageOf(b) = p
Tiling(L, F, P) ==
  Sound(L, F, P) /\ Disjoint(L \cup F) /\ Covers(L \cup F, P) /\ Apart(F) /\ Used(L, P)

\* Pages have units.
LEMMA PageSizes == PAGE_SIZE \in Nat \ {0} /\ HDR \in Nat \ {0} /\ NumPages \in Nat /\ 2 * HDR <= PAGE_SIZE
  BY SizesAssumption

\* The page of a unit.
LEMMA UnitPage ==
  ASSUME NEW u \in Nat
  PROVE  /\ u \div PAGE_SIZE \in Nat
         /\ PAGE_SIZE * (u \div PAGE_SIZE) <= u /\ u < PAGE_SIZE * (u \div PAGE_SIZE) + PAGE_SIZE
         /\ \A p \in Nat : PAGE_SIZE * p <= u /\ u < PAGE_SIZE * p + PAGE_SIZE => u \div PAGE_SIZE = p
<1> PICK s \in Nat \ {0} : s = PAGE_SIZE
  BY PageSizes
<1>1. u \div s \in Nat /\ s * (u \div s) <= u /\ u < s * (u \div s) + s
  OBVIOUS
<1>2. ASSUME NEW p \in Nat, s * p <= u, u < s * p + s PROVE u \div s = p
  <2> PICK q \in Nat : q = u \div s
    BY <1>1
  <2>1. s * q <= u /\ u < s * q + s
    BY <1>1
  <2>2. s * (q - p) < s /\ s * (p - q) < s
    BY <1>2, <2>1
  <2>3. q - p < 1 /\ p - q < 1
    <3>1. \A z \in Int : z >= 1 => s * z >= s
      OBVIOUS
    <3> QED BY <2>2, <3>1
  <2> QED BY <2>3
<1> QED BY <1>1, <1>2

\* The units of a block, and their pages.
LEMMA UnitsOf ==
  ASSUME NEW b \in HBlocks
  PROVE  /\ \A u : u \in Units(b) <=> u \in Nat /\ b.addr <= u /\ u < b.addr + b.size
         /\ b.addr \in Units(b) /\ PageOf(b) \in Nat
<1>1. b.addr \in Nat /\ b.size \in Nat \ {0}
  BY DEF HBlocks
<1>2. PageOf(b) \in Nat
  BY <1>1, UnitPage DEF PageOf
<1> QED BY <1>1, <1>2 DEF Units

\* The page a block is on is that of its address, and of its units.
LEMMA PageOfBlock ==
  ASSUME NEW b \in HBlocks, NEW p \in Nat, OnPage(b, p)
  PROVE  PageOf(b) = p /\ \A u \in Units(b) : u \in Nat /\ u \div PAGE_SIZE = p
<1>1. b.addr \in Nat /\ b.size \in Nat \ {0} /\ PAGE_SIZE * p \in Nat /\ PAGE_SIZE \in Nat
  BY PageSizes DEF HBlocks
<1>2. ASSUME NEW u \in Units(b) PROVE u \in Nat /\ u \div PAGE_SIZE = p
  <2>1. u \in Nat /\ b.addr <= u /\ u < b.addr + b.size
    BY <1>2, UnitsOf
  <2>2. PAGE_SIZE * p <= u /\ u < PAGE_SIZE * p + PAGE_SIZE
    BY <1>1, <2>1 DEF OnPage
  <2> QED BY <2>1, <2>2, UnitPage
<1>3. b.addr \in Units(b)
  BY UnitsOf
<1> QED BY <1>2, <1>3 DEF PageOf

\* A part of a block is on the block's page.
LEMMA PartOnPage ==
  ASSUME NEW b \in HBlocks, NEW d \in HBlocks, NEW p \in Nat, OnPage(b, p),
         b.addr <= d.addr, d.addr + d.size <= b.addr + b.size
  PROVE  OnPage(d, p) /\ PageOf(d) = p
<1>1. OnPage(d, p)
  BY PageSizes DEF OnPage, HBlocks
<1> QED BY <1>1, PageOfBlock

\* Pages taken whole.
LEMMA WholePages ==
  ASSUME NEW b \in HBlocks, NEW p, NEW n, Whole(b, p, n)
  PROVE  /\ PageOf(b) = p /\ b.size \div PAGE_SIZE = n
         /\ \A u \in Nat : u \in Units(b) <=> u \div PAGE_SIZE \in p..(p + n - 1)
         /\ \A q \in p..(p + n - 1) : PAGE_SIZE * q \in Units(b)
<1> PICK s \in Nat \ {0} : s = PAGE_SIZE
  BY PageSizes
<1>1. p \in Nat /\ n \in Nat \ {0} /\ b.addr = s * p /\ b.size = s * n
  BY DEF Whole
<1>2. \A u : u \in Units(b) <=> u \in Nat /\ s * p <= u /\ u < s * p + s * n
  BY <1>1, UnitsOf
<1>3. ASSUME NEW u \in Nat PROVE u \in Units(b) <=> u \div s \in p..(p + n - 1)
  <2> PICK q \in Nat : q = u \div s /\ s * q <= u /\ u < s * q + s
    BY UnitPage
  <2>1. \A x, y \in Nat : x <= y => s * x <= s * y
    OBVIOUS
  <2>2. CASE q < p
    <3>1. s * (q + 1) <= s * p /\ s * (q + 1) = s * q + s
      BY <1>1, <2>1, <2>2
    <3> QED BY <1>1, <1>2, <2>2, <3>1
  <2>3. CASE q >= p + n
    <3>1. s * (p + n) <= s * q /\ s * (p + n) = s * p + s * n
      BY <1>1, <2>1, <2>3
    <3> QED BY <1>1, <1>2, <2>3, <3>1
  <2>4. CASE p <= q /\ q < p + n
    <3>1. s * p <= s * q
      BY <1>1, <2>1, <2>4
    <3>2. s * (q + 1) <= s * (p + n) /\ s * (q + 1) = s * q + s /\ s * (p + n) = s * p + s * n
      BY <1>1, <2>1, <2>4
    <3> QED BY <1>1, <1>2, <2>4, <3>1, <3>2
  <2> QED BY <1>1, <2>2, <2>3, <2>4
<1>4. ASSUME NEW q \in Nat PROVE (s * q) \div s = q /\ s * q \in Nat
  <2>1. s * q \in Nat /\ s * q < s * q + s
    BY <1>4
  <2> QED BY <2>1, UnitPage
<1>5. PageOf(b) = p /\ b.size \div s = n
  BY <1>1, <1>4 DEF PageOf
<1>6. \A q \in p..(p + n - 1) : q \in Nat /\ s * q \in Units(b)
  <2> SUFFICES ASSUME NEW q \in p..(p + n - 1) PROVE q \in Nat /\ s * q \in Units(b)
    OBVIOUS
  <2>1. q \in Nat
    BY <1>1
  <2> QED BY <1>3, <1>4, <2>1
<1> QED BY <1>3, <1>5, <1>6

-----------------------------------------------------------------------------
(* Lists without repetitions *)

NoRepeats(s) == \A i, j \in 1..Len(s) : s[i] = s[j] => i = j
IsList(s, S, E) == s \in Seq(S) /\ NoRepeats(s) /\ ToSet(s) = E

\* The elements of a list, by position.
LEMMA ListElements ==
  ASSUME NEW S, NEW s \in Seq(S)
  PROVE  \A e : e \in ToSet(s) <=> \E i \in 1..Len(s) : s[i] = e
<1>1. DOMAIN s = 1..Len(s)
  OBVIOUS
<1> QED BY <1>1 DEF ToSet

\* A list with a new element at its end.
LEMMA ListAppend ==
  ASSUME NEW S, NEW s, NEW E, IsList(s, S, E), NEW e \in S, e \notin E
  PROVE  IsList(Append(s, e), S, E \cup {e})
<1> PICK q : q = Append(s, e)
  OBVIOUS
<1>1. s \in Seq(S) /\ NoRepeats(s) /\ ToSet(s) = E
  BY DEF IsList
<1>2. q \in Seq(S) /\ Len(q) = Len(s) + 1 /\ q[Len(s) + 1] = e
      /\ \A i \in 1..Len(s) : q[i] = s[i]
  BY <1>1
<1>3. Len(s) \in Nat /\ \A i \in 1..Len(s) : s[i] \in E
  BY <1>1, ListElements
<1>4. NoRepeats(q)
  BY <1>1, <1>2, <1>3 DEF NoRepeats
<1>5. ASSUME NEW d PROVE d \in ToSet(q) <=> d \in E \cup {e}
  <2>1. d \in ToSet(q) <=> \E i \in 1..(Len(s) + 1) : q[i] = d
    <3>1. q \in Seq(S)
      BY <1>2
    <3>2. d \in ToSet(q) <=> \E i \in 1..Len(q) : q[i] = d
      BY <3>1, ListElements
    <3> QED BY <1>2, <3>2
  <2>2. d \in E <=> \E i \in 1..Len(s) : s[i] = d
    BY <1>1, ListElements
  <2> QED BY <2>1, <2>2, <1>2, <1>3
<1> QED BY <1>2, <1>4, <1>5 DEF IsList

\* A list with a new element in front.
LEMMA ListPrepend ==
  ASSUME NEW S, NEW s, NEW E, IsList(s, S, E), NEW e \in S, e \notin E
  PROVE  IsList(<<e>> \o s, S, E \cup {e})
<1> PICK q : q = <<e>> \o s
  OBVIOUS
<1>1. s \in Seq(S) /\ NoRepeats(s) /\ ToSet(s) = E
  BY DEF IsList
<1>2. q \in Seq(S) /\ Len(q) = Len(s) + 1 /\ q[1] = e
      /\ \A i \in 1..Len(s) : q[i + 1] = s[i]
  BY <1>1
<1>3. Len(s) \in Nat /\ \A i \in 1..Len(s) : s[i] \in E
  BY <1>1, ListElements
<1>4. ASSUME NEW i \in 1..Len(q) PROVE i = 1 \/ (i - 1 \in 1..Len(s) /\ q[i] = s[i - 1])
  <2>1. i = 1 \/ i - 1 \in 1..Len(s)
    BY <1>2, <1>3
  <2> QED BY <2>1, <1>2
<1>5. NoRepeats(q)
  <2>1. SUFFICES ASSUME NEW i \in 1..Len(q), NEW j \in 1..Len(q), q[i] = q[j] PROVE i = j
    BY DEF NoRepeats
  <2>2. CASE i = 1
    BY <1>2, <1>3, <1>4, <2>1, <2>2
  <2>3. CASE j = 1
    BY <1>2, <1>3, <1>4, <2>1, <2>3
  <2>4. CASE i # 1 /\ j # 1
    <3>1. i - 1 \in 1..Len(s) /\ j - 1 \in 1..Len(s) /\ s[i - 1] = s[j - 1]
      BY <1>4, <2>1, <2>4
    <3>2. i - 1 = j - 1
      BY <1>1, <3>1 DEF NoRepeats
    <3> QED BY <3>2
  <2> QED BY <2>2, <2>3, <2>4
<1>6. ASSUME NEW d PROVE d \in ToSet(q) <=> d \in E \cup {e}
  <2>1. d \in ToSet(q) <=> \E i \in 1..Len(q) : q[i] = d
    <3>1. q \in Seq(S)
      BY <1>2
    <3>2. d \in ToSet(q) <=> \E i \in 1..Len(q) : q[i] = d
      BY <3>1, ListElements
    <3> QED BY <1>2, <3>2
  <2>2. d \in E <=> \E i \in 1..Len(s) : s[i] = d
    BY <1>1, ListElements
  <2>3. ASSUME d \in ToSet(q) PROVE d \in E \cup {e}
    BY <2>1, <2>2, <2>3, <1>2, <1>4
  <2>4. ASSUME d \in E PROVE d \in ToSet(q)
    <3>1. PICK i \in 1..Len(s) : s[i] = d
      BY <2>2, <2>4
    <3>2. i + 1 \in 1..Len(q) /\ q[i + 1] = d
      BY <1>2, <1>3, <3>1
    <3> QED BY <2>1, <3>2
  <2>5. e \in ToSet(q)
    <3>1. 1 \in 1..Len(q) /\ q[1] = e
      BY <1>2, <1>3
    <3> QED BY <1>2, <3>1, ListElements
  <2> QED BY <2>3, <2>4, <2>5
<1> QED BY <1>2, <1>5, <1>6 DEF IsList

\* One sequence behind another.
LEMMA Joined ==
  ASSUME NEW S, NEW u \in Seq(S), NEW v \in Seq(S)
  PROVE  /\ u \o v \in Seq(S) /\ Len(u \o v) = Len(u) + Len(v)
         /\ \A j \in 1..Len(u) : (u \o v)[j] = u[j]
         /\ \A j \in (Len(u) + 1)..(Len(u) + Len(v)) : (u \o v)[j] = v[j - Len(u)]
  OBVIOUS

\* A list without one of its elements.
LEMMA ListRemove ==
  ASSUME NEW S, NEW s, NEW E, IsList(s, S, E), NEW i \in 1..Len(s)
  PROVE  IsList(RemoveAt(s, i), S, E \ {s[i]})
<1> PICK q : q = RemoveAt(s, i)
  OBVIOUS
<1>1. s \in Seq(S) /\ NoRepeats(s) /\ ToSet(s) = E
  BY DEF IsList
<1> PICK m \in Nat : m = Len(s)
  BY <1>1
<1>2. q \in Seq(S) /\ Len(q) = m - 1
      /\ \A j \in 1..(m - 1) : q[j] = IF j < i THEN s[j] ELSE s[j + 1]
  <2>u. PICK u : u = SubSeq(s, 1, i - 1)
    OBVIOUS
  <2>v. PICK v : v = SubSeq(s, i + 1, m)
    OBVIOUS
  <2>1. u \in Seq(S) /\ Len(u) = i - 1 /\ \A j \in 1..(i - 1) : u[j] = s[j]
    BY <1>1, <2>u
  <2>2. v \in Seq(S) /\ Len(v) = m - i /\ \A j \in 1..(m - i) : v[j] = s[i + j]
    BY <1>1, <2>v
  <2>3. q = u \o v
    BY <2>u, <2>v DEF RemoveAt
  <2>i. i \in 1..m /\ Len(u) \in Nat /\ Len(v) \in Nat
    BY <2>1, <2>2
  <2>j. q \in Seq(S) /\ Len(q) = Len(u) + Len(v) /\ (\A j \in 1..Len(u) : q[j] = u[j])
        /\ \A j \in (Len(u) + 1)..(Len(u) + Len(v)) : q[j] = v[j - Len(u)]
    <3>1. u \in Seq(S) /\ v \in Seq(S)
      BY <2>1, <2>2
    <3> QED BY <2>3, <3>1, Joined
  <2>4. q \in Seq(S) /\ Len(q) = m - 1
    BY <2>1, <2>2, <2>i, <2>j
  <2>5. ASSUME NEW j \in 1..(m - 1) PROVE q[j] = IF j < i THEN s[j] ELSE s[j + 1]
    <3>1. CASE j < i
      <4>1. j \in 1..(i - 1)
        BY <2>i, <3>1
      <4> QED BY <2>1, <2>j, <3>1, <4>1
    <3>2. CASE j >= i
      <4>1. q[j] = v[j - (i - 1)]
        <5>1. j \in i..(i - 1 + (m - i))
          BY <2>i, <3>2
        <5>2. Len(u) = i - 1 /\ Len(v) = m - i
          BY <2>1, <2>2
        <5>3. j \in (Len(u) + 1)..(Len(u) + Len(v))
          BY <2>i, <5>1, <5>2
        <5> QED BY <2>j, <5>2, <5>3
      <4>2. j - (i - 1) \in 1..(m - i) /\ i + (j - (i - 1)) = j + 1
        BY <3>2
      <4>3. v[j - (i - 1)] = s[i + (j - (i - 1))]
        BY <2>2, <4>2
      <4> QED BY <3>2, <4>1, <4>2, <4>3
    <3> QED BY <3>1, <3>2
  <2> QED BY <2>4, <2>5
<1> DEFINE back(j) == IF j < i THEN j ELSE j + 1
<1>3. ASSUME NEW j \in 1..(m - 1) PROVE back(j) \in 1..m /\ back(j) # i /\ q[j] = s[back(j)]
  BY <1>2
<1>4. ASSUME NEW j \in 1..m, j # i
      PROVE  \E n \in 1..(m - 1) : back(n) = j
  <2>1. CASE j < i
    <3>1. j \in 1..(m - 1) /\ back(j) = j
      BY <2>1
    <3> QED BY <3>1
  <2>2. CASE j > i
    <3>1. j - 1 \in 1..(m - 1) /\ back(j - 1) = j
      BY <2>2
    <3> QED BY <3>1
  <2> QED BY <1>4, <2>1, <2>2
<1>5. \A n, o \in 1..(m - 1) : back(n) = back(o) => n = o
  OBVIOUS
<1> HIDE DEF back
<1>6. NoRepeats(q)
  <2>1. SUFFICES ASSUME NEW n \in 1..(m - 1), NEW o \in 1..(m - 1), q[n] = q[o] PROVE n = o
    BY <1>2 DEF NoRepeats
  <2>2. back(n) = back(o)
    BY <1>1, <1>3, <2>1 DEF NoRepeats
  <2> QED BY <1>5, <2>2
<1>7. ASSUME NEW d PROVE d \in ToSet(q) <=> d \in E \ {s[i]}
  <2>1. d \in ToSet(q) <=> \E n \in 1..(m - 1) : q[n] = d
    BY <1>2, ListElements
  <2>2. d \in E <=> \E n \in 1..m : s[n] = d
    BY <1>1, ListElements
  <2>3. ASSUME d \in ToSet(q) PROVE d \in E \ {s[i]}
    <3>1. PICK n \in 1..(m - 1) : q[n] = d
      BY <2>1, <2>3
    <3>2. back(n) \in 1..m /\ back(n) # i /\ d = s[back(n)]
      BY <1>3, <3>1
    <3> QED BY <2>2, <3>2, <1>1 DEF NoRepeats
  <2>4. ASSUME d \in E \ {s[i]} PROVE d \in ToSet(q)
    <3>1. PICK j \in 1..m : s[j] = d /\ j # i
      BY <2>2, <2>4
    <3>2. PICK n \in 1..(m - 1) : back(n) = j
      BY <1>4, <3>1
    <3>3. q[n] = d
      BY <1>3, <3>1, <3>2
    <3> QED BY <2>1, <3>3
  <2> QED BY <2>3, <2>4
<1> QED BY <1>2, <1>6, <1>7 DEF IsList

\* What the search of the free list finds.
LEMMA SearchFinds ==
  ASSUME NEW size, NEW S, freelist \in Seq(S), Search(size) # 0
  PROVE  Search(size) \in 1..Len(freelist) /\ freelist[Search(size)].size >= size
<1> DEFINE I == {i \in 1..Len(freelist) : freelist[i].size >= size}
<1>1. Search(size) = IF I # {} THEN Min(I) ELSE 0
  BY DEF Search, SelectInSeq
<1>2. I # {} /\ Search(size) = Min(I)
  BY <1>1
<1>3. I \in SUBSET Nat
  <2>1. Len(freelist) \in Nat
    OBVIOUS
  <2> QED BY <2>1
<1>4. Min(I) \in I
  BY <1>2, <1>3, MinIsLeast
<1> QED BY <1>2, <1>4

HasUnit(S, u) == \E b \in S : u \in Units(b)
SameUnits(S, T) == \A u \in Nat : HasUnit(S, u) <=> HasUnit(T, u)
\* The n pages from page p on.
PagesFrom(p, n) == p..(p + n - 1)

\* Blocks O of S replaced by the blocks N.
Exchanged(S, P, O, N) ==
  /\ Disjoint((S \ O) \cup N) /\ Covers((S \ O) \cup N, P) /\ (S \ O) \cap N = {}
  /\ \A b \in S \ O, d \in N : \A u \in Nat : ~(u \in Units(b) /\ u \in Units(d))
\* Blocks are replaced by others with the same units.
LEMMA Exchange ==
  ASSUME NEW S \in SUBSET HBlocks, NEW P, Disjoint(S), Covers(S, P),
         NEW O \in SUBSET S, NEW N \in SUBSET HBlocks, Disjoint(N), SameUnits(O, N)
  PROVE  Exchanged(S, P, O, N)
<1>1. ASSUME NEW b \in S \ O, NEW d \in N, NEW u \in Nat, u \in Units(b), u \in Units(d) PROVE FALSE
  <2>1. PICK o \in O : u \in Units(o)
    BY <1>1 DEF SameUnits, HasUnit
  <2>2. o = b
    BY <1>1, <2>1 DEF Disjoint
  <2> QED BY <1>1, <2>2
<1>2. Disjoint((S \ O) \cup N)
  BY <1>1 DEF Disjoint
<1>3. Covers((S \ O) \cup N, P)
  <2>1. ASSUME NEW u \in Nat
        PROVE  (\E b \in (S \ O) \cup N : u \in Units(b)) <=> (\E b \in S : u \in Units(b))
    BY DEF SameUnits, HasUnit
  <2> QED BY <2>1 DEF Covers
<1>4. (S \ O) \cap N = {}
  <2>1. \A b \in N : b.addr \in Units(b) /\ b.addr \in Nat
    BY UnitsOf
  <2> QED BY <1>1, <2>1
<1> QED BY <1>1, <1>2, <1>3, <1>4 DEF Exchanged

\* Free pages taken whole.
LEMMA Take ==
  ASSUME NEW S \in SUBSET HBlocks, NEW P \in SUBSET (0..(NumPages - 1)), Disjoint(S), Covers(S, P),
         NEW b \in HBlocks, NEW p, NEW n, Whole(b, p, n), PagesFrom(p, n) \subseteq P
  PROVE  Disjoint(S \cup {b}) /\ Covers(S \cup {b}, P \ PagesFrom(p, n)) /\ b \notin S
<1>1. \A u \in Nat : u \in Units(b) <=> u \div PAGE_SIZE \in PagesFrom(p, n)
  BY WholePages DEF PagesFrom
<1>2. ASSUME NEW u \in Nat, u \in Units(b), NEW d \in S, u \in Units(d) PROVE FALSE
  <2>1. u \div PAGE_SIZE \in TakenPages(P)
    BY <1>2 DEF Covers
  <2> QED BY <1>1, <1>2, <2>1 DEF TakenPages
<1>3. Disjoint(S \cup {b})
  BY <1>2 DEF Disjoint
<1>4. Covers(S \cup {b}, P \ PagesFrom(p, n))
  <2>1. SUFFICES ASSUME NEW u \in Nat
                 PROVE  (\E d \in S \cup {b} : u \in Units(d))
                          <=> u \div PAGE_SIZE \in TakenPages(P \ PagesFrom(p, n))
    BY DEF Covers
  <2>2. (\E d \in S : u \in Units(d)) <=> u \div PAGE_SIZE \in TakenPages(P)
    BY DEF Covers
  <2>3. u \in Units(b) <=> u \div PAGE_SIZE \in PagesFrom(p, n)
    BY <1>1
  <2> QED BY <2>2, <2>3 DEF TakenPages
<1>5. b \notin S
  BY <1>2, UnitsOf
<1> QED BY <1>3, <1>4, <1>5

\* Whole pages given back.
LEMMA Give ==
  ASSUME NEW S \in SUBSET HBlocks, NEW P \in SUBSET (0..(NumPages - 1)), Disjoint(S), Covers(S, P),
         NEW b \in S, NEW p, NEW n, Whole(b, p, n)
  PROVE  /\ Disjoint(S \ {b}) /\ Covers(S \ {b}, P \cup PagesFrom(p, n))
         /\ PagesFrom(p, n) \subseteq TakenPages(P)
<1>1. \A u \in Nat : u \in Units(b) <=> u \div PAGE_SIZE \in PagesFrom(p, n)
  BY WholePages DEF PagesFrom
<1>2. Disjoint(S \ {b})
  BY DEF Disjoint
<1>3. Covers(S \ {b}, P \cup PagesFrom(p, n))
  <2>1. SUFFICES ASSUME NEW u \in Nat
                 PROVE  (\E d \in S \ {b} : u \in Units(d))
                          <=> u \div PAGE_SIZE \in TakenPages(P \cup PagesFrom(p, n))
    BY DEF Covers
  <2>2. (\E d \in S : u \in Units(d)) <=> u \div PAGE_SIZE \in TakenPages(P)
    BY DEF Covers
  <2>3. u \in Units(b) <=> u \div PAGE_SIZE \in PagesFrom(p, n)
    BY <1>1
  <2>4. \A d \in S : u \in Units(d) /\ u \in Units(b) => d = b
    BY DEF Disjoint
  <2> QED BY <2>2, <2>3, <2>4 DEF TakenPages
<1>4. ASSUME NEW q \in PagesFrom(p, n) PROVE q \in TakenPages(P)
  <2>1. q \in Nat /\ p \in Nat
    BY DEF PagesFrom, Whole
  <2>2. PAGE_SIZE * q \in Units(b) /\ PAGE_SIZE * q \in Nat
    BY <2>1, WholePages, PageSizes DEF PagesFrom
  <2>3. (PAGE_SIZE * q) \div PAGE_SIZE = q
    BY <2>1, <2>2, PageSizes, UnitPage
  <2> QED BY <2>2, <2>3 DEF Covers
<1> QED BY <1>2, <1>3, <1>4

\* A block that has a unit of a page is on it or has its first unit, or all.
LEMMA UnitOnPage ==
  ASSUME NEW d \in HBlocks, Small(d) \/ Large(d), NEW p \in Nat, NEW u \in Nat,
         u \in Units(d), u \div PAGE_SIZE = p
  PROVE  \/ Small(d) /\ PageOf(d) = p
         \/ \A x \in Nat : x \div PAGE_SIZE = p => x \in Units(d)
<1>1. CASE Small(d)
  <2>1. PageOf(d) \in Nat /\ OnPage(d, PageOf(d))
    BY <1>1, UnitsOf DEF Small
  <2> QED BY <1>1, <2>1, PageOfBlock
<1>2. CASE Large(d)
  <2>1. PICK q, n : Whole(d, q, n)
    BY <1>2 DEF Large
  <2>2. \A x \in Nat : x \in Units(d) <=> x \div PAGE_SIZE \in q..(q + n - 1)
    BY <2>1, WholePages
  <2> QED BY <2>2
<1> QED BY <1>1, <1>2


\* Block b is one for which page p is used.
UsedBy(b, p) == PAGE_SIZE * p \in Units(b) \/ PageOf(b) = p

\* The pages a block is for.
LEMMA UsedPages ==
  ASSUME NEW b \in HBlocks, NEW q \in Nat, UsedBy(b, q)
  PROVE  /\ \A p \in Nat : OnPage(b, p) => q = p
         /\ \A p, n : Whole(b, p, n) => q \in PagesFrom(p, n)
<1>1. PAGE_SIZE * q \in Nat /\ (PAGE_SIZE * q) \div PAGE_SIZE = q
  BY PageSizes, UnitPage
<1>2. ASSUME NEW p \in Nat, OnPage(b, p) PROVE q = p
  <2>1. PageOf(b) = p /\ \A u \in Units(b) : u \div PAGE_SIZE = p
    BY <1>2, PageOfBlock
  <2> QED BY <2>1, <1>1 DEF UsedBy
<1>3. ASSUME NEW p, NEW n, Whole(b, p, n) PROVE q \in PagesFrom(p, n)
  <2>1. PageOf(b) = p /\ \A u \in Nat : u \in Units(b) <=> u \div PAGE_SIZE \in p..(p + n - 1)
    BY <1>3, WholePages
  <2>2. p \in p..(p + n - 1)
    BY <1>3 DEF Whole
  <2> QED BY <2>1, <2>2, <1>1 DEF UsedBy, PagesFrom
<1> QED BY <1>2, <1>3

\* xmalloc_whole_pages, and the page of xmalloc_new_page: free pages become a block.
LEMMA TakeWhole ==
  ASSUME NEW L, NEW F, NEW P, Tiling(L, F, P),
         NEW b \in HBlocks, NEW p, NEW n, Whole(b, p, n), PagesFrom(p, n) \subseteq P
  PROVE  Tiling(L \cup {b}, F, P \ PagesFrom(p, n)) /\ b \notin L
<1>1. Sound(L, F, P) /\ Disjoint(L \cup F) /\ Covers(L \cup F, P) /\ Apart(F) /\ Used(L, P)
  BY DEF Tiling
<1>2. L \cup F \in SUBSET HBlocks /\ P \in SUBSET (0..(NumPages - 1))
  BY <1>1 DEF Sound
<1>3. Disjoint((L \cup F) \cup {b}) /\ Covers((L \cup F) \cup {b}, P \ PagesFrom(p, n)) /\ b \notin L \cup F
  BY <1>1, <1>2, Take
<1>4. (L \cup F) \cup {b} = (L \cup {b}) \cup F
  OBVIOUS
<1>5. Sound(L \cup {b}, F, P \ PagesFrom(p, n))
  <2>1. Large(b)
    BY DEF Large
  <2>2. /\ L \in SUBSET HBlocks /\ F \in SUBSET HBlocks /\ L \cap F = {} /\ \A f \in F : Small(f)
        /\ \A d \in L : Small(d) \/ Large(d)
    BY <1>1 DEF Sound
  <2>3. P \ PagesFrom(p, n) \in SUBSET (0..(NumPages - 1))
    BY <1>2
  <2> QED BY <1>3, <2>1, <2>2, <2>3 DEF Sound
<1>6. ASSUME NEW q \in TakenPages(P \ PagesFrom(p, n)) PROVE \E d \in L \cup {b} : UsedBy(d, q)
  <2>1. CASE q \in PagesFrom(p, n)
    BY <2>1, WholePages DEF UsedBy, PagesFrom
  <2>2. CASE q \notin PagesFrom(p, n)
    <3>1. q \in TakenPages(P)
      BY <1>6, <2>2 DEF TakenPages
    <3> QED BY <1>1, <3>1 DEF Used, UsedBy
  <2> QED BY <2>1, <2>2
<1>7. Used(L \cup {b}, P \ PagesFrom(p, n))
  BY <1>6 DEF Used, UsedBy
<1> QED BY <1>1, <1>3, <1>4, <1>5, <1>7 DEF Tiling

\* A free block is given out as it is.
LEMMA TakeFree ==
  ASSUME NEW L, NEW F, NEW P, Tiling(L, F, P), NEW f \in F
  PROVE  Tiling(L \cup {f}, F \ {f}, P) /\ f \notin L
<1>1. Sound(L, F, P) /\ Disjoint(L \cup F) /\ Covers(L \cup F, P) /\ Apart(F) /\ Used(L, P)
  BY DEF Tiling
<1>2. (L \cup {f}) \cup (F \ {f}) = L \cup F
  OBVIOUS
<1>3. Sound(L \cup {f}, F \ {f}, P) /\ f \notin L
  BY <1>1 DEF Sound
<1>4. Apart(F \ {f})
  BY <1>1 DEF Apart
<1>5. Used(L \cup {f}, P)
  BY <1>1 DEF Used
<1> QED BY <1>1, <1>2, <1>3, <1>4, <1>5 DEF Tiling

\* A block d is cut in two, h in front of r.
Cut(d, h, r) ==
  /\ h \in HBlocks /\ r \in HBlocks
  /\ h.addr = d.addr /\ r.addr = d.addr + h.size /\ r.size = d.size - h.size

\* The parts share no unit and have those of the block.
LEMMA CutUnits ==
  ASSUME NEW d \in HBlocks, NEW h, NEW r, Cut(d, h, r)
  PROVE  /\ Disjoint({h, r}) /\ SameUnits({d}, {h, r}) /\ h # r
         /\ h.size < d.size /\ r.size < d.size
<1>1. /\ d.addr \in Nat /\ d.size \in Nat \ {0} /\ h.addr \in Nat /\ h.size \in Nat \ {0}
      /\ r.addr \in Nat /\ r.size \in Nat \ {0} /\ h \in HBlocks /\ r \in HBlocks
      /\ h.addr = d.addr /\ r.addr = d.addr + h.size /\ r.size = d.size - h.size
  BY DEF HBlocks, Cut
<1>2. /\ \A u : u \in Units(d) <=> u \in Nat /\ d.addr <= u /\ u < d.addr + d.size
      /\ \A u : u \in Units(h) <=> u \in Nat /\ h.addr <= u /\ u < h.addr + h.size
      /\ \A u : u \in Units(r) <=> u \in Nat /\ r.addr <= u /\ u < r.addr + r.size
  BY <1>1, UnitsOf
<1>3. ASSUME NEW u \in Nat
      PROVE  /\ u \in Units(d) <=> u \in Units(h) \/ u \in Units(r)
             /\ ~(u \in Units(h) /\ u \in Units(r))
  BY <1>1, <1>2
<1>4. h.size < d.size /\ r.size < d.size /\ h # r
  BY <1>1
<1>5. Disjoint({h, r})
  BY <1>3 DEF Disjoint
<1>6. SameUnits({d}, {h, r})
  BY <1>3 DEF SameUnits, HasUnit
<1> QED BY <1>4, <1>5, <1>6

\* A free block is split: its first part is given out.
LEMMA SplitFree ==
  ASSUME NEW L, NEW F, NEW P, Tiling(L, F, P), NEW f \in F, NEW h, NEW r, Cut(f, h, r)
  PROVE  Tiling(L \cup {h}, (F \ {f}) \cup {r}, P) /\ h \notin L /\ r \notin F
<1>1. Sound(L, F, P) /\ Disjoint(L \cup F) /\ Covers(L \cup F, P) /\ Apart(F) /\ Used(L, P)
  BY DEF Tiling
<1>2. /\ L \cup F \in SUBSET HBlocks /\ P \in SUBSET (0..(NumPages - 1)) /\ f \in HBlocks
      /\ {f} \in SUBSET (L \cup F) /\ f \notin L
  BY <1>1 DEF Sound
<1>3. Disjoint({h, r}) /\ SameUnits({f}, {h, r}) /\ h # r /\ h.size < f.size /\ r.size < f.size
  BY <1>2, CutUnits
<1>4. h \in HBlocks /\ r \in HBlocks
  BY DEF Cut
<1> DEFINE S == ((L \cup F) \ {f}) \cup {h, r}
<1>5. /\ Disjoint(S) /\ Covers(S, P) /\ ((L \cup F) \ {f}) \cap {h, r} = {}
      /\ \A b \in (L \cup F) \ {f}, d \in {h, r} : \A u \in Nat : ~(u \in Units(b) /\ u \in Units(d))
  <2>1. PICK T \in SUBSET HBlocks : T = L \cup F
    BY <1>2
  <2>2. PICK O \in SUBSET T : O = {f}
    BY <2>1
  <2>3. PICK N \in SUBSET HBlocks : N = {h, r}
    BY <1>4
  <2>4. Disjoint(T) /\ Covers(T, P) /\ Disjoint(N) /\ SameUnits(O, N)
    BY <1>1, <1>3, <2>1, <2>2, <2>3
  <2>5. /\ Disjoint((T \ O) \cup N) /\ Covers((T \ O) \cup N, P) /\ (T \ O) \cap N = {}
        /\ \A b \in T \ O, d \in N : \A u \in Nat : ~(u \in Units(b) /\ u \in Units(d))
    <3>1. Exchanged(T, P, O, N)
      BY <2>4, Exchange
    <3> QED BY <3>1 DEF Exchanged
  <2> QED BY <2>1, <2>2, <2>3, <2>5
<1>6. h \notin L /\ r \notin L /\ h \notin F \ {f} /\ r \notin F \ {f} /\ r # f /\ h # f
  BY <1>2, <1>3, <1>4, <1>5 DEF HBlocks
<1>7. S = (L \cup {h}) \cup ((F \ {f}) \cup {r})
  BY <1>2
<1>8. Small(f) /\ PageOf(f) \in Nat /\ OnPage(f, PageOf(f))
  BY <1>1, <1>2, UnitsOf DEF Sound, Small
<1>9. /\ OnPage(h, PageOf(f)) /\ PageOf(h) = PageOf(f) /\ OnPage(r, PageOf(f)) /\ PageOf(r) = PageOf(f)
  <2>1. /\ f.addr <= h.addr /\ h.addr + h.size <= f.addr + f.size
        /\ f.addr <= r.addr /\ r.addr + r.size <= f.addr + f.size
    BY <1>2 DEF Cut, HBlocks
  <2> QED BY <1>2, <1>4, <1>8, <2>1, PartOnPage
<1>10. Small(h) /\ Small(r)
  <2>1. f.size \in Nat /\ h.size \in Nat /\ r.size \in Nat /\ PAGE_SIZE \in Nat /\ f.size < PAGE_SIZE
    BY <1>2, <1>4, <1>8, PageSizes DEF HBlocks, Small
  <2>2. h.size < PAGE_SIZE /\ r.size < PAGE_SIZE
    BY <2>1, <1>3
  <2> QED BY <1>9, <2>2 DEF Small
<1>11. Sound(L \cup {h}, (F \ {f}) \cup {r}, P)
  BY <1>1, <1>3, <1>4, <1>6, <1>10 DEF Sound
<1>12. ASSUME NEW d \in F \ {f}, PageOf(d) = PageOf(f)
       PROVE  d.addr + d.size # r.addr /\ r.addr + r.size # d.addr
  <2>1. /\ d \in HBlocks /\ d.addr \in Nat /\ d.size \in Nat \ {0} /\ r.addr \in Nat /\ r.size \in Nat \ {0}
        /\ h.addr \in Nat /\ h.size \in Nat \ {0} /\ r.addr = h.addr + h.size /\ f.addr \in Nat /\ f.size \in Nat
        /\ r.addr + r.size = f.addr + f.size
    BY <1>2, <1>4 DEF HBlocks, Cut
  <2>2. r.addr + r.size # d.addr
    BY <1>1, <1>12, <2>1 DEF Apart
  <2>3. ASSUME d.addr + d.size = r.addr PROVE FALSE
    <3>1. PICK u \in Nat : u = r.addr - 1
      BY <2>1
    <3>2. u \in Units(h) /\ u \in Units(d)
      BY <1>4, <2>1, <2>3, <3>1, UnitsOf
    <3> QED BY <1>5, <1>12, <3>2
  <2> QED BY <2>2, <2>3
<1>13. Apart((F \ {f}) \cup {r})
  <2>1. r.addr + r.size # r.addr
    BY <1>4 DEF HBlocks
  <2>2. ASSUME NEW b \in (F \ {f}) \cup {r}, NEW d \in (F \ {f}) \cup {r}, PageOf(b) = PageOf(d)
        PROVE  b.addr + b.size # d.addr
    <3>1. CASE b = r /\ d = r
      BY <2>1, <3>1
    <3>2. CASE b = r /\ d # r
      BY <1>9, <1>12, <2>2, <3>2
    <3>3. CASE b # r /\ d = r
      BY <1>9, <1>12, <2>2, <3>3
    <3>4. CASE b # r /\ d # r
      BY <1>1, <2>2, <3>4 DEF Apart
    <3> QED BY <3>1, <3>2, <3>3, <3>4
  <2> QED BY <2>2 DEF Apart
<1>14. Used(L \cup {h}, P)
  BY <1>1 DEF Used
<1>15. r \notin F
  BY <1>6
<1> QED BY <1>5, <1>6, <1>7, <1>11, <1>13, <1>14, <1>15 DEF Tiling

\* The page of xmalloc_new_page is split: its first part is given out.
LEMMA SplitPage ==
  ASSUME NEW L, NEW F, NEW P, Tiling(L, F, P), NEW w \in L, NEW p, Whole(w, p, 1),
         NEW h, NEW r, Cut(w, h, r)
  PROVE  Tiling((L \ {w}) \cup {h}, F \cup {r}, P) /\ r \notin F
<1>1. Sound(L, F, P) /\ Disjoint(L \cup F) /\ Covers(L \cup F, P) /\ Apart(F) /\ Used(L, P)
  BY DEF Tiling
<1>2. /\ L \cup F \in SUBSET HBlocks /\ P \in SUBSET (0..(NumPages - 1)) /\ w \in HBlocks
      /\ w \notin F /\ L \cap F = {} /\ p \in Nat
  BY <1>1 DEF Sound, Whole
<1>3. Disjoint({h, r}) /\ SameUnits({w}, {h, r}) /\ h # r /\ h.size < w.size /\ r.size < w.size
  BY <1>2, CutUnits
<1>4. h \in HBlocks /\ r \in HBlocks
  BY DEF Cut
<1> DEFINE S == ((L \cup F) \ {w}) \cup {h, r}
<1>5. /\ Disjoint(S) /\ Covers(S, P) /\ ((L \cup F) \ {w}) \cap {h, r} = {}
      /\ \A b \in (L \cup F) \ {w}, d \in {h, r} : \A u \in Nat : ~(u \in Units(b) /\ u \in Units(d))
  <2>1. PICK T \in SUBSET HBlocks : T = L \cup F
    BY <1>2
  <2>2. PICK O \in SUBSET T : O = {w}
    BY <2>1
  <2>3. PICK N \in SUBSET HBlocks : N = {h, r}
    BY <1>4
  <2>4. Disjoint(T) /\ Covers(T, P) /\ Disjoint(N) /\ SameUnits(O, N)
    BY <1>1, <1>3, <2>1, <2>2, <2>3
  <2>5. /\ Disjoint((T \ O) \cup N) /\ Covers((T \ O) \cup N, P) /\ (T \ O) \cap N = {}
        /\ \A b \in T \ O, d \in N : \A u \in Nat : ~(u \in Units(b) /\ u \in Units(d))
    <3>1. Exchanged(T, P, O, N)
      BY <2>4, Exchange
    <3> QED BY <3>1 DEF Exchanged
  <2> QED BY <2>1, <2>2, <2>3, <2>5
<1>6. h \notin L \ {w} /\ r \notin L \ {w} /\ h \notin F /\ r \notin F
  BY <1>2, <1>5
<1>7. S = ((L \ {w}) \cup {h}) \cup (F \cup {r})
  BY <1>2
<1>8. OnPage(w, p) /\ PageOf(w) = p /\ w.size = PAGE_SIZE /\ w.addr = PAGE_SIZE * p
  <2>1. w.size = PAGE_SIZE * 1 /\ PAGE_SIZE * 1 = PAGE_SIZE /\ w.addr = PAGE_SIZE * p
    BY PageSizes DEF Whole
  <2>2. PAGE_SIZE * p \in Nat /\ PAGE_SIZE \in Nat
    BY <1>2, PageSizes
  <2>3. OnPage(w, p)
    BY <2>1, <2>2 DEF OnPage
  <2> QED BY <1>2, <2>1, <2>3, PageOfBlock
<1>9. OnPage(h, p) /\ PageOf(h) = p /\ OnPage(r, p) /\ PageOf(r) = p
  <2>1. /\ w.addr <= h.addr /\ h.addr + h.size <= w.addr + w.size
        /\ w.addr <= r.addr /\ r.addr + r.size <= w.addr + w.size
    BY <1>2 DEF Cut, HBlocks
  <2> QED BY <1>2, <1>4, <1>8, <2>1, PartOnPage
<1>10. Small(h) /\ Small(r)
  BY <1>3, <1>8, <1>9 DEF Small
<1>11. Sound((L \ {w}) \cup {h}, F \cup {r}, P)
  BY <1>1, <1>3, <1>4, <1>6, <1>10 DEF Sound
<1>12. \A d \in F : PageOf(d) # p
  <2>1. SUFFICES ASSUME NEW d \in F, PageOf(d) = p PROVE FALSE
    OBVIOUS
  <2>2. d \in HBlocks /\ d.addr \in Nat /\ d.addr \in Units(d) /\ d.addr \div PAGE_SIZE = p
    BY <1>2, <2>1, UnitsOf DEF PageOf, HBlocks
  <2>3. d.addr \in Units(w)
    <3>1. p \in p..(p + 1 - 1)
      BY <1>2
    <3> QED BY <1>2, <2>2, <3>1, WholePages
  <2> QED BY <1>1, <1>2, <2>1, <2>2, <2>3 DEF Disjoint
<1>13. Apart(F \cup {r})
  <2>1. r.addr + r.size # r.addr
    BY <1>4 DEF HBlocks
  <2> QED BY <1>1, <1>9, <1>12, <2>1 DEF Apart
<1>14. Used((L \ {w}) \cup {h}, P)
  <2>1. SUFFICES ASSUME NEW q \in TakenPages(P) PROVE \E d \in (L \ {w}) \cup {h} : UsedBy(d, q)
    BY DEF Used, UsedBy
  <2>2. PICK d \in L : UsedBy(d, q)
    BY <1>1 DEF Used, UsedBy
  <2>3. CASE d = w
    <3>1. q = p
      BY <1>2, <1>8, <2>2, <2>3, UsedPages DEF TakenPages
    <3> QED BY <1>9, <3>1 DEF UsedBy
  <2>4. CASE d # w
    BY <2>2, <2>4
  <2> QED BY <2>3, <2>4
<1> QED BY <1>5, <1>6, <1>7, <1>11, <1>13, <1>14 DEF Tiling

\* xfree of a block of whole pages.
LEMMA ReturnLive ==
  ASSUME NEW L, NEW F, NEW P, Tiling(L, F, P), NEW b \in L, NEW p, NEW n, Whole(b, p, n)
  PROVE  Tiling(L \ {b}, F, P \cup PagesFrom(p, n))
<1>1. Sound(L, F, P) /\ Disjoint(L \cup F) /\ Covers(L \cup F, P) /\ Apart(F) /\ Used(L, P)
  BY DEF Tiling
<1>2. L \cup F \in SUBSET HBlocks /\ P \in SUBSET (0..(NumPages - 1)) /\ b \in L \cup F /\ b \notin F
  BY <1>1 DEF Sound
<1>3. /\ Disjoint((L \cup F) \ {b}) /\ Covers((L \cup F) \ {b}, P \cup PagesFrom(p, n))
      /\ PagesFrom(p, n) \subseteq TakenPages(P)
  BY <1>1, <1>2, Give
<1>4. (L \cup F) \ {b} = (L \ {b}) \cup F
  BY <1>2
<1>5. Sound(L \ {b}, F, P \cup PagesFrom(p, n))
  BY <1>1, <1>3 DEF Sound, TakenPages
<1>6. Used(L \ {b}, P \cup PagesFrom(p, n))
  <2>1. SUFFICES ASSUME NEW q \in TakenPages(P \cup PagesFrom(p, n)) PROVE \E d \in L \ {b} : UsedBy(d, q)
    BY DEF Used, UsedBy
  <2>2. q \in TakenPages(P) /\ q \notin PagesFrom(p, n) /\ q \in Nat
    BY <2>1 DEF TakenPages
  <2>3. PICK d \in L : UsedBy(d, q)
    BY <1>1, <2>2 DEF Used, UsedBy
  <2> QED BY <1>2, <2>2, <2>3, UsedPages
<1> QED BY <1>1, <1>3, <1>4, <1>5, <1>6 DEF Tiling

-----------------------------------------------------------------------------
(* xfree of a block smaller than a page *)

\* Block m has the units of b and of the blocks M among the free ones, on the page of b.
MergedInto(m, b, M, F) == M \in SUBSET F /\ m \in HBlocks /\ OnPage(m, PageOf(b)) /\ SameUnits({b} \cup M, {m})
\* No block of R is next to m, of page p.
NoneNext(m, R, p) ==
  \A d \in R : PageOf(d) = p => d.addr + d.size # m.addr /\ m.addr + m.size # d.addr

\* Block m is in the place of b and M.
TilesWith(L, F, P, b, M, m) ==
  /\ Disjoint((L \ {b}) \cup (F \ M) \cup {m}) /\ Covers((L \ {b}) \cup (F \ M) \cup {m}, P)
  /\ m \notin L \ {b} /\ m \notin F \ M
  /\ \A d \in (L \ {b}) \cup (F \ M) : \A u \in Nat : ~(u \in Units(d) /\ u \in Units(m))

\* The merged block takes the place of its parts.
LEMMA MergedTiles ==
  ASSUME NEW L, NEW F, NEW P, Tiling(L, F, P), NEW b \in L, Small(b), NEW M, NEW m, MergedInto(m, b, M, F)
  PROVE  TilesWith(L, F, P, b, M, m)
<1>1. Sound(L, F, P) /\ Disjoint(L \cup F) /\ Covers(L \cup F, P)
  BY DEF Tiling
<1>2. PICK T \in SUBSET HBlocks : T = L \cup F
  BY <1>1 DEF Sound
<1>3. PICK O \in SUBSET T : O = {b} \cup M
  BY <1>2 DEF MergedInto
<1>4. PICK N \in SUBSET HBlocks : N = {m}
  BY DEF MergedInto
<1>5. Disjoint(T) /\ Covers(T, P) /\ Disjoint(N) /\ SameUnits(O, N)
  BY <1>1, <1>2, <1>3, <1>4 DEF Disjoint, MergedInto
<1>6. /\ Disjoint((T \ O) \cup N) /\ Covers((T \ O) \cup N, P) /\ (T \ O) \cap N = {}
      /\ \A d \in T \ O, e \in N : \A u \in Nat : ~(u \in Units(d) /\ u \in Units(e))
  <2>1. Exchanged(T, P, O, N)
    BY <1>5, Exchange
  <2> QED BY <2>1 DEF Exchanged
<1>7. T \ O = (L \ {b}) \cup (F \ M) /\ (T \ O) \cup N = (L \ {b}) \cup (F \ M) \cup {m}
  BY <1>1, <1>2, <1>3, <1>4 DEF Sound, MergedInto
<1> QED BY <1>4, <1>6, <1>7 DEF TilesWith

\* Live blocks other than b are for pages other than b's, or b's page has another.
LEMMA OtherPages ==
  ASSUME NEW L, NEW F, NEW P, Tiling(L, F, P), NEW b \in L, Small(b), NEW q \in TakenPages(P), q # PageOf(b)
  PROVE  \E d \in L \ {b} : UsedBy(d, q)
<1>1. Sound(L, F, P) /\ Used(L, P)
  BY DEF Tiling
<1>2. b \in HBlocks /\ PageOf(b) \in Nat /\ OnPage(b, PageOf(b)) /\ q \in Nat
  BY <1>1, UnitsOf DEF Sound, Small, TakenPages
<1>3. PICK d \in L : UsedBy(d, q)
  BY <1>1 DEF Used, UsedBy
<1> QED BY <1>2, <1>3, UsedPages

\* The merged block is a free block: its page is not all free, and a live block
\* is on it.
LEMMA FreeBlock ==
  ASSUME NEW L, NEW F, NEW P, Tiling(L, F, P), NEW b \in L, Small(b), NEW M, NEW m,
         MergedInto(m, b, M, F), NoneNext(m, F \ M, PageOf(b)), m.size # PAGE_SIZE
  PROVE  Tiling(L \ {b}, (F \ M) \cup {m}, P) /\ m \notin F \ M
<1>1. Sound(L, F, P) /\ Disjoint(L \cup F) /\ Covers(L \cup F, P) /\ Apart(F) /\ Used(L, P)
  BY DEF Tiling
<1> DEFINE S == (L \ {b}) \cup (F \ M) \cup {m}
           p == PageOf(b)
<1>2. /\ Disjoint(S) /\ Covers(S, P) /\ m \notin L \ {b} /\ m \notin F \ M
      /\ \A d \in (L \ {b}) \cup (F \ M) : \A u \in Nat : ~(u \in Units(d) /\ u \in Units(m))
  <2> HIDE DEF S, p
  <2>1. /\ Disjoint((L \ {b}) \cup (F \ M) \cup {m}) /\ Covers((L \ {b}) \cup (F \ M) \cup {m}, P)
        /\ m \notin L \ {b} /\ m \notin F \ M
        /\ \A d \in (L \ {b}) \cup (F \ M) : \A u \in Nat : ~(u \in Units(d) /\ u \in Units(m))
    <3>1. TilesWith(L, F, P, b, M, m)
      BY MergedTiles
    <3> QED BY <3>1 DEF TilesWith
  <2> QED BY <2>1 DEF S
<1>3. b \in HBlocks /\ p \in Nat /\ m \in HBlocks /\ OnPage(m, p) /\ PageOf(m) = p
  BY <1>1, UnitsOf, PageOfBlock DEF Sound, MergedInto
<1> HIDE DEF p
<1>4. /\ m.addr \in Nat /\ m.size \in Nat \ {0} /\ PAGE_SIZE * p \in Nat /\ PAGE_SIZE \in Nat
      /\ PAGE_SIZE * p <= m.addr /\ m.addr + m.size <= PAGE_SIZE * p + PAGE_SIZE /\ m.size < PAGE_SIZE
  BY <1>3, PageSizes DEF OnPage, HBlocks
<1>5. Small(m)
  BY <1>3, <1>4 DEF Small
<1>6. Sound(L \ {b}, (F \ M) \cup {m}, P)
  BY <1>1, <1>2, <1>3, <1>5 DEF Sound
<1>7. Apart((F \ M) \cup {m})
  <2>1. m.addr + m.size # m.addr
    BY <1>4
  <2> QED BY <1>1, <1>3, <2>1 DEF Apart, NoneNext, p
<1>8. ASSUME NEW u \in Nat, u \div PAGE_SIZE = p, u = m.addr + m.size \/ u = m.addr - 1
      PROVE  \E d \in L \ {b} : UsedBy(d, p)
  <2>1. p \in TakenPages(P)
    <3>1. b \in L \cup F /\ b.addr \in Nat /\ b.addr \in Units(b) /\ b.addr \div PAGE_SIZE = p
      BY <1>3, UnitsOf DEF PageOf, HBlocks, p
    <3> QED BY <1>1, <3>1 DEF Covers
  <2>2. PICK d \in S : u \in Units(d)
    BY <1>2, <1>8, <2>1 DEF Covers
  <2>3. d # m
    BY <1>3, <1>4, <1>8, <2>2, UnitsOf
  <2>4. d \in (L \ {b}) \cup (F \ M) /\ d \in HBlocks /\ (Small(d) \/ Large(d))
    BY <1>1, <2>2, <2>3 DEF Sound
  <2>5. ~ \A x \in Nat : x \div PAGE_SIZE = p => x \in Units(d)
    <3>1. m.addr \in Nat /\ m.addr \in Units(m) /\ m.addr \div PAGE_SIZE = p
      BY <1>3, UnitsOf DEF PageOf, HBlocks
    <3> QED BY <1>2, <2>4, <3>1
  <2>6. Small(d) /\ PageOf(d) = p
    BY <1>3, <1>8, <2>2, <2>4, <2>5, UnitOnPage
  <2>7. d \notin F \ M
    <3>1. SUFFICES ASSUME d \in F \ M PROVE FALSE
      OBVIOUS
    <3>2. d.addr + d.size # m.addr /\ m.addr + m.size # d.addr
      BY <2>6, <3>1 DEF NoneNext, p
    <3>3. d.addr \in Nat /\ d.size \in Nat \ {0} /\ d.addr <= u /\ u < d.addr + d.size
      BY <2>2, <2>4, UnitsOf DEF HBlocks
    <3>4. CASE u = m.addr + m.size
      <4>1. PICK v \in Nat : v = u - 1
        BY <1>4, <3>4
      <4>2. v \in Units(m) /\ v \in Units(d)
        BY <1>3, <1>4, <2>4, <3>2, <3>3, <3>4, <4>1, UnitsOf
      <4> QED BY <1>2, <2>4, <4>2
    <3>5. CASE u = m.addr - 1
      <4>1. m.addr \in Units(m) /\ m.addr \in Units(d)
        BY <1>3, <1>4, <2>4, <3>2, <3>3, <3>5, UnitsOf
      <4> QED BY <1>2, <1>4, <2>4, <4>1
    <3> QED BY <1>8, <3>4, <3>5
  <2> QED BY <2>4, <2>6, <2>7 DEF UsedBy
<1>9. Used(L \ {b}, P)
  <2>1. SUFFICES ASSUME NEW q \in TakenPages(P) PROVE \E d \in L \ {b} : UsedBy(d, q)
    BY DEF Used, UsedBy
  <2>2. CASE q # p
    BY <2>2, OtherPages DEF p
  <2>3. CASE q = p
    <3>1. CASE m.addr > PAGE_SIZE * p
      <4>1. PICK u \in Nat : u = m.addr - 1
        BY <1>4, <3>1
      <4>2. PAGE_SIZE * p <= u /\ u < PAGE_SIZE * p + PAGE_SIZE
        BY <1>4, <3>1, <4>1
      <4> QED BY <1>3, <1>8, <2>3, <4>1, <4>2, UnitPage
    <3>2. CASE m.addr = PAGE_SIZE * p
      <4>1. PICK u \in Nat : u = m.addr + m.size
        BY <1>4
      <4>2. PAGE_SIZE * p <= u /\ u < PAGE_SIZE * p + PAGE_SIZE
        BY <1>4, <3>2, <4>1
      <4> QED BY <1>3, <1>8, <2>3, <4>1, <4>2, UnitPage
    <3> QED BY <1>4, <3>1, <3>2
  <2> QED BY <2>2, <2>3
<1>10. S = (L \ {b}) \cup ((F \ M) \cup {m})
  OBVIOUS
<1> QED BY <1>2, <1>6, <1>7, <1>9, <1>10 DEF Tiling

\* The merged block is a page: it goes back to the page allocator.
LEMMA FreePage ==
  ASSUME NEW L, NEW F, NEW P, Tiling(L, F, P), NEW b \in L, Small(b), NEW M, NEW m,
         MergedInto(m, b, M, F), m.size = PAGE_SIZE
  PROVE  Tiling(L \ {b}, F \ M, P \cup {PageOf(b)})
<1>1. Sound(L, F, P) /\ Disjoint(L \cup F) /\ Covers(L \cup F, P) /\ Apart(F) /\ Used(L, P)
  BY DEF Tiling
<1> DEFINE R == (L \ {b}) \cup (F \ M)
           p == PageOf(b)
<1>2. /\ Disjoint(R \cup {m}) /\ Covers(R \cup {m}, P) /\ m \notin R
  <2> HIDE DEF R, p
  <2>1. /\ Disjoint((L \ {b}) \cup (F \ M) \cup {m}) /\ Covers((L \ {b}) \cup (F \ M) \cup {m}, P)
        /\ m \notin L \ {b} /\ m \notin F \ M
    <3>1. TilesWith(L, F, P, b, M, m)
      BY MergedTiles
    <3> QED BY <3>1 DEF TilesWith
  <2> QED BY <2>1 DEF R
<1>3. p \in Nat /\ m \in HBlocks /\ OnPage(m, p) /\ R \in SUBSET HBlocks /\ P \in SUBSET (0..(NumPages - 1))
  BY <1>1, UnitsOf DEF Sound, MergedInto
<1>4. Whole(m, p, 1)
  <2>1. /\ m.addr \in Nat /\ PAGE_SIZE * p \in Nat /\ PAGE_SIZE \in Nat /\ PAGE_SIZE * 1 = PAGE_SIZE
        /\ PAGE_SIZE * p <= m.addr /\ m.addr + m.size <= PAGE_SIZE * p + PAGE_SIZE
    BY <1>3, PageSizes DEF OnPage, HBlocks
  <2> QED BY <1>3, <2>1 DEF Whole
<1>5. PICK T \in SUBSET HBlocks : T = R \cup {m}
  BY <1>3
<1>6. /\ Disjoint(T \ {m}) /\ Covers(T \ {m}, P \cup PagesFrom(p, 1)) /\ PagesFrom(p, 1) \subseteq TakenPages(P)
  <2>1. m \in T /\ Disjoint(T) /\ Covers(T, P)
    BY <1>2, <1>5
  <2> QED BY <1>3, <1>4, <2>1, Give
<1>7. T \ {m} = R /\ PagesFrom(p, 1) = {p}
  BY <1>2, <1>3, <1>5 DEF PagesFrom
<1> HIDE DEF p
<1>8. Sound(L \ {b}, F \ M, P \cup {p})
  BY <1>1, <1>6, <1>7 DEF Sound, TakenPages
<1>9. Apart(F \ M)
  BY <1>1 DEF Apart
<1>10. Used(L \ {b}, P \cup {p})
  <2>1. SUFFICES ASSUME NEW q \in TakenPages(P \cup {p}) PROVE \E d \in L \ {b} : UsedBy(d, q)
    BY DEF Used, UsedBy
  <2>2. q \in TakenPages(P) /\ q # p
    BY <2>1 DEF TakenPages
  <2> QED BY <2>2, OtherPages DEF p
<1> QED BY <1>6, <1>7, <1>8, <1>9, <1>10 DEF Tiling, p

Accs == [hdr : HBlocks, list : Seq(HBlocks)]
Merging(g, b) ==
  g = [i \in 0..Len(freelist) |->
         IF i = 0 THEN [hdr |-> b, list |-> << >>] ELSE Merge(g[i - 1], freelist[i])]

\* Merging passes from one pair of a block and a list to the next.
LEMMA MergeInAccs ==
  ASSUME NEW acc \in Accs, NEW i \in HBlocks
  PROVE  Merge(acc, i) \in Accs
<1>1. /\ acc = [hdr |-> acc.hdr, list |-> acc.list] /\ acc.hdr \in HBlocks /\ acc.list \in Seq(HBlocks)
  BY DEF Accs
<1>2. Append(acc.list, i) \in Seq(HBlocks)
  BY <1>1
<1>3. Block(i.addr, i.size + acc.hdr.size) \in HBlocks /\ Block(acc.hdr.addr, acc.hdr.size + i.size) \in HBlocks
  BY <1>1 DEF HBlocks, Block
<1>4. \/ Merge(acc, i) = [hdr |-> acc.hdr, list |-> Append(acc.list, i)]
      \/ Merge(acc, i) = [hdr |-> Block(i.addr, i.size + acc.hdr.size), list |-> acc.list]
      \/ Merge(acc, i) = [hdr |-> Block(acc.hdr.addr, acc.hdr.size + i.size), list |-> acc.list]
  BY <1>1 DEF Merge, Accs
<1> QED BY <1>1, <1>2, <1>3, <1>4 DEF Accs

\* Merging goes through the free list from its first block to its last.
LEMMA MergedRuns ==
  ASSUME freelist \in Seq(HBlocks), NEW b \in HBlocks
  PROVE  \E g : Merging(g, b) /\ Merged(b) = g[Len(freelist)]
<1>1. PICK n \in Nat : n = Len(freelist)
  OBVIOUS
<1>2. PICK x \in Accs : x = [hdr |-> b, list |-> << >>]
  <2>1. << >> \in Seq(HBlocks)
    OBVIOUS
  <2> QED BY <2>1 DEF Accs
<1> DEFINE F == [i \in 1..n |-> [acc \in Accs |-> Merge(acc, freelist[i])]]
<1>3. F \in [1..n -> [Accs -> Accs]]
  <2>1. ASSUME NEW i \in 1..n, NEW acc \in Accs PROVE Merge(acc, freelist[i]) \in Accs
    <3>1. freelist[i] \in HBlocks
      BY <1>1
    <3> QED BY <3>1, MergeInAccs
  <2> QED BY <2>1
<1>4. \A i \in 1..n : \A acc \in Accs : F[i][acc] = Merge(acc, freelist[i])
  OBVIOUS
<1> HIDE DEF F
<1>5. PICK w \in [0..n -> Accs] : Iterates(w, n, x, F)
  BY <1>3, Recursion
<1>6. Merging(w, b)
  <2>1. ASSUME NEW i \in 0..n
        PROVE  w[i] = IF i = 0 THEN [hdr |-> b, list |-> << >>] ELSE Merge(w[i - 1], freelist[i])
    <3>1. CASE i = 0
      BY <1>2, <1>5, <3>1 DEF Iterates
    <3>2. CASE i # 0
      <4>1. i \in 1..n /\ w[i - 1] \in Accs
        BY <1>1, <3>2
      <4> QED BY <1>4, <1>5, <3>2, <4>1 DEF Iterates
    <3> QED BY <3>1, <3>2
  <2> QED BY <1>1, <2>1 DEF Merging
<1> DEFINE acc[i \in 0..Len(freelist)] ==
             IF i = 0 THEN [hdr |-> b, list |-> << >>] ELSE Merge(acc[i - 1], freelist[i])
<1>7. Merged(b) = acc[Len(freelist)]
  BY DEF Merged
<1>8. acc = [i \in 0..Len(freelist) |->
               IF i = 0 THEN [hdr |-> b, list |-> << >>] ELSE Merge(acc[i - 1], freelist[i])]
  BY <1>6 DEF Merging
<1> HIDE DEF acc
<1> QED BY <1>7, <1>8 DEF Merging

\* The first k free blocks.
First(k) == {freelist[i] : i \in 1..k}
\* Among them, those merged with b are gone from the list and no other is next to
\* what b has become.
MergeState(acc, b, k) ==
  \E hdr, list, K :
    /\ acc = [hdr |-> hdr, list |-> list] /\ IsList(list, HBlocks, K) /\ K \subseteq First(k)
    /\ MergedInto(hdr, b, First(k) \ K, First(k)) /\ NoneNext(hdr, K, PageOf(b))

\* Two blocks of page p, one behind the other, become one.
Joins(m, b, d, p) == m \in HBlocks /\ OnPage(m, p) /\ \A u \in Nat : u \in Units(m) <=> u \in Units(b) \/ u \in Units(d)
LEMMA TwoBlocks ==
  ASSUME NEW b \in HBlocks, NEW d \in HBlocks, NEW p \in Nat, OnPage(b, p), OnPage(d, p),
         b.addr + b.size = d.addr, NEW m, m = Block(b.addr, b.size + d.size)
  PROVE  Joins(m, b, d, p)
<1>1. /\ b.addr \in Nat /\ b.size \in Nat \ {0} /\ d.addr \in Nat /\ d.size \in Nat \ {0}
      /\ m.addr = b.addr /\ m.size = b.size + d.size /\ PAGE_SIZE * p \in Nat /\ PAGE_SIZE \in Nat
  BY PageSizes DEF HBlocks, Block
<1>2. m \in HBlocks
  BY <1>1 DEF HBlocks, Block
<1>3. /\ \A u : u \in Units(m) <=> u \in Nat /\ m.addr <= u /\ u < m.addr + m.size
      /\ \A u : u \in Units(b) <=> u \in Nat /\ b.addr <= u /\ u < b.addr + b.size
      /\ \A u : u \in Units(d) <=> u \in Nat /\ d.addr <= u /\ u < d.addr + d.size
  BY <1>2, UnitsOf
<1>4. \A u \in Nat : u \in Units(m) <=> u \in Units(b) \/ u \in Units(d)
  BY <1>1, <1>3
<1>5. OnPage(m, p)
  BY <1>1 DEF OnPage
<1> QED BY <1>2, <1>4, <1>5 DEF Joins

\* A block next to what b has become is merged with it.
LEMMA MergeOneMore ==
  ASSUME NEW hdr, NEW b, NEW M, NEW A, MergedInto(hdr, b, M, A), NEW p \in Nat, p = PageOf(b),
         NEW i \in HBlocks, OnPage(i, p), NEW m,
         \/ i.addr + i.size = hdr.addr /\ m = Block(i.addr, i.size + hdr.size)
         \/ hdr.addr + hdr.size = i.addr /\ m = Block(hdr.addr, hdr.size + i.size)
  PROVE  MergedInto(m, b, M \cup {i}, A \cup {i})
<1>1. M \in SUBSET A /\ hdr \in HBlocks /\ OnPage(hdr, p) /\ SameUnits({b} \cup M, {hdr})
  BY DEF MergedInto
<1>2. m \in HBlocks /\ OnPage(m, p) /\ \A u \in Nat : u \in Units(m) <=> u \in Units(i) \/ u \in Units(hdr)
  <2>1. CASE i.addr + i.size = hdr.addr /\ m = Block(i.addr, i.size + hdr.size)
    <3>1. hdr \in HBlocks /\ OnPage(hdr, p)
      BY <1>1
    <3>2. Joins(m, i, hdr, p)
      BY <2>1, <3>1, TwoBlocks
    <3> QED BY <3>2 DEF Joins
  <2>2. CASE hdr.addr + hdr.size = i.addr /\ m = Block(hdr.addr, hdr.size + i.size)
    <3>1. hdr \in HBlocks /\ OnPage(hdr, p)
      BY <1>1
    <3>2. Joins(m, hdr, i, p)
      BY <2>2, <3>1, TwoBlocks
    <3> QED BY <3>2 DEF Joins
  <2> QED BY <2>1, <2>2
<1>3. SameUnits({b} \cup (M \cup {i}), {m})
  BY <1>1, <1>2 DEF SameUnits, HasUnit
<1> QED BY <1>1, <1>2, <1>3 DEF MergedInto

\* One pass is enough: what a merge brings next to b's block was next to a free
\* block before, and free blocks are not next to one another.
LEMMA MergeKept ==
  ASSUME NEW F, IsList(freelist, HBlocks, F), Apart(F), \A f \in F : Small(f),
         NEW b \in HBlocks, Small(b), NEW k \in 0..(Len(freelist) - 1), NEW acc, MergeState(acc, b, k)
  PROVE  MergeState(Merge(acc, freelist[k + 1]), b, k + 1)
<1>1. /\ freelist \in Seq(HBlocks) /\ NoRepeats(freelist) /\ ToSet(freelist) = F /\ k \in Nat
      /\ Len(freelist) \in Nat /\ k + 1 \in 1..Len(freelist)
  BY DEF IsList
<1>2. PICK i \in HBlocks : i = freelist[k + 1]
  BY <1>1
<1>3. /\ First(k + 1) = First(k) \cup {i} /\ i \notin First(k) /\ i \in F /\ First(k) \subseteq F
  <2>1. ASSUME NEW e PROVE e \in First(k + 1) <=> e \in First(k) \cup {i}
    BY <1>1, <1>2 DEF First
  <2>2. i \notin First(k)
    BY <1>1, <1>2 DEF First, NoRepeats
  <2>3. i \in F /\ First(k) \subseteq F
    BY <1>1, <1>2, ListElements DEF First
  <2> QED BY <2>1, <2>2, <2>3
<1>4. PICK hdr, list, K :
        /\ acc = [hdr |-> hdr, list |-> list] /\ IsList(list, HBlocks, K) /\ K \subseteq First(k)
        /\ MergedInto(hdr, b, First(k) \ K, First(k)) /\ NoneNext(hdr, K, PageOf(b))
  BY DEF MergeState
<1>5. PICK p \in Nat : p = PageOf(b)
  BY UnitsOf
<1>6. hdr \in HBlocks /\ OnPage(hdr, p) /\ PageOf(hdr) = p
  BY <1>4, <1>5, PageOfBlock DEF MergedInto
<1>7. OnPage(i, PageOf(i)) /\ Small(i)
  BY <1>3 DEF Small
<1>8. First(k) \ K = First(k + 1) \ (K \cup {i}) /\ (First(k) \ K) \cup {i} = First(k + 1) \ K
  BY <1>3, <1>4
<1>9. CASE /\ Merge(acc, i) = [hdr |-> hdr, list |-> Append(list, i)]
           /\ PageOf(i) = p => i.addr + i.size # hdr.addr /\ hdr.addr + hdr.size # i.addr
  <2>1. IsList(Append(list, i), HBlocks, K \cup {i})
    BY <1>3, <1>4, ListAppend
  <2>2. NoneNext(hdr, K \cup {i}, PageOf(b))
    BY <1>4, <1>5, <1>9 DEF NoneNext
  <2>3. K \cup {i} \subseteq First(k + 1)
    BY <1>3, <1>4
  <2>4. MergedInto(hdr, b, First(k + 1) \ (K \cup {i}), First(k + 1))
    BY <1>3, <1>4, <1>8 DEF MergedInto
  <2> QED BY <1>2, <1>9, <2>1, <2>2, <2>3, <2>4 DEF MergeState
<1>10. ASSUME NEW m, Merge(acc, i) = [hdr |-> m, list |-> list], PageOf(i) = p,
              \/ i.addr + i.size = hdr.addr /\ m = Block(i.addr, i.size + hdr.size)
              \/ hdr.addr + hdr.size = i.addr /\ m = Block(hdr.addr, hdr.size + i.size)
       PROVE  MergeState(Merge(acc, i), b, k + 1)
  <2>1. PICK M, A : M = First(k) \ K /\ A = First(k)
    OBVIOUS
  <2>2. MergedInto(m, b, M \cup {i}, A \cup {i})
    BY <1>4, <1>5, <1>7, <1>10, <2>1, MergeOneMore
  <2>3. MergedInto(m, b, First(k + 1) \ K, First(k + 1))
    BY <1>3, <1>8, <2>1, <2>2
  <2>4. ASSUME NEW d \in K, PageOf(d) = p PROVE d.addr + d.size # m.addr /\ m.addr + m.size # d.addr
    <3>1. d \in F /\ d.addr + d.size # hdr.addr /\ hdr.addr + hdr.size # d.addr
      BY <1>3, <1>4, <1>5, <2>4 DEF NoneNext
    <3>2. d.addr + d.size # i.addr /\ i.addr + i.size # d.addr
      BY <1>3, <1>10, <2>4, <3>1 DEF Apart
    <3>3. i.addr \in Nat /\ i.size \in Nat /\ hdr.addr \in Nat /\ hdr.size \in Nat
      BY <1>6 DEF HBlocks
    <3>4. \/ m.addr = i.addr /\ m.addr + m.size = hdr.addr + hdr.size
          \/ m.addr = hdr.addr /\ m.addr + m.size = i.addr + i.size
      <4>1. CASE i.addr + i.size = hdr.addr /\ m = Block(i.addr, i.size + hdr.size)
        <5>1. m.addr = i.addr /\ m.size = i.size + hdr.size
          BY <4>1 DEF Block
        <5> QED BY <3>3, <4>1, <5>1
      <4>2. CASE hdr.addr + hdr.size = i.addr /\ m = Block(hdr.addr, hdr.size + i.size)
        <5>1. m.addr = hdr.addr /\ m.size = hdr.size + i.size
          BY <4>2 DEF Block
        <5> QED BY <3>3, <4>2, <5>1
      <4> QED BY <1>10, <4>1, <4>2
    <3> QED BY <3>1, <3>2, <3>4
  <2>5. NoneNext(m, K, PageOf(b))
    BY <1>5, <2>4 DEF NoneNext
  <2>6. K \subseteq First(k + 1)
    BY <1>3, <1>4
  <2> QED BY <1>4, <1>10, <2>3, <2>5, <2>6 DEF MergeState
<1>11. CASE PageOf(i) # p
  BY <1>4, <1>6, <1>9, <1>11 DEF Merge
<1>12. CASE PageOf(i) = p /\ i.addr + i.size = hdr.addr
  <2>1. Merge(acc, i) = [hdr |-> Block(i.addr, i.size + hdr.size), list |-> list]
    BY <1>4, <1>6, <1>12 DEF Merge
  <2> QED BY <1>2, <1>10, <1>12, <2>1
<1>13. CASE PageOf(i) = p /\ i.addr + i.size # hdr.addr /\ hdr.addr + hdr.size = i.addr
  <2>1. Merge(acc, i) = [hdr |-> Block(hdr.addr, hdr.size + i.size), list |-> list]
    BY <1>4, <1>6, <1>13 DEF Merge
  <2> QED BY <1>2, <1>10, <1>13, <2>1
<1>14. CASE PageOf(i) = p /\ i.addr + i.size # hdr.addr /\ hdr.addr + hdr.size # i.addr
  <2>1. Merge(acc, i) = [hdr |-> hdr, list |-> Append(list, i)]
    BY <1>4, <1>6, <1>14 DEF Merge
  <2> QED BY <1>9, <1>14, <2>1
<1> QED BY <1>11, <1>12, <1>13, <1>14

\* What xfree's loop leaves.
LEMMA MergedLeaves ==
  ASSUME NEW F, IsList(freelist, HBlocks, F), Apart(F), \A f \in F : Small(f), NEW b \in HBlocks, Small(b)
  PROVE  \E M : /\ MergedInto(Merged(b).hdr, b, M, F) /\ NoneNext(Merged(b).hdr, F \ M, PageOf(b))
                /\ IsList(Merged(b).list, HBlocks, F \ M)
<1>1. freelist \in Seq(HBlocks) /\ ToSet(freelist) = F
  BY DEF IsList
<1>2. PICK n \in Nat : n = Len(freelist)
  BY <1>1
<1>3. PICK g : Merging(g, b) /\ Merged(b) = g[n]
  BY <1>1, <1>2, MergedRuns
<1> DEFINE H == {k \in 0..n : MergeState(g[k], b, k)}
<1>4. 0 \in H
  <2>1. g[0] = [hdr |-> b, list |-> << >>]
    BY <1>2, <1>3 DEF Merging
  <2>2. IsList(<< >>, HBlocks, {})
    <3>1. << >> \in Seq(HBlocks) /\ Len(<< >>) = 0 /\ NoRepeats(<< >>)
      BY DEF NoRepeats
    <3>2. \A e : e \notin ToSet(<< >>)
      BY DEF ToSet
    <3> QED BY <3>1, <3>2 DEF IsList
  <2>3. First(0) = {}
    BY DEF First
  <2>4. MergedInto(b, b, First(0) \ {}, First(0)) /\ NoneNext(b, {}, PageOf(b))
    BY <2>3 DEF MergedInto, SameUnits, HasUnit, NoneNext, Small
  <2>5. MergeState(g[0], b, 0)
    BY <2>1, <2>2, <2>3, <2>4 DEF MergeState
  <2> QED BY <2>5
<1>5. ASSUME NEW k \in 0..(n - 1), k \in H PROVE k + 1 \in H
  <2>1. g[k + 1] = Merge(g[k], freelist[k + 1])
    <3>1. k + 1 \in 0..Len(freelist) /\ k + 1 # 0 /\ (k + 1) - 1 = k
      BY <1>2
    <3> QED BY <1>3, <3>1 DEF Merging
  <2>2. MergeState(g[k], b, k)
    BY <1>5
  <2>3. MergeState(Merge(g[k], freelist[k + 1]), b, k + 1)
    BY <1>2, <2>2, MergeKept
  <2> QED BY <2>1, <2>3
<1> HIDE DEF H
<1>6. 0..n \subseteq H
  BY <1>4, <1>5, Upward
<1>7. MergeState(Merged(b), b, n)
  <2>1. n \in H
    BY <1>6
  <2> QED BY <1>3, <2>1 DEF H
<1>8. First(n) = F
  BY <1>1, <1>2, ListElements DEF First
<1>9. PICK hdr, list, K :
        /\ Merged(b) = [hdr |-> hdr, list |-> list] /\ IsList(list, HBlocks, K) /\ K \subseteq First(n)
        /\ MergedInto(hdr, b, First(n) \ K, First(n)) /\ NoneNext(hdr, K, PageOf(b))
  BY <1>7 DEF MergeState
<1>10. PICK M : M = F \ K
  OBVIOUS
<1>11. F \ M = K
  BY <1>8, <1>9, <1>10
<1>12. Merged(b).hdr = hdr /\ Merged(b).list = list
  BY <1>9
<1>13. MergedInto(hdr, b, M, F)
  BY <1>8, <1>9, <1>10
<1>14. NoneNext(hdr, F \ M, PageOf(b)) /\ IsList(list, HBlocks, F \ M)
  BY <1>9, <1>11
<1> QED BY <1>12, <1>13, <1>14

-----------------------------------------------------------------------------
(* The heap's invariant *)

HeapOf(list, L, P) == \E F : IsList(list, HBlocks, F) /\ Tiling(L, F, P)
\* What threads need and reallocate: a block of less than a page, a live block
\* that no other thread reallocates.
CallsFit(w, o, L) ==
  /\ w \in [XmThreads -> Nat] /\ \A t \in XmThreads : w[t] < PAGE_SIZE
  /\ o \in [XmThreads -> L \cup {NoBlock}]
  /\ \A t, s \in XmThreads : o[t] # NoBlock /\ t # s => o[s] # o[t]
HeapInv == HeapOf(freelist, live, free_pages) /\ CallsFit(want, old, live)

\* No page is taken at first.
LEMMA HeapStarts == XmInit => HeapInv
<1> SUFFICES ASSUME XmInit PROVE HeapInv
  OBVIOUS
<1>1. freelist = << >> /\ live = {} /\ free_pages = 0..(NumPages - 1)
  BY DEF XmInit
<1>2. IsList(<< >>, HBlocks, {})
  <2>1. << >> \in Seq(HBlocks) /\ Len(<< >>) = 0 /\ NoRepeats(<< >>)
    BY DEF NoRepeats
  <2>2. \A e : e \notin ToSet(<< >>)
    BY DEF ToSet
  <2> QED BY <2>1, <2>2 DEF IsList
<1>3. TakenPages(0..(NumPages - 1)) = {}
  BY DEF TakenPages
<1>4. Tiling({}, {}, 0..(NumPages - 1))
  BY <1>3 DEF Tiling, Sound, Disjoint, Covers, Apart, Used
<1>5. CallsFit(want, old, {})
  BY PageSizes DEF CallsFit, XmInit
<1> QED BY <1>1, <1>2, <1>4, <1>5 DEF HeapInv, HeapOf

\* A split of a block, or none.
SplitOf(d, list, s) ==
  \/ s = [hdr |-> d, list |-> list]
  \/ \E h, r : Cut(d, h, r) /\ s = [hdr |-> h, list |-> <<r>> \o list]
LEMMA Splits ==
  ASSUME NEW addr \in Nat, NEW size \in Nat \ {0}, NEW whole \in Nat \ {0}, NEW list, NEW d, d = Block(addr, whole)
  PROVE  SplitOf(d, list, maybe_split(addr, size, whole, list))
<1>1. CASE whole - size >= 2 * HDR
  <2>1. PICK h, r : h = Block(addr, size) /\ r = Block(addr + size, whole - size)
    OBVIOUS
  <2>2. whole - size \in Nat \ {0}
    BY <1>1, PageSizes
  <2>3. Cut(d, h, r)
    BY <2>1, <2>2 DEF Cut, HBlocks, Block
  <2>4. maybe_split(addr, size, whole, list) = [hdr |-> h, list |-> <<r>> \o list]
    BY <1>1, <2>1 DEF maybe_split
  <2> QED BY <2>3, <2>4 DEF SplitOf
<1>2. CASE ~(whole - size >= 2 * HDR)
  BY <1>2 DEF maybe_split, SplitOf
<1> QED BY <1>1, <1>2

\* A new element goes in front of the free list.
LEMMA HeapWith ==
  ASSUME NEW list, NEW F, NEW L, NEW P, NEW r \in HBlocks, IsList(list, HBlocks, F), r \notin F,
         Tiling(L, F \cup {r}, P)
  PROVE  HeapOf(<<r>> \o list, L, P)
<1>1. IsList(<<r>> \o list, HBlocks, F \cup {r})
  BY ListPrepend
<1> QED BY <1>1 DEF HeapOf

\* A live block of whole pages, from a request of a page or more.
LEMMA WholePagesKept ==
  ASSUME HeapOf(freelist, live, free_pages), NEW t, NEW size \in Nat, size >= PAGE_SIZE, xmalloc_whole_pages(t, size)
  PROVE  HeapOf(freelist', live', free_pages') /\ live \subseteq live'
<1>1. PICK n : n = (size + PAGE_SIZE - 1) \div PAGE_SIZE
  OBVIOUS
<1>2. n \in Nat \ {0}
  <2>1. PICK s \in Nat \ {0} : s = PAGE_SIZE
    BY PageSizes
  <2>2. PICK u \in Nat : u = size + s - 1
    BY <2>1
  <2>3. n = u \div s
    BY <1>1, <2>1, <2>2
  <2>4. n \in Nat /\ s * n <= u /\ u < s * n + s
    BY <2>1, <2>3, UnitPage
  <2>5. u >= s
    BY <2>1, <2>2
  <2>6. n = 0 => s * n = 0
    BY <2>1
  <2> QED BY <2>1, <2>4, <2>5, <2>6
<1>3. PICK p \in free_pages :
        /\ p..(p + n - 1) \subseteq free_pages
        /\ free_pages' = free_pages \ (p..(p + n - 1))
        /\ Obtained(t, Block(p * PAGE_SIZE, n * PAGE_SIZE))
  BY <1>1 DEF xmalloc_whole_pages
<1>4. PICK F : IsList(freelist, HBlocks, F) /\ Tiling(live, F, free_pages)
  BY DEF HeapOf
<1>5. p \in Nat
  BY <1>4 DEF Tiling, Sound
<1>6. PICK b : b = Block(p * PAGE_SIZE, n * PAGE_SIZE)
  OBVIOUS
<1>7. b \in HBlocks /\ Whole(b, p, n)
  <2>1. PICK s \in Nat \ {0} : s = PAGE_SIZE
    BY PageSizes
  <2>2. p * s = s * p /\ n * s = s * n /\ p * s \in Nat /\ n * s \in Nat \ {0}
    BY <1>2, <1>5, <2>1
  <2> QED BY <1>2, <1>5, <1>6, <2>1, <2>2 DEF HBlocks, Whole, Block
<1>8. Tiling(live \cup {b}, F, free_pages \ PagesFrom(p, n))
  <2>1. PagesFrom(p, n) \subseteq free_pages
    BY <1>3 DEF PagesFrom
  <2> QED BY <1>4, <1>7, <2>1, TakeWhole
<1>9. free_pages' = free_pages \ PagesFrom(p, n) /\ live' = live \cup {b} /\ freelist' = freelist
  BY <1>3, <1>6 DEF PagesFrom, Obtained, xmalloc_whole_pages
<1>10. HeapOf(freelist, live \cup {b}, free_pages \ PagesFrom(p, n))
  BY <1>4, <1>8 DEF HeapOf
<1> QED BY <1>9, <1>10

\* A free block, split or whole.
LEMMA FreelistKept ==
  ASSUME HeapOf(freelist, live, free_pages), NEW t, NEW size \in Nat \ {0}, FromFreelist(t, size)
  PROVE  HeapOf(freelist', live', free_pages') /\ live \subseteq live'
<1>1. PICK F : IsList(freelist, HBlocks, F) /\ Tiling(live, F, free_pages)
  BY DEF HeapOf
<1>2. freelist \in Seq(HBlocks) /\ ToSet(freelist) = F
  BY <1>1 DEF IsList
<1>3. PICK i : i = Search(size)
  OBVIOUS
<1>4. /\ i > 0 /\ i \in 1..Len(freelist)
      /\ freelist' = maybe_split(freelist[i].addr, size, freelist[i].size, RemoveAt(freelist, i)).list
      /\ Obtained(t, maybe_split(freelist[i].addr, size, freelist[i].size, RemoveAt(freelist, i)).hdr)
      /\ free_pages' = free_pages
  <2>1. /\ i > 0
        /\ freelist' = maybe_split(freelist[i].addr, size, freelist[i].size, RemoveAt(freelist, i)).list
        /\ Obtained(t, maybe_split(freelist[i].addr, size, freelist[i].size, RemoveAt(freelist, i)).hdr)
        /\ free_pages' = free_pages
    BY <1>3 DEF FromFreelist
  <2>2. i # 0
    BY <2>1
  <2>3. i \in 1..Len(freelist)
    BY <1>2, <1>3, <2>2, SearchFinds
  <2> QED BY <2>1, <2>3
<1>5. PICK f \in F : f = freelist[i]
  BY <1>2, <1>4, ListElements
<1>6. f \in HBlocks /\ f.addr \in Nat /\ f.size \in Nat \ {0} /\ f = Block(f.addr, f.size)
  BY <1>1, <1>5 DEF Tiling, Sound, HBlocks, Block
<1>7. PICK list : list = RemoveAt(freelist, i)
  OBVIOUS
<1>8. IsList(list, HBlocks, F \ {f})
  BY <1>1, <1>4, <1>5, <1>7, ListRemove
<1>9. PICK s : s = maybe_split(f.addr, size, f.size, list)
  OBVIOUS
<1>10. freelist' = s.list /\ live' = live \cup {s.hdr} /\ free_pages' = free_pages
  BY <1>4, <1>5, <1>7, <1>9 DEF Obtained
<1>11. CASE s = [hdr |-> f, list |-> list]
  <2>1. Tiling(live \cup {f}, F \ {f}, free_pages)
    BY <1>1, TakeFree
  <2>2. HeapOf(list, live \cup {f}, free_pages)
    BY <1>8, <2>1 DEF HeapOf
  <2>3. s.hdr = f /\ s.list = list
    BY <1>11
  <2> QED BY <1>10, <2>2, <2>3
<1>12. ASSUME NEW h, NEW r, Cut(f, h, r), s = [hdr |-> h, list |-> <<r>> \o list]
       PROVE  HeapOf(freelist', live', free_pages') /\ live \subseteq live'
  <2>1. Tiling(live \cup {h}, (F \ {f}) \cup {r}, free_pages) /\ r \notin F
    BY <1>1, <1>12, SplitFree
  <2>2. r \in HBlocks /\ r \notin F \ {f}
    BY <1>12, <2>1 DEF Cut
  <2>3. HeapOf(<<r>> \o list, live \cup {h}, free_pages)
    BY <1>8, <2>1, <2>2, HeapWith
  <2>4. s.hdr = h /\ s.list = <<r>> \o list
    BY <1>12
  <2> QED BY <1>10, <2>3, <2>4
<1>13. SplitOf(f, list, s)
  BY <1>6, <1>9, Splits
<1> QED BY <1>11, <1>12, <1>13 DEF SplitOf

\* A new page, split or whole.
LEMMA NewPageKept ==
  ASSUME HeapOf(freelist, live, free_pages), NEW t, want[t] \in Nat, xmalloc_new_page(t)
  PROVE  HeapOf(freelist', live', free_pages') /\ live \subseteq live'
<1>1. PICK F : IsList(freelist, HBlocks, F) /\ Tiling(live, F, free_pages)
  BY DEF HeapOf
<1>2. PICK size \in Nat \ {0} : size = want[t]
  BY DEF xmalloc_new_page
<1>3. PICK p \in free_pages :
        /\ free_pages' = free_pages \ {p}
        /\ freelist' = maybe_split(p * PAGE_SIZE, size, PAGE_SIZE, freelist).list
        /\ Obtained(t, maybe_split(p * PAGE_SIZE, size, PAGE_SIZE, freelist).hdr)
  BY <1>2 DEF xmalloc_new_page
<1>4. p \in Nat
  BY <1>1 DEF Tiling, Sound
<1>5. PICK s : s = maybe_split(p * PAGE_SIZE, size, PAGE_SIZE, freelist)
  OBVIOUS
<1>6. freelist' = s.list /\ live' = live \cup {s.hdr} /\ free_pages' = free_pages \ PagesFrom(p, 1)
  <2>1. PagesFrom(p, 1) = {p}
    BY <1>4 DEF PagesFrom
  <2> QED BY <1>3, <1>5, <2>1 DEF Obtained
<1>7. PICK w : w = Block(p * PAGE_SIZE, PAGE_SIZE)
  OBVIOUS
<1>8. w \in HBlocks /\ Whole(w, p, 1) /\ p * PAGE_SIZE \in Nat /\ PAGE_SIZE \in Nat \ {0}
  <2>1. PICK z \in Nat \ {0} : z = PAGE_SIZE
    BY PageSizes
  <2>2. p * z = z * p /\ z * 1 = z /\ p * z \in Nat
    BY <1>4, <2>1
  <2> QED BY <1>4, <1>7, <2>1, <2>2 DEF HBlocks, Whole, Block
<1>9. Tiling(live \cup {w}, F, free_pages \ PagesFrom(p, 1)) /\ w \notin live
  <2>1. PagesFrom(p, 1) \subseteq free_pages
    BY <1>3, <1>4 DEF PagesFrom
  <2> QED BY <1>1, <1>8, <2>1, TakeWhole
<1>10. CASE s = [hdr |-> w, list |-> freelist]
  <2>1. HeapOf(freelist, live \cup {w}, free_pages \ PagesFrom(p, 1))
    BY <1>1, <1>9 DEF HeapOf
  <2>2. s.hdr = w /\ s.list = freelist
    BY <1>10
  <2> QED BY <1>6, <2>1, <2>2
<1>11. ASSUME NEW h, NEW r, Cut(w, h, r), s = [hdr |-> h, list |-> <<r>> \o freelist]
       PROVE  HeapOf(freelist', live', free_pages') /\ live \subseteq live'
  <2>1. PICK L, P : L = live \cup {w} /\ P = free_pages \ PagesFrom(p, 1)
    OBVIOUS
  <2>2. Tiling(L, F, P) /\ w \in L
    BY <1>9, <2>1
  <2>3. Tiling((L \ {w}) \cup {h}, F \cup {r}, P) /\ r \notin F
    BY <1>8, <1>11, <2>2, SplitPage
  <2>4. (L \ {w}) \cup {h} = live \cup {h}
    BY <1>9, <2>1
  <2>5. r \in HBlocks
    BY <1>11 DEF Cut
  <2>6. HeapOf(<<r>> \o freelist, live \cup {h}, P)
    BY <1>1, <2>3, <2>4, <2>5, HeapWith
  <2>7. s.hdr = h /\ s.list = <<r>> \o freelist
    BY <1>11
  <2> QED BY <1>6, <2>1, <2>6, <2>7
<1>12. PICK z \in Nat : z = p * PAGE_SIZE
  BY <1>8
<1>13. SplitOf(w, freelist, s)
  BY <1>5, <1>7, <1>8, <1>12, Splits
<1> QED BY <1>10, <1>11, <1>13 DEF SplitOf

\* xfree.
LEMMA ReleaseKept ==
  ASSUME HeapOf(freelist, live, free_pages), NEW b \in live, Release(b), live' = live \ {b}
  PROVE  HeapOf(freelist', live', free_pages')
<1>1. PICK F : IsList(freelist, HBlocks, F) /\ Tiling(live, F, free_pages)
  BY DEF HeapOf
<1>2. b \in HBlocks /\ (Small(b) \/ Large(b)) /\ Apart(F) /\ \A f \in F : Small(f)
  BY <1>1 DEF Tiling, Sound
<1>3. b.size \in Nat /\ PAGE_SIZE \in Nat \ {0}
  BY <1>2, PageSizes DEF HBlocks
<1>4. CASE b.size >= PAGE_SIZE
  <2>1. Large(b)
    BY <1>2, <1>3, <1>4 DEF Small
  <2>2. PICK p, n : Whole(b, p, n)
    BY <2>1 DEF Large
  <2>3. PageOf(b) = p /\ b.size \div PAGE_SIZE = n
    BY <1>2, <2>2, WholePages
  <2>4. free_pages' = free_pages \cup PagesFrom(p, n) /\ freelist' = freelist
    BY <1>4, <2>3 DEF Release, PagesFrom
  <2>5. Tiling(live \ {b}, F, free_pages \cup PagesFrom(p, n))
    BY <1>1, <2>2, ReturnLive
  <2>6. HeapOf(freelist, live \ {b}, free_pages \cup PagesFrom(p, n))
    BY <1>1, <2>5 DEF HeapOf
  <2> QED BY <2>4, <2>6
<1>5. CASE ~(b.size >= PAGE_SIZE)
  <2>1. Small(b)
    <3>1. SUFFICES ASSUME Large(b) PROVE FALSE
      BY <1>2
    <3>2. PICK p, n : Whole(b, p, n)
      BY <3>1 DEF Large
    <3>3. PICK s \in Nat \ {0} : s = PAGE_SIZE
      BY <1>3
    <3>4. n \in Nat \ {0} /\ b.size = s * n
      BY <3>2, <3>3 DEF Whole
    <3>5. s * n >= s
      BY <3>3, <3>4
    <3> QED BY <1>3, <1>5, <3>3, <3>4, <3>5
  <2>2. PICK hdr, list, M :
          /\ hdr = Merged(b).hdr /\ list = Merged(b).list
          /\ MergedInto(hdr, b, M, F) /\ NoneNext(hdr, F \ M, PageOf(b)) /\ IsList(list, HBlocks, F \ M)
    BY <1>1, <1>2, <2>1, MergedLeaves
  <2>3. CASE hdr.size = PAGE_SIZE
    <3>1. free_pages' = free_pages \cup {PageOf(b)} /\ freelist' = list
      BY <1>5, <2>2, <2>3 DEF Release
    <3>2. Tiling(live \ {b}, F \ M, free_pages \cup {PageOf(b)})
      BY <1>1, <2>1, <2>2, <2>3, FreePage
    <3>3. HeapOf(list, live \ {b}, free_pages \cup {PageOf(b)})
      BY <2>2, <3>2 DEF HeapOf
    <3> QED BY <3>1, <3>3
  <2>4. CASE hdr.size # PAGE_SIZE
    <3>1. freelist' = <<hdr>> \o list /\ free_pages' = free_pages
      BY <1>5, <2>2, <2>4 DEF Release
    <3>2. PICK K : K = F \ M
      OBVIOUS
    <3>3. Tiling(live \ {b}, K \cup {hdr}, free_pages) /\ hdr \notin K
      BY <1>1, <2>1, <2>2, <2>4, <3>2, FreeBlock
    <3>4. hdr \in HBlocks /\ IsList(list, HBlocks, K)
      BY <2>2, <3>2 DEF MergedInto
    <3>5. HeapOf(<<hdr>> \o list, live \ {b}, free_pages)
      BY <3>3, <3>4, HeapWith
    <3> QED BY <3>1, <3>5
  <2> QED BY <2>3, <2>4
<1> QED BY <1>4, <1>5

\* The search of xmalloc_align and what follows it.
LEMMA AllocateKept ==
  ASSUME HeapOf(freelist, live, free_pages), want \in [XmThreads -> Nat], \A s \in XmThreads : want[s] < PAGE_SIZE,
         NEW t \in XmThreads, NEW size \in Nat \ {0}, Allocate(t, size)
  PROVE  /\ HeapOf(freelist', live', free_pages') /\ live \subseteq live'
         /\ want' \in [XmThreads -> Nat] /\ \A s \in XmThreads : want'[s] < PAGE_SIZE
<1>1. PAGE_SIZE \in Nat \ {0}
  BY PageSizes
<1>2. ASSUME NEW b, Obtained(t, b)
      PROVE  want' \in [XmThreads -> Nat] /\ \A s \in XmThreads : want'[s] < PAGE_SIZE
  BY <1>1, <1>2 DEF Obtained
<1>3. CASE size >= PAGE_SIZE /\ xmalloc_whole_pages(t, size)
  <2>1. \E b : Obtained(t, b)
    BY <1>3 DEF xmalloc_whole_pages
  <2> QED BY <1>2, <1>3, <2>1, WholePagesKept
<1>4. CASE size < PAGE_SIZE /\ FromFreelist(t, size)
  <2>1. \E b : Obtained(t, b)
    BY <1>4 DEF FromFreelist
  <2> QED BY <1>2, <1>4, <2>1, FreelistKept
<1>5. CASE size < PAGE_SIZE /\ NotFound(t, size)
  <2>1. freelist' = freelist /\ live' = live /\ free_pages' = free_pages /\ want' = [want EXCEPT ![t] = size]
    BY <1>5 DEF NotFound
  <2>2. HeapOf(freelist', live', free_pages')
    BY <2>1
  <2> QED BY <1>5, <2>1, <2>2
<1> QED BY <1>3, <1>4, <1>5 DEF Allocate

\* The heap's steps.
LEMMA HeapNext == HeapInv /\ XmNext => HeapInv'
<1> SUFFICES ASSUME HeapInv, XmNext PROVE HeapInv'
  OBVIOUS
<1>1. /\ HeapOf(freelist, live, free_pages)
      /\ want \in [XmThreads -> Nat] /\ \A t \in XmThreads : want[t] < PAGE_SIZE
      /\ old \in [XmThreads -> live \cup {NoBlock}]
      /\ \A t, s \in XmThreads : old[t] # NoBlock /\ t # s => old[s] # old[t]
  BY DEF HeapInv, CallsFit
<1> SUFFICES HeapOf(freelist', live', free_pages') /\ CallsFit(want', old', live')
  BY DEF HeapInv
<1>2. PICK t \in XmThreads :
        \/ xmalloc_new_page(t)
        \/ XreallocFree(t)
        \/ \E n \in Sizes : xmalloc_align(t, n)
        \/ \E b \in live : xfree(t, b) \/ \E n \in Sizes : xrealloc(t, b, n)
  BY DEF XmNext
<1>3. \A n \in Sizes : BlockSize(n) \in Nat \ {0}
  BY SizesAssumption DEF BlockSize
<1>4. CASE xmalloc_new_page(t)
  <2>1. want[t] \in Nat
    BY <1>1
  <2>2. HeapOf(freelist', live', free_pages') /\ live \subseteq live'
    BY <1>1, <1>4, <2>1, NewPageKept
  <2>3. want' = [want EXCEPT ![t] = 0] /\ old' = old
    BY <1>4 DEF xmalloc_new_page, Obtained
  <2>4. CallsFit(want', old', live')
    BY <1>1, <2>2, <2>3, PageSizes DEF CallsFit
  <2> QED BY <2>2, <2>4
<1>5. CASE XreallocFree(t)
  <2>1. /\ old[t] # NoBlock /\ old[t] \in live /\ Release(old[t]) /\ live' = live \ {old[t]}
        /\ old' = [old EXCEPT ![t] = NoBlock] /\ want' = want
    BY <1>1, <1>5 DEF XreallocFree
  <2>2. HeapOf(freelist', live', free_pages')
    BY <1>1, <2>1, ReleaseKept
  <2>3. CallsFit(want', old', live')
    BY <1>1, <2>1 DEF CallsFit
  <2> QED BY <2>2, <2>3
<1>6. CASE \E n \in Sizes : xmalloc_align(t, n)
  <2>1. PICK size \in Nat \ {0} : Allocate(t, size) /\ old' = old
    BY <1>3, <1>6 DEF xmalloc_align
  <2>2. /\ HeapOf(freelist', live', free_pages') /\ live \subseteq live'
        /\ want' \in [XmThreads -> Nat] /\ \A s \in XmThreads : want'[s] < PAGE_SIZE
    BY <1>1, <2>1, AllocateKept
  <2>3. CallsFit(want', old', live')
    BY <1>1, <2>1, <2>2 DEF CallsFit
  <2> QED BY <2>2, <2>3
<1>7. ASSUME NEW b \in live, xfree(t, b) PROVE HeapOf(freelist', live', free_pages') /\ CallsFit(want', old', live')
  <2>1. /\ \A s \in XmThreads : old[s] # b
        /\ live' = live \ {b} /\ Release(b) /\ want' = want /\ old' = old
    BY <1>7 DEF xfree, Settled
  <2>2. HeapOf(freelist', live', free_pages')
    BY <1>1, <2>1, ReleaseKept
  <2>3. CallsFit(want', old', live')
    BY <1>1, <2>1 DEF CallsFit
  <2> QED BY <2>2, <2>3
<1>8. ASSUME NEW b \in live, NEW n \in Sizes, xrealloc(t, b, n)
      PROVE  HeapOf(freelist', live', free_pages') /\ CallsFit(want', old', live')
  <2>1. PICK size \in Nat \ {0} : Allocate(t, size)
    BY <1>3, <1>8 DEF xrealloc
  <2>2. (\A s \in XmThreads : old[s] # b) /\ old' = [old EXCEPT ![t] = b]
    BY <1>8 DEF xrealloc, Settled
  <2>3. /\ HeapOf(freelist', live', free_pages') /\ live \subseteq live'
        /\ want' \in [XmThreads -> Nat] /\ \A s \in XmThreads : want'[s] < PAGE_SIZE
    BY <1>1, <2>1, AllocateKept
  <2>4. CallsFit(want', old', live')
    BY <1>1, <2>2, <2>3 DEF CallsFit
  <2> QED BY <2>3, <2>4
<1> QED BY <1>2, <1>4, <1>5, <1>6, <1>7, <1>8

\* Nothing of the heap changes elsewhere.
LEMMA HeapStays == HeapInv /\ UNCHANGED xmVars => HeapInv'
  BY DEF HeapInv, xmVars

\* The heap's properties.
LEMMA HeapIsWhole == HeapInv => BlocksTilePages /\ FreeBlocksMerged /\ NoIdlePage
<1> SUFFICES ASSUME HeapInv PROVE BlocksTilePages /\ FreeBlocksMerged /\ NoIdlePage
  OBVIOUS
<1>1. PICK F : IsList(freelist, HBlocks, F) /\ Tiling(live, F, free_pages)
  BY DEF HeapInv, HeapOf
<1>2. FreeBlocks = F
  BY <1>1 DEF IsList, FreeBlocks
<1>3. /\ Sound(live, F, free_pages) /\ Disjoint(live \cup F) /\ Covers(live \cup F, free_pages)
      /\ Apart(F) /\ Used(live, free_pages)
  BY <1>1 DEF Tiling
<1>4. \A b \in live \cup F : b \in HBlocks
  BY <1>3 DEF Sound
<1>5. \A b \in live \cup F : \A u \in Units(b) : u \in Nat
  BY <1>4, UnitsOf
<1>6. ASSUME NEW b \in live \cup F, NEW d \in live \cup F, b # d PROVE Units(b) \cap Units(d) = {}
  BY <1>3, <1>5, <1>6 DEF Disjoint
<1>7. ASSUME NEW u \in Nat
      PROVE  u \div PAGE_SIZE \in 0..(NumPages - 1) <=> u \in 0..(NumPages * PAGE_SIZE - 1)
  <2>1. PICK s \in Nat \ {0}, n \in Nat : s = PAGE_SIZE /\ n = NumPages
    BY PageSizes
  <2>2. PICK q \in Nat : q = u \div s /\ s * q <= u /\ u < s * q + s
    BY <2>1, UnitPage
  <2>3. n * s = s * n /\ n * s \in Nat
    BY <2>1
  <2>4. CASE q < n
    <3>1. s * (q + 1) <= s * n /\ s * (q + 1) = s * q + s
      BY <2>1, <2>2, <2>4
    <3> QED BY <2>1, <2>2, <2>3, <2>4, <3>1
  <2>5. CASE q >= n
    <3>1. s * n <= s * q
      BY <2>1, <2>2, <2>5
    <3>2. u >= n * s
      BY <2>1, <2>2, <2>3, <3>1
    <3>3. ~(q \in 0..(n - 1)) /\ ~(u \in 0..(n * s - 1))
      BY <2>1, <2>2, <2>3, <2>5, <3>2
    <3> QED BY <2>1, <2>2, <3>3
  <2> QED BY <2>1, <2>2, <2>4, <2>5
<1>8. ASSUME NEW u
      PROVE  u \in UNION {Units(b) : b \in live \cup F}
               <=> u \in 0..(NumPages * PAGE_SIZE - 1) /\ u \div PAGE_SIZE \notin free_pages
  <2>1. u \in UNION {Units(b) : b \in live \cup F} <=> \E b \in live \cup F : u \in Units(b)
    OBVIOUS
  <2>2. CASE u \in Nat
    BY <1>3, <1>7, <2>1, <2>2 DEF Covers, TakenPages
  <2>3. CASE u \notin Nat
    <3>1. NumPages * PAGE_SIZE \in Nat
      BY PageSizes
    <3> QED BY <1>5, <2>1, <2>3, <3>1
  <2> QED BY <2>2, <2>3
<1>9. BlocksTilePages
  BY <1>2, <1>6, <1>8 DEF BlocksTilePages
<1>10. FreeBlocksMerged
  BY <1>2, <1>3 DEF FreeBlocksMerged, Apart
<1>11. NoIdlePage
  <2>1. \A p \in 0..(NumPages - 1) : p * PAGE_SIZE = PAGE_SIZE * p
    BY PageSizes
  <2> QED BY <1>3, <2>1 DEF NoIdlePage, Used, TakenPages
<1> QED BY <1>9, <1>10, <1>11

-----------------------------------------------------------------------------
(* The page bitmap *)

\* The word and the bit of a page, and the page of a bit.
LEMMA WordAndBit ==
  ASSUME NEW p \in Nat
  PROVE  /\ PW \in Nat \ {0} /\ p \div PW \in Nat /\ p % PW \in 0..(PW - 1)
         /\ p = PW * (p \div PW) + (p % PW)
<1>1. PW \in Nat \ {0}
  BY WordsAssumption DEF PW
<1>2. p = PW * (p \div PW) + (p % PW) /\ p % PW \in 0..(PW - 1) /\ p \div PW \in Nat
  BY <1>1
<1> QED BY <1>1, <1>2

\* Bits are in the order of their words, and in a word of their numbers.
LEMMA BitOrder ==
  ASSUME NEW s \in Nat \ {0}, NEW f \in Nat, NEW w \in Nat, NEW o \in 0..(s - 1), NEW b \in 0..(s - 1)
  PROVE  /\ s * f + o <= s * w + b <=> f < w \/ (f = w /\ o <= b)
         /\ s * w + b < s * f + o <=> w < f \/ (w = f /\ b < o)
<1>1. \A x, y \in Nat : x < y => s * x + s <= s * y
  <2>1. ASSUME NEW x \in Nat, NEW y \in Nat, x < y PROVE s * x + s <= s * y
    <3>1. s * (x + 1) <= s * y /\ s * (x + 1) = s * x + s
      BY <2>1
    <3> QED BY <3>1
  <2> QED BY <2>1
<1>2. s * f \in Nat /\ s * w \in Nat
  OBVIOUS
<1>3. CASE f < w
  <2>1. s * f + s <= s * w
    BY <1>1, <1>3
  <2> QED BY <1>2, <1>3, <2>1
<1>4. CASE w < f
  <2>1. s * w + s <= s * f
    BY <1>1, <1>4
  <2> QED BY <1>2, <1>4, <2>1
<1>5. CASE w = f
  BY <1>2, <1>5
<1> QED BY <1>3, <1>4, <1>5

\* Bit b of word w is of a page of the run from first on, up to end.
InRun(w, b, first, end) == first <= PW * w + b /\ PW * w + b < end

\* The words and masks of map_alloc and map_free are those of the run.
LEMMA RunBits ==
  ASSUME NEW p \in Nat, NEW n \in Nat, NEW w \in 0..MapWords, NEW b \in 0..(PW - 1), p + n <= PW * MapWords
  PROVE  /\ b \in map_alloc(p, n)[w] <=> b \in alloc_bitmap[w] \/ InRun(w, b, p, p + n)
         /\ b \in map_free(p, n)[w] <=> b \in alloc_bitmap[w] /\ ~InRun(w, b, p, p + n)
<1> PICK s \in Nat \ {0} : s = PW
  BY WordAndBit
<1> PICK e \in Nat : e = p + n
  OBVIOUS
<1> PICK f, o, l, x : f = p \div s /\ o = p % s /\ l = e \div s /\ x = e % s
  OBVIOUS
<1>1. /\ f \in Nat /\ o \in 0..(s - 1) /\ p = s * f + o
      /\ l \in Nat /\ x \in 0..(s - 1) /\ e = s * l + x /\ w \in Nat
  BY WordAndBit, WordsAssumption
<1>2. /\ InRun(w, b, p, e) <=> (f < w \/ (f = w /\ o <= b)) /\ (w < l \/ (w = l /\ b < x))
  <2>1. /\ s * f + o <= s * w + b <=> f < w \/ (f = w /\ o <= b)
        /\ s * w + b < s * l + x <=> w < l \/ (w = l /\ b < x)
    BY <1>1, BitOrder
  <2> QED BY <1>1, <2>1 DEF InRun
<1>3. map_alloc(p, n)[w]
        = IF w < f \/ w > l THEN alloc_bitmap[w]
          ELSE IF f = l
            THEN alloc_bitmap[w] \cup ((0..(x - 1)) \cap (o..(s - 1)))
          ELSE IF w = f THEN alloc_bitmap[w] \cup (o..(s - 1))
          ELSE IF w < l THEN 0..(s - 1)
          ELSE alloc_bitmap[w] \cup (0..(x - 1))
  BY DEF map_alloc
<1>4. map_free(p, n)[w]
        = IF w < f \/ w > l THEN alloc_bitmap[w]
          ELSE IF f = l
            THEN alloc_bitmap[w] \cap ((x..(s - 1)) \cup (0..(o - 1)))
          ELSE IF w = f THEN alloc_bitmap[w] \cap (0..(o - 1))
          ELSE IF w < l THEN {}
          ELSE alloc_bitmap[w] \cap (x..(s - 1))
  BY DEF map_free
<1>5. b \in 0..(s - 1) /\ s \in Nat
  OBVIOUS
<1>6. b \in map_alloc(p, n)[w] <=> b \in alloc_bitmap[w] \/ InRun(w, b, p, e)
  <2> HIDE DEF InRun
  <2>1. CASE w < f \/ w > l
    BY <1>1, <1>2, <1>3, <2>1
  <2>2. CASE ~(w < f \/ w > l) /\ f = l
    BY <1>1, <1>2, <1>3, <1>5, <2>2
  <2>3. CASE ~(w < f \/ w > l) /\ f # l
    BY <1>1, <1>2, <1>3, <1>5, <2>3
  <2> QED BY <2>1, <2>2, <2>3
<1>7. b \in map_free(p, n)[w] <=> b \in alloc_bitmap[w] /\ ~InRun(w, b, p, e)
  <2> HIDE DEF InRun
  <2>1. CASE w < f \/ w > l
    BY <1>1, <1>2, <1>4, <2>1
  <2>2. CASE ~(w < f \/ w > l) /\ f = l
    BY <1>1, <1>2, <1>4, <1>5, <2>2
  <2>3. CASE ~(w < f \/ w > l) /\ f # l
    BY <1>1, <1>2, <1>4, <1>5, <2>3
  <2> QED BY <2>1, <2>2, <2>3
<1> QED BY <1>6, <1>7

\* A page is marked if its bit is set.
LEMMA PageBits ==
  ASSUME NEW q \in BmPages
  PROVE  /\ q \in Nat /\ q \div PW \in 0..MapWords /\ q % PW \in 0..(PW - 1)
         /\ \A first, end : InRun(q \div PW, q % PW, first, end) <=> first <= q /\ q < end
<1>1. q \in Nat /\ PW \in Nat \ {0} /\ MapWords \in Nat /\ q < PW * MapWords
  BY WordAndBit, WordsAssumption DEF BmPages, PW
<1>2. PICK w, o : w = q \div PW /\ o = q % PW
  OBVIOUS
<1>3. w \in Nat /\ o \in 0..(PW - 1) /\ q = PW * w + o
  BY <1>1, <1>2, WordAndBit
<1>4. w < MapWords
  <2>1. 0 \in 0..(PW - 1)
    BY <1>1
  <2>2. PW * w + o < PW * MapWords + 0
    BY <1>1, <1>3
  <2> QED BY <1>1, <1>3, <2>1, <2>2, BitOrder
<1> QED BY <1>1, <1>2, <1>3, <1>4 DEF InRun

\* The word behind the bitmap has no page of a run.
LEMMA WordBehind ==
  ASSUME NEW first, NEW end \in Nat, end <= PW * MapWords, NEW b \in 0..(PW - 1)
  PROVE  ~InRun(MapWords, b, first, end)
<1>1. PW \in Nat \ {0} /\ MapWords \in Nat /\ PW * MapWords \in Nat
  BY WordsAssumption DEF PW
<1> QED BY <1>1 DEF InRun

\* What a change of the bits of a run does to words and pages.
LEMMA WordsKept ==
  ASSUME WordsMatchPages, NEW p \in Nat, NEW n \in Nat, p + n <= PW * MapWords,
         \/ alloc_bitmap' = map_alloc(p, n) /\ marked' = marked \cup (p..(p + n - 1))
         \/ alloc_bitmap' = map_free(p, n) /\ marked' = marked \ (p..(p + n - 1))
  PROVE  WordsMatchPages'
<1> PICK e \in Nat : e = p + n
  OBVIOUS
<1>1. /\ alloc_bitmap \in [0..MapWords -> MapWord]
      /\ marked = {q \in BmPages : allocated_in_map(q)}
      /\ alloc_bitmap[MapWords] = 0..(PW - 1)
  BY DEF WordsMatchPages
<1>2. PW \in Nat \ {0} /\ MapWords \in Nat /\ MapWords \in 0..MapWords
  BY WordsAssumption DEF PW
<1>3. alloc_bitmap' \in [0..MapWords -> MapWord]
  <2>1. map_alloc(p, n) \in [0..MapWords -> MapWord]
    <3>1. PICK f, o, l, x : f = p \div PW /\ o = p % PW /\ l = e \div PW /\ x = e % PW
      OBVIOUS
    <3>2. o \in 0..(PW - 1) /\ x \in 0..(PW - 1)
      BY <3>1, WordAndBit
    <3>3. 0..(x - 1) \subseteq 0..(PW - 1) /\ o..(PW - 1) \subseteq 0..(PW - 1)
      BY <1>2, <3>2
    <3>4. ASSUME NEW w \in 0..MapWords
          PROVE  (IF w < f \/ w > l THEN alloc_bitmap[w]
                  ELSE IF f = l
                    THEN alloc_bitmap[w] \cup ((0..(x - 1)) \cap (o..(PW - 1)))
                  ELSE IF w = f THEN alloc_bitmap[w] \cup (o..(PW - 1))
                  ELSE IF w < l THEN 0..(PW - 1)
                  ELSE alloc_bitmap[w] \cup (0..(x - 1))) \in MapWord
      <4>1. alloc_bitmap[w] \subseteq 0..(PW - 1)
        BY <1>1 DEF MapWord
      <4> QED BY <3>3, <4>1 DEF MapWord
    <3> QED BY <3>1, <3>4 DEF map_alloc
  <2>2. map_free(p, n) \in [0..MapWords -> MapWord]
    BY <1>1 DEF map_free, MapWord
  <2> QED BY <2>1, <2>2
<1>4. ASSUME NEW q \in BmPages
      PROVE  q \in marked' <=> (q % PW) \in alloc_bitmap'[q \div PW]
  <2>1. /\ q \in Nat /\ q \div PW \in 0..MapWords /\ q % PW \in 0..(PW - 1)
        /\ InRun(q \div PW, q % PW, p, p + n) <=> p <= q /\ q < p + n
    BY PageBits
  <2>2. q \in p..(p + n - 1) <=> p <= q /\ q < p + n
    BY <2>1
  <2>3. q \in marked <=> (q % PW) \in alloc_bitmap[q \div PW]
    BY <1>1 DEF allocated_in_map
  <2>4. PICK w \in 0..MapWords, b \in 0..(PW - 1) : w = q \div PW /\ b = q % PW
    BY <2>1
  <2>5. /\ b \in map_alloc(p, n)[w] <=> b \in alloc_bitmap[w] \/ InRun(w, b, p, p + n)
        /\ b \in map_free(p, n)[w] <=> b \in alloc_bitmap[w] /\ ~InRun(w, b, p, p + n)
    BY RunBits
  <2> QED BY <2>1, <2>2, <2>3, <2>4, <2>5
<1>5. marked' = {q \in BmPages : allocated_in_map(q)}'
  <2>1. \A q \in p..(p + n - 1) : q \in BmPages
    BY <1>2 DEF BmPages
  <2>2. marked' \subseteq BmPages
    BY <1>1, <2>1
  <2> QED BY <1>4, <2>2 DEF allocated_in_map
<1>6. alloc_bitmap'[MapWords] = 0..(PW - 1)
  <2>1. ASSUME NEW b \in 0..(PW - 1) PROVE b \in alloc_bitmap'[MapWords]
    <3>1. ~InRun(MapWords, b, p, p + n)
      BY WordBehind
    <3>2. /\ b \in map_alloc(p, n)[MapWords] <=> b \in alloc_bitmap[MapWords] \/ InRun(MapWords, b, p, p + n)
          /\ b \in map_free(p, n)[MapWords] <=> b \in alloc_bitmap[MapWords] /\ ~InRun(MapWords, b, p, p + n)
      BY <1>2, RunBits
    <3> QED BY <1>1, <3>1, <3>2
  <2>2. alloc_bitmap'[MapWords] \subseteq 0..(PW - 1)
    BY <1>2, <1>3 DEF MapWord
  <2> QED BY <2>1, <2>2
<1> QED BY <1>3, <1>5, <1>6 DEF WordsMatchPages

\* The bitmap's steps.
LEMMA BitmapStarts == BmInit => WordsMatchPages
<1> SUFFICES ASSUME BmInit PROVE WordsMatchPages
  OBVIOUS
<1>1. ASSUME NEW q \in BmPages PROVE allocated_in_map(q)
  BY PageBits DEF BmInit, allocated_in_map
<1>2. MapWords \in 0..MapWords
  BY WordsAssumption
<1> QED BY <1>1, <1>2 DEF BmInit, WordsMatchPages, MapWord
LEMMA BitmapNext == WordsMatchPages /\ BmNext => WordsMatchPages'
<1> SUFFICES ASSUME WordsMatchPages, BmNext PROVE WordsMatchPages'
  OBVIOUS
<1>1. PICK p \in BmPages, n \in 1..MaxRun : BmAllocate(p, n) \/ BmFree(p, n)
  BY DEF BmNext
<1>2. PW \in Nat \ {0} /\ MapWords \in Nat /\ PW * MapWords \in Nat /\ n \in Nat \ {0}
  BY WordsAssumption DEF PW
<1>3. p..(p + n - 1) \subseteq BmPages /\ p \in Nat
  BY <1>1 DEF BmAllocate, BmFree, WordsMatchPages, BmPages
<1>4. p + n <= PW * MapWords
  <2>1. p + n - 1 \in p..(p + n - 1)
    BY <1>2, <1>3
  <2>2. p + n - 1 \in BmPages
    BY <1>3, <2>1
  <2> QED BY <1>2, <1>3, <2>2 DEF BmPages
<1> QED BY <1>1, <1>2, <1>3, <1>4, WordsKept DEF BmAllocate, BmFree
LEMMA BitmapStays == WordsMatchPages /\ UNCHANGED bmVars => WordsMatchPages'
  BY DEF WordsMatchPages, bmVars, allocated_in_map

-----------------------------------------------------------------------------
(* The search of the bitmap *)

\* The runs of n free pages from start to end.
Fitting(n, start, end) == {p \in start..(end - n) : p..(p + n - 1) \cap marked = {}}
\* Where the loops go on from a page, and what they find from it on where f has the rest.
Skips(page, n, end) == allocated_in_map(page) \/ InnerLoop(page, n, end) # page + n
GoesOn(page, n, end) ==
  IF allocated_in_map(page) \/ InnerLoop(page, n, end) = end THEN page + 1
  ELSE InnerLoop(page, n, end) + 1
SearchFrom(f, n, end, page) ==
  IF page >= end THEN -1
  ELSE IF allocated_in_map(page) THEN f[page + 1]
  ELSE LET q == InnerLoop(page, n, end) IN
       IF q = page + n THEN page
       ELSE IF q = end THEN f[page + 1] ELSE f[q + 1]
SearchArgs(n, start, end) ==
  n \in Nat \ {0} /\ start \in Nat /\ end \in Nat /\ start <= end /\ end <= PW * MapWords

\* Where the inner loop stops.
LEMMA InnerStops ==
  ASSUME NEW n \in Nat \ {0}, NEW page \in Nat, NEW end \in Nat, page < end, NEW q, q = InnerLoop(page, n, end)
  PROVE  /\ q \in (page + 1)..end /\ (q = page + n \/ q = end \/ allocated_in_map(q))
         /\ page + n <= end => q <= page + n
         /\ \A y \in (page + 1)..(q - 1) : ~allocated_in_map(y)
<1> DEFINE S == {y \in (page + 1)..end : y = page + n \/ y = end \/ allocated_in_map(y)}
<1>1. q = Min(S)
  BY DEF InnerLoop
<1>2. S \in SUBSET Nat /\ end \in S
  OBVIOUS
<1>3. q \in S /\ \A y \in S : q <= y
  <2> HIDE DEF S
  <2> QED BY <1>1, <1>2, MinIsLeast
<1>4. page + n <= end => page + n \in S
  OBVIOUS
<1>5. \A y \in (page + 1)..(q - 1) : y \in Nat /\ y < q /\ y \in (page + 1)..end
  BY <1>3
<1> QED BY <1>3, <1>4, <1>5

\* No run begins at a page where the search goes on, or between it and the next.
LEMMA LoopsLoseNoRun ==
  ASSUME WordsMatchPages, NEW n, NEW start, NEW end, SearchArgs(n, start, end), NEW page \in start..(end + 2)
  PROVE  /\ page >= end => From(Fitting(n, start, end), page) = {}
         /\ page < end /\ ~Skips(page, n, end) =>
              page \in Fitting(n, start, end) /\ page \in From(Fitting(n, start, end), page)
         /\ page < end /\ Skips(page, n, end) =>
              /\ GoesOn(page, n, end) \in start..(end + 2) /\ page < GoesOn(page, n, end)
              /\ From(Fitting(n, start, end), page) = From(Fitting(n, start, end), GoesOn(page, n, end))
<1>1. /\ n \in Nat \ {0} /\ start \in Nat /\ end \in Nat /\ start <= end /\ page \in Nat
      /\ PW * MapWords \in Nat /\ end <= PW * MapWords
  BY WordsAssumption DEF SearchArgs, PW
<1>2. \A y \in Nat : y < end => (y \in marked <=> allocated_in_map(y))
  BY <1>1 DEF WordsMatchPages, BmPages
<1> DEFINE R == Fitting(n, start, end)
<1>3. \A x : x \in R <=> x \in start..(end - n) /\ x..(x + n - 1) \cap marked = {}
  BY DEF Fitting
<1> HIDE DEF R
<1>4. ASSUME page >= end PROVE From(R, page) = {}
  BY <1>1, <1>3, <1>4 DEF From
<1>5. ASSUME page < end, ~Skips(page, n, end) PROVE page \in R /\ page \in From(R, page)
  <2>1. PICK q : q = InnerLoop(page, n, end)
    OBVIOUS
  <2>2. ~allocated_in_map(page) /\ q = page + n
    BY <1>5, <2>1 DEF Skips
  <2>3. q \in (page + 1)..end /\ \A y \in (page + 1)..(q - 1) : ~allocated_in_map(y)
    BY <1>1, <1>5, <2>1, InnerStops
  <2>4. ASSUME NEW y \in page..(page + n - 1) PROVE y \notin marked
    <3>1. y \in Nat /\ y < end /\ (y = page \/ y \in (page + 1)..(q - 1))
      BY <1>1, <2>2, <2>3
    <3> QED BY <1>2, <2>2, <2>3, <3>1
  <2>5. page \in start..(end - n)
    BY <1>1, <2>2, <2>3
  <2> QED BY <1>3, <2>4, <2>5 DEF From
<1>6. ASSUME page < end, Skips(page, n, end)
      PROVE  /\ GoesOn(page, n, end) \in start..(end + 2) /\ page < GoesOn(page, n, end)
             /\ From(R, page) = From(R, GoesOn(page, n, end))
  <2>1. PICK q : q = InnerLoop(page, n, end)
    OBVIOUS
  <2>2. /\ q \in (page + 1)..end /\ (q = page + n \/ q = end \/ allocated_in_map(q))
        /\ page + n <= end => q <= page + n
    BY <1>1, <1>6, <2>1, InnerStops
  <2>3. CASE allocated_in_map(page)
    <3>1. GoesOn(page, n, end) = page + 1
      BY <2>3 DEF GoesOn
    <3>2. page \in marked /\ page \in page..(page + n - 1)
      BY <1>1, <1>2, <1>6, <2>3
    <3>3. page \notin R
      BY <1>3, <3>2
    <3>4. \A x \in R : page <= x <=> page + 1 <= x
      BY <1>1, <1>3, <3>3
    <3> QED BY <1>1, <1>6, <3>1, <3>4 DEF From
  <2>4. CASE ~allocated_in_map(page) /\ q = end
    <3>1. GoesOn(page, n, end) = page + 1
      BY <2>1, <2>4 DEF GoesOn
    <3>2. q # page + n
      BY <1>6, <2>1, <2>4 DEF Skips
    <3>3. page \notin R
      BY <1>1, <1>3, <2>2, <2>4, <3>2
    <3>4. \A x \in R : page <= x <=> page + 1 <= x
      BY <1>1, <1>3, <3>3
    <3> QED BY <1>1, <1>6, <3>1, <3>4 DEF From
  <2>5. CASE ~allocated_in_map(page) /\ q # end
    <3>1. GoesOn(page, n, end) = q + 1
      BY <2>1, <2>5 DEF GoesOn
    <3>2. q # page + n
      BY <1>6, <2>1, <2>5 DEF Skips
    <3>3. q \in marked /\ q < page + n /\ q < end /\ q \in Nat /\ page < q
      BY <1>1, <1>2, <2>2, <2>5, <3>2
    <3>4. ASSUME NEW x \in R, page <= x PROVE q + 1 <= x
      <4>1. x \in Nat /\ x..(x + n - 1) \cap marked = {}
        BY <1>1, <1>3, <3>4
      <4>2. q \notin x..(x + n - 1)
        BY <3>3, <4>1
      <4> QED BY <1>1, <3>3, <3>4, <4>1, <4>2
    <3>5. ASSUME NEW x \in R, q + 1 <= x PROVE page <= x
      BY <1>1, <1>3, <3>3, <3>5
    <3> QED BY <1>1, <3>1, <3>3, <3>4, <3>5 DEF From
  <2> QED BY <2>3, <2>4, <2>5
<1> QED BY <1>4, <1>5, <1>6 DEF R

\* So the lowest run from each page on is what the loops find there.
LEMMA LoopsFindLowest ==
  ASSUME WordsMatchPages, NEW n, NEW start, NEW end, SearchArgs(n, start, end), NEW page \in start..(end + 2),
         NEW f, \A x \in start..(end + 2) : page < x => f[x] = Lowest(From(Fitting(n, start, end), x))
  PROVE  SearchFrom(f, n, end, page) = Lowest(From(Fitting(n, start, end), page))
<1> PICK R : R = Fitting(n, start, end)
  OBVIOUS
<1>1. page \in Int /\ end \in Int /\ R \in SUBSET Nat
  BY DEF SearchArgs, Fitting
<1>2. CASE page >= end
  <2>1. From(R, page) = {}
    BY <1>2, LoopsLoseNoRun
  <2> QED BY <1>2, <2>1 DEF SearchFrom, Lowest
<1>3. CASE page < end /\ ~Skips(page, n, end)
  <2>1. page \in From(R, page)
    BY <1>3, LoopsLoseNoRun
  <2>2. From(R, page) \in SUBSET Nat /\ \A x \in From(R, page) : page <= x
    BY <1>1 DEF From
  <2>3. Min(From(R, page)) = page
    <3>1. Min(From(R, page)) \in From(R, page) /\ Min(From(R, page)) <= page
      BY <2>1, <2>2, MinIsLeast
    <3>2. page <= Min(From(R, page)) /\ Min(From(R, page)) \in Nat
      BY <2>2, <3>1
    <3> QED BY <1>1, <3>1, <3>2
  <2>4. Lowest(From(R, page)) = page
    BY <2>1, <2>3 DEF Lowest
  <2>5. ~(page >= end) /\ ~allocated_in_map(page) /\ InnerLoop(page, n, end) = page + n
    BY <1>1, <1>3 DEF Skips
  <2> QED BY <2>4, <2>5 DEF SearchFrom
<1>4. CASE page < end /\ Skips(page, n, end)
  <2>1. PICK m : m = GoesOn(page, n, end)
    OBVIOUS
  <2>2. m \in start..(end + 2) /\ page < m /\ From(R, page) = From(R, m)
    BY <1>4, <2>1, LoopsLoseNoRun
  <2>3. f[m] = Lowest(From(R, m))
    BY <2>2
  <2>4. SearchFrom(f, n, end, page) = f[m]
    <3>1. ~(page >= end)
      BY <1>1, <1>4
    <3> QED BY <1>4, <2>1, <3>1 DEF SearchFrom, GoesOn, Skips
  <2> QED BY <2>2, <2>3, <2>4
<1> QED BY <1>1, <1>2, <1>3, <1>4

\* The search of the bitmap finds the lowest run of every region.
LEMMA BitmapSearch == WordsMatchPages => SearchFindsFirstFit
<1> SUFFICES ASSUME WordsMatchPages,
                    NEW n \in 1..MaxRun, NEW start \in BmPages, NEW end \in BmPages \cup {PW * MapWords}, start <= end
             PROVE  BmSearch(n, start, end) = Lowest(Fitting(n, start, end))
  BY DEF SearchFindsFirstFit, Fitting, Lowest
<1>1. SearchArgs(n, start, end)
  <2>1. PW * MapWords \in Nat /\ PW \in Nat \ {0} /\ MaxRun \in Nat
    BY WordsAssumption DEF PW
  <2> QED BY <2>1 DEF SearchArgs, BmPages
<1> PICK R : R = Fitting(n, start, end)
  OBVIOUS
<1>2. start \in Nat /\ end \in Nat /\ R \in SUBSET Nat /\ start \in start..(end + 2)
  BY <1>1 DEF SearchArgs, Fitting
<1> DEFINE low == [page \in start..(end + 2) |-> Lowest(From(R, page))]
<1>3. \A page \in start..(end + 2) : low[page] = SearchFrom(low, n, end, page)
  <2> SUFFICES ASSUME NEW page \in start..(end + 2) PROVE low[page] = SearchFrom(low, n, end, page)
    OBVIOUS
  <2>1. \A x \in start..(end + 2) : page < x => low[x] = Lowest(From(R, x))
    OBVIOUS
  <2>2. low[page] = Lowest(From(R, page))
    OBVIOUS
  <2> HIDE DEF low
  <2> QED BY <1>1, <2>1, <2>2, LoopsFindLowest
<1>4. low = [page \in start..(end + 2) |-> SearchFrom(low, n, end, page)]
  <2>1. low = [page \in start..(end + 2) |-> low[page]]
    OBVIOUS
  <2> HIDE DEF low
  <2> QED BY <1>3, <2>1
<1> HIDE DEF low
<1> DEFINE from[page \in start..(end + 2)] ==
             IF page >= end THEN -1
             ELSE IF allocated_in_map(page) THEN from[page + 1]
             ELSE LET q == InnerLoop(page, n, end) IN
                  IF q = page + n THEN page
                  ELSE IF q = end THEN from[page + 1] ELSE from[q + 1]
<1>5. BmSearch(n, start, end) = from[start]
  BY DEF BmSearch
<1>6. from = [page \in start..(end + 2) |-> SearchFrom(from, n, end, page)]
  <2>1. low = [page \in start..(end + 2) |->
                IF page >= end THEN -1
                ELSE IF allocated_in_map(page) THEN low[page + 1]
                ELSE LET q == InnerLoop(page, n, end) IN
                     IF q = page + n THEN page
                     ELSE IF q = end THEN low[page + 1] ELSE low[q + 1]]
    BY <1>4 DEF SearchFrom
  <2>2. from = [page \in start..(end + 2) |->
                IF page >= end THEN -1
                ELSE IF allocated_in_map(page) THEN from[page + 1]
                ELSE LET q == InnerLoop(page, n, end) IN
                     IF q = page + n THEN page
                     ELSE IF q = end THEN from[page + 1] ELSE from[q + 1]]
    BY <2>1
  <2> HIDE DEF from
  <2> QED BY <2>2 DEF SearchFrom
<1> HIDE DEF from
<1> DEFINE Bad == {page \in start..(end + 2) : from[page] # Lowest(From(R, page))}
<1>7. Bad = {}
  <2>1. SUFFICES ASSUME Bad # {} PROVE FALSE
    OBVIOUS
  <2>2. Bad \in SUBSET Nat /\ IsFiniteSet(Bad)
    <3>1. IsFiniteSet(start..(end + 2)) /\ start..(end + 2) \in SUBSET Nat
      BY <1>2, FS_Interval
    <3>2. Bad \subseteq start..(end + 2)
      OBVIOUS
    <3> HIDE DEF Bad
    <3> QED BY <3>1, <3>2, FS_Subset
  <2>3. PICK page \in Bad : \A x \in Bad : x <= page
    <3> HIDE DEF Bad
    <3> QED BY <2>1, <2>2, MaxIsGreatest
  <2>4. \A x \in start..(end + 2) : page < x => from[x] = Lowest(From(R, x))
    BY <1>2, <2>3
  <2>5. page \in start..(end + 2) /\ from[page] = SearchFrom(from, n, end, page)
    BY <1>6
  <2>6. SearchFrom(from, n, end, page) = Lowest(From(R, page))
    BY <1>1, <2>4, <2>5, LoopsFindLowest
  <2> QED BY <2>5, <2>6
<1>8. from[start] = Lowest(From(R, start))
  BY <1>2, <1>7
<1>9. From(R, start) = R
  BY <1>2 DEF From, Fitting
<1> QED BY <1>5, <1>8, <1>9

-----------------------------------------------------------------------------
(* Heap and bitmap among the kernel's smaller parts *)

\* The heap's live and free blocks tile the pages it has taken, whatever was split
\* and merged, free neighbours are merged and a page without a live block goes
\* back (maybe_split, xmalloc_align, xfree, xrealloc); the words of the page
\* bitmap mark exactly the allocated pages and the search finds the first fit
\* (map_alloc, map_free, _allocate_pages): for pages, headers, requests, words
\* and runs of any size and any number of threads.
THEOREM MemoryAlwaysWhole == Spec => []MemoryIsWhole
<1> DEFINE I == (component = "heap" => HeapInv) /\ (component = "bitmap" => WordsMatchPages)
<1>1. Init => I
  BY HeapStarts, BitmapStarts DEF Init
<1>2. I /\ [Next]_vars => I'
  <2> SUFFICES ASSUME I, [Next]_vars PROVE I'
    OBVIOUS
  <2>1. CASE UNCHANGED vars
    BY <2>1, HeapStays, BitmapStays DEF vars, memory
  <2>2. CASE Next
    <3>1. /\ component' = component /\ (component = "heap" => XmNext) /\ (component = "bitmap" => BmNext)
      BY <2>2 DEF Next
    <3> QED BY <3>1, HeapNext, BitmapNext
  <2> QED BY <2>1, <2>2
<1>3. I => MemoryIsWhole
  BY HeapIsWhole, BitmapSearch DEF MemoryIsWhole, Of
<1> QED BY <1>1, <1>2, <1>3, PTL DEF Spec
=============================================================================
