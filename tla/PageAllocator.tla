--------------------------- MODULE PageAllocator ---------------------------
(***************************************************************************)
(* The page allocator (mm.c): a bitmap of page frames split at             *)
(* first_bulk_page into a region for small and one for bulk requests, a    *)
(* hint of the first free page of each, first-fit search, and growth of    *)
(* the domain into the memory hole when the search fails.                  *)
(*                                                                         *)
(* bitmap_lock is held for whole steps; it is released around the          *)
(* hypercall of increase_reservation, which re-enters the allocator for    *)
(* page table frames.  A thread therefore has a stack of activations of    *)
(* _allocate_pages.  The bitmap is the set of pages whose bit is set: what *)
(* map_alloc and map_free do to the words is the subject of PageBitmap.    *)
(* num_free_pages and num_free_bulk_pages are never read and are left out. *)
(***************************************************************************)
EXTENDS Integers, Sequences, FiniteSets, FiniteSetsExt

CONSTANTS
  Threads,
  BULK_ALLOCATION,   \* requests of at least so many pages are bulk requests
  FirstBulk,         \* first_bulk_page
  FirstEnd,          \* end_alloc_page at boot
  MaxEnd,            \* max_end_alloc_page
  Workloads          \* sets of the numbers of pages that are requested

ASSUME RegionsAssumption ==
  /\ FirstBulk \in Nat /\ FirstEnd \in Nat /\ MaxEnd \in Nat
  /\ FirstBulk <= FirstEnd /\ FirstEnd <= MaxEnd
ASSUME WorkloadsAssumption == BULK_ALLOCATION \in Nat /\ Workloads \subseteq SUBSET (Nat \ {0})

VARIABLES
  a,        \* alloc_bitmap, the two hints and end_alloc_page
  hole,     \* the one entry of memory_hole_list, and whether it is linked
  in_increase_memory,
  stack,    \* each thread's activations of _allocate_pages, innermost last
  blocks,   \* what callers hold: pages page..page+n-1, kept for ever if frame
  backing,  \* how often each page frame has been populated with memory
  sizes,    \* the sizes requested in this behaviour
  halt      \* "none", "crash" (crash() was called) or the BUG reached

paVars == <<a, hole, in_increase_memory, stack, blocks, backing, sizes, halt>>

PageFrames == 0..(MaxEnd - 1)
PageRun(p, n) == p..(p + n - 1)
is_bulk(n) == n >= BULK_ALLOCATION

\* init_page_allocator, resize_phys_to_machine_mapping_table
PaInit ==
  /\ a = [map |-> FirstEnd..(MaxEnd - 1), first_free_page |-> 0,
          first_free_bulk_page |-> FirstBulk, end_alloc_page |-> FirstEnd]
  /\ hole = [start_pfn |-> FirstEnd, end_pfn |-> MaxEnd, linked |-> TRUE]
  /\ in_increase_memory = FALSE
  /\ stack = [t \in Threads |-> << >>]
  /\ blocks = {}
  /\ backing = [p \in PageFrames |-> IF p < FirstEnd THEN 1 ELSE 0]
  /\ sizes \in Workloads
  /\ halt = "none"

-----------------------------------------------------------------------------
(* The search, with bitmap_lock held *)

\* Where n free pages follow one another between lo and hi.
FitsIn(n, lo, hi) == {p \in lo..(hi - n) : PageRun(p, n) \cap a.map = {}}

next_free(page) == Min({p \in page..a.end_alloc_page : p \notin a.map \/ p = a.end_alloc_page})

map_alloc_run(page, n) == [a EXCEPT !.map = @ \cup PageRun(page, n)]

map_free_run(page, n) == [a EXCEPT !.map = @ \ PageRun(page, n)]

\* A run found at page is taken and the hint of the region searched moves up.
Taken(page, n, bulk) ==
  [map_alloc_run(page, n) EXCEPT
     !.first_free_bulk_page = IF bulk /\ page = @ THEN next_free(page + n) ELSE @,
     !.first_free_page      = IF ~bulk /\ page = @ THEN next_free(page + n) ELSE @]

-----------------------------------------------------------------------------
(* Activations *)

Activation(n) ==
  [pc |-> "scan", n |-> n, fallback |-> FALSE, left |-> 0, hole_size |-> 0,
   nn |-> 0, rc |-> 0, result |-> 0]

Running(t, pc) == halt = "none" /\ stack[t] # << >> /\ stack[t][Len(stack[t])].pc = pc
Top(t) == stack[t][Len(stack[t])]
SetTop(t, r) == stack' = [stack EXCEPT ![t][Len(stack[t])] = r]

\* _allocate_pages returns to its caller, or to build_pagetable.
Return(t) ==
  stack' = [stack EXCEPT ![t] =
              IF Len(@) = 1 THEN << >>
              ELSE [SubSeq(@, 1, Len(@) - 1) EXCEPT ![Len(@) - 1].pc = "grown"]]

allocate_pages(t, n) ==
  /\ halt = "none"
  /\ stack[t] = << >>
  /\ stack' = [stack EXCEPT ![t] = <<Activation(n)>>]
  /\ UNCHANGED <<a, hole, in_increase_memory, blocks, backing, halt, sizes>>

\* A failed small request crashes the system, a failed bulk request returns 0.
Failed(t) ==
  /\ in_increase_memory' = FALSE
  /\ halt' = IF is_bulk(Top(t).n) THEN halt ELSE "crash"
  /\ IF is_bulk(Top(t).n) THEN Return(t) ELSE UNCHANGED stack
  /\ UNCHANGED <<a, hole, blocks, backing, sizes>>

can_increase(n) == hole.linked /\ hole.end_pfn - hole.start_pfn >= n

\* The next round of increase_memory_holding_lock: nn pages of the first hole
\* are asked for, bitmap_lock is released.
Round(r, h) ==
  LET size == h.end_pfn - h.start_pfn IN
  [r EXCEPT !.pc = "grow", !.hole_size = size, !.nn = Min({size, r.left})]

\* increase_memory_holding_lock up to the first release of the lock.
increase_memory_holding_lock(t) ==
  LET r == Top(t) IN
  IF in_increase_memory \/ ~can_increase(r.n)
    THEN Failed(t)
    ELSE /\ in_increase_memory' = TRUE
         /\ SetTop(t, Round([r EXCEPT !.left = r.n, !.result = 0, !.fallback = TRUE], hole))
         /\ UNCHANGED <<a, hole, blocks, backing, halt, sizes>>

Found(t, page, bulk) ==
  /\ a' = Taken(page, Top(t).n, bulk)
  /\ blocks' = blocks \cup {[page |-> page, n |-> Top(t).n, frame |-> Len(stack[t]) > 1]}
  /\ Return(t)
  /\ UNCHANGED <<hole, in_increase_memory, backing, halt, sizes>>

\* The loop of _allocate_pages: the small region, unless the request is bulk or
\* has fallen back, then the bulk region, then more memory.
_allocate_pages(t) ==
  /\ Running(t, "scan")
  /\ LET n     == Top(t).n
         small == IF is_bulk(n) \/ Top(t).fallback THEN {}
                  ELSE FitsIn(n, a.first_free_page, FirstBulk)
         bulk  == FitsIn(n, a.first_free_bulk_page, a.end_alloc_page)
     IN  \/ small # {} /\ Found(t, Min(small), FALSE)
         \/ small = {} /\ bulk # {} /\ Found(t, Min(bulk), TRUE)
         \/ small = {} /\ bulk = {} /\ increase_memory_holding_lock(t)

\* Mutant: the extents start one page frame late.
increase_reservation_off_by_one(t) ==
  /\ Running(t, "grow")
  /\ LET r == Top(t) IN
     \E rc \in 0..r.nn :
       /\ backing' = [p \in PageFrames |-> IF p \in PageRun(hole.start_pfn + 1, rc)
                                        THEN backing[p] + 1 ELSE backing[p]]
       /\ SetTop(t, [r EXCEPT !.pc = "grown", !.rc = rc])
  /\ UNCHANGED <<a, hole, in_increase_memory, blocks, halt, sizes>>

\* increase_reservation, without the lock: Xen populates rc of the nn pages, and
\* mapping them may take a page table frame.
increase_reservation(t) ==
  /\ Running(t, "grow")
  /\ LET r == Top(t) IN
     IF hole.end_pfn - hole.start_pfn < r.nn
       THEN halt' = "hole" /\ UNCHANGED <<stack, backing>>
       ELSE \E rc \in 0..r.nn :
              /\ backing' = [p \in PageFrames |-> IF p \in PageRun(hole.start_pfn, rc)
                                               THEN backing[p] + 1 ELSE backing[p]]
              /\ \E pc \in IF rc = 0 THEN {"grown"} ELSE {"grown", "pt"} :
                   SetTop(t, [r EXCEPT !.pc = pc, !.rc = rc])
              /\ UNCHANGED halt
  /\ UNCHANGED <<a, hole, in_increase_memory, blocks, sizes>>

\* build_pagetable allocates a frame.
pfn_alloc_alloc(t) ==
  /\ Running(t, "pt")
  /\ stack' = [stack EXCEPT ![t] = Append(@, Activation(1))]
  /\ UNCHANGED <<a, hole, in_increase_memory, blocks, backing, halt, sizes>>

\* The pages obtained become free pages of the bulk region.
Grown(r) ==
  [map_free_run(hole.start_pfn, r.rc) EXCEPT !.end_alloc_page = Max({@, hole.start_pfn + r.rc})]

\* The hole without the pages taken, or unlinked.
Shrunk(r) ==
  IF r.hole_size = r.rc THEN [hole EXCEPT !.linked = FALSE]
  ELSE [hole EXCEPT !.start_pfn = @ + r.rc]

\* A reservation was granted in full or in part.
Granted(t, r) ==
  LET s == [r EXCEPT !.left = @ - r.rc, !.result = @ + r.rc]
      again == s.left > 0
  IN  /\ a' = Grown(r)
      /\ hole' = Shrunk(r)
      /\ in_increase_memory' = (in_increase_memory /\ again)
      /\ SetTop(t, IF again THEN Round(s, hole') ELSE [s EXCEPT !.pc = "scan"])
      /\ halt' = IF again /\ ~hole'.linked THEN "no_hole" ELSE halt
      /\ UNCHANGED <<blocks, backing, sizes>>

\* The search is resumed.
Rescan(t, r) ==
  /\ in_increase_memory' = FALSE
  /\ SetTop(t, [r EXCEPT !.pc = "scan"])
  /\ UNCHANGED <<a, hole, blocks, backing, halt, sizes>>

\* Mutant: the search is resumed even when nothing was granted.
AfterReservation_retries(t) ==
  LET r == Top(t) IN
  /\ Running(t, "grown")
  /\ IF r.rc = 0 THEN Rescan(t, r) ELSE Granted(t, r)

\* increase_memory_holding_lock with the lock taken again.
AfterReservation(t) ==
  LET r == Top(t) IN
  /\ Running(t, "grown")
  /\ \/ r.rc > 0 /\ Granted(t, r)
     \/ r.rc = 0 /\ r.result > 0 /\ Rescan(t, r)
     \/ r.rc = 0 /\ r.result = 0 /\ Failed(t)

\* The hint of the region that the size of the block stands for moves down.
deallocate_pages(b) ==
  /\ halt = "none"
  /\ b \in blocks /\ ~b.frame
  /\ a' = [map_free_run(b.page, b.n) EXCEPT
             !.first_free_bulk_page = IF is_bulk(b.n) THEN Min({@, b.page}) ELSE @,
             !.first_free_page      = IF is_bulk(b.n) THEN @ ELSE Min({@, b.page})]
  /\ blocks' = blocks \ {b}
  /\ UNCHANGED <<hole, in_increase_memory, stack, backing, halt, sizes>>

Step(t) ==
  \/ _allocate_pages(t)
  \/ increase_reservation(t)
  \/ pfn_alloc_alloc(t)
  \/ AfterReservation(t)

PaNext ==
  \/ \E t \in Threads : Step(t) \/ \E n \in sizes : allocate_pages(t, n)
  \/ \E b \in blocks : deallocate_pages(b)

PaSpec == PaInit /\ [][PaNext]_paVars

\* A thread that is in the allocator runs on.
FairSpec == PaSpec /\ \A t \in Threads : WF_paVars(Step(t))

-----------------------------------------------------------------------------
(* Properties *)

\* No page belongs to two blocks; the pages of a block are marked in the bitmap
\* and backed by memory that was populated exactly once: an increase_reservation
\* never replaces memory in use.
BlocksDisjoint ==
  /\ \A b \in blocks : \A p \in PageRun(b.page, b.n) : p \in a.map /\ backing[p] = 1
  /\ \A b, d \in blocks : b # d => PageRun(b.page, b.n) \cap PageRun(d.page, d.n) = {}

\* Exactly the pages of blocks and of the hole are marked: no page is lost, and
\* none is offered that the hole still contains.
NoPageLost ==
  a.map = (UNION {PageRun(b.page, b.n) : b \in blocks}) \cup
          (IF hole.linked THEN hole.start_pfn..(hole.end_pfn - 1) ELSE {})

\* A search starts at or below the first free page of its region: always in the
\* small region, and in the bulk region while only bulk requests are made.
FreePagesFindable ==
  \A p \in 0..(a.end_alloc_page - 1) \ a.map :
    IF p < FirstBulk THEN a.first_free_page <= p
    ELSE (\A n \in sizes : is_bulk(n)) => a.first_free_bulk_page <= p

\* The assertion of increase_reservation holds and the list of holes is not
\* empty where its head is used.
NoBug == halt \notin {"hole", "no_hole"}

\* Whatever Xen grants and however requests are nested: the assertions hold, no
\* page is in two blocks, lost or offered twice, and searches find what is free
\* (_allocate_pages, increase_memory_holding_lock, deallocate_pages).
PagesAccounted == NoBug /\ BlocksDisjoint /\ NoPageLost /\ FreePagesFindable

\* _allocate_pages returns, or crashes for want of memory, however much of each
\* reservation Xen grants.
AllocationReturns == \A t \in Threads : (stack[t] # << >>) ~> (stack[t] = << >> \/ halt # "none")
=============================================================================
