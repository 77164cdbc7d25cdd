----------------------------- MODULE PageBitmap -----------------------------
(***************************************************************************)
(* The words of alloc_bitmap (mm.c): map_alloc and map_free set and clear   *)
(* a run of bits that may begin and end inside a word, and _allocate_pages  *)
(* searches the bits with two nested loops.  A word is the set of its bits  *)
(* that are set, so a mask (1UL<<k)-1 is 0..k-1 and -(1UL<<k) is k..PW-1.   *)
(* The specification keeps beside the words the set of pages that should   *)
(* be marked, which is how PageAllocator sees the bitmap.                   *)
(***************************************************************************)
EXTENDS Integers, FiniteSets, FiniteSetsExt

CONSTANTS
  PAGES_PER_MAPWORD,
  MapWords,     \* words of the bitmap
  MaxRun     \* bound: longest run of pages allocated or searched for

ASSUME WordsAssumption ==
  PAGES_PER_MAPWORD \in Nat \ {0} /\ MapWords \in Nat \ {0} /\ MaxRun \in Nat

VARIABLES
  alloc_bitmap,  \* the words, and the word of memory behind them
  marked         \* the pages that are allocated

bmVars == <<alloc_bitmap, marked>>

PW == PAGES_PER_MAPWORD
BmPages == 0..(PW * MapWords - 1)
MapWord == SUBSET (0..(PW - 1))

BmInit ==
  /\ alloc_bitmap = [w \in 0..MapWords |-> 0..(PW - 1)]
  /\ marked = BmPages

allocated_in_map(p) == (p % PW) \in alloc_bitmap[p \div PW]

map_alloc(first_page, nr_pages) ==
  LET first == first_page \div PW  start_off == first_page % PW
      last == (first_page + nr_pages) \div PW  end_off == (first_page + nr_pages) % PW
  IN  [w \in 0..MapWords |->
         IF w < first \/ w > last THEN alloc_bitmap[w]
         ELSE IF first = last
           THEN alloc_bitmap[w] \cup ((0..(end_off - 1)) \cap (start_off..(PW - 1)))
         ELSE IF w = first THEN alloc_bitmap[w] \cup (start_off..(PW - 1))
         ELSE IF w < last THEN 0..(PW - 1)
         ELSE alloc_bitmap[w] \cup (0..(end_off - 1))]

map_free(first_page, nr_pages) ==
  LET first == first_page \div PW  start_off == first_page % PW
      last == (first_page + nr_pages) \div PW  end_off == (first_page + nr_pages) % PW
  IN  [w \in 0..MapWords |->
         IF w < first \/ w > last THEN alloc_bitmap[w]
         ELSE IF first = last
           THEN alloc_bitmap[w] \cap ((end_off..(PW - 1)) \cup (0..(start_off - 1)))
         ELSE IF w = first THEN alloc_bitmap[w] \cap (0..(start_off - 1))
         ELSE IF w < last THEN {}
         ELSE alloc_bitmap[w] \cap (end_off..(PW - 1))]

\* Where the inner loop of the search for n pages from page stops: behind the
\* run, at the end of the region or at a marked page.
InnerLoop(page, n, end) ==
  Min({q \in (page + 1)..end : q = page + n \/ q = end \/ allocated_in_map(q)})

\* The page found by the outer loop, -1 if there is none.
BmSearch(n, start, end) ==
  LET from[page \in start..(end + 2)] ==
        IF page >= end THEN -1
        ELSE IF allocated_in_map(page) THEN from[page + 1]
        ELSE LET q == InnerLoop(page, n, end) IN
             IF q = page + n THEN page
             ELSE IF q = end THEN from[page + 1] ELSE from[q + 1]
  IN  from[start]

BmAllocate(p, n) ==
  /\ p..(p + n - 1) \subseteq BmPages \ marked
  /\ alloc_bitmap' = map_alloc(p, n)
  /\ marked' = marked \cup (p..(p + n - 1))

BmFree(p, n) ==
  /\ p..(p + n - 1) \subseteq marked
  /\ alloc_bitmap' = map_free(p, n)
  /\ marked' = marked \ (p..(p + n - 1))

BmNext == \E p \in BmPages, n \in 1..MaxRun : BmAllocate(p, n) \/ BmFree(p, n)

-----------------------------------------------------------------------------
(* Properties *)

\* The words mark exactly the allocated pages, whether a run begins, ends or
\* lies inside a word or fills it.  A run that ends with the last page computes
\* the index of the word behind the bitmap: what is there does not change.
WordsMatchPages ==
  /\ alloc_bitmap \in [0..MapWords -> MapWord]
  /\ marked = {p \in BmPages : allocated_in_map(p)}
  /\ alloc_bitmap[MapWords] = 0..(PW - 1)

\* The two loops of _allocate_pages find the lowest run of n free pages of every
\* region, and nothing when there is none.
SearchFindsFirstFit ==
  \A n \in 1..MaxRun, start \in BmPages, end \in BmPages \cup {PW * MapWords} :
    start <= end =>
      LET fits == {p \in start..(end - n) : p..(p + n - 1) \cap marked = {}} IN
      BmSearch(n, start, end) = IF fits = {} THEN -1 ELSE Min(fits)
=============================================================================
