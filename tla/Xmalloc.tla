------------------------------ MODULE Xmalloc ------------------------------
(***************************************************************************)
(* The heap (lib/xmalloc.c) over the page allocator: blocks with a header, *)
(* a free list searched first-fit, splitting on allocation, merging with   *)
(* the neighbours on the same page on free, and return of a page that has  *)
(* become one free block.                                                  *)
(*                                                                         *)
(* Sizes count units of the header's alignment.  A block is its address,   *)
(* which is that of its header, and the size in the header.  freelist_lock *)
(* is held for whole steps; xmalloc_align releases it between its search   *)
(* and xmalloc_new_page.  The page allocator is seen as the set of free    *)
(* pages: it crashes the system rather than fail a request for one page.   *)
(***************************************************************************)
EXTENDS Integers, Sequences, SequencesExt, FiniteSets

CONSTANTS
  XmThreads,
  PAGE_SIZE,
  HDR,        \* sizeof(struct xmalloc_hdr)
  NumPages,   \* bound: pages the page allocator has
  Sizes,      \* sizes requested
  NoBlock

ASSUME SizesAssumption ==
  /\ PAGE_SIZE \in Nat /\ HDR \in Nat \ {0} /\ 2 * HDR <= PAGE_SIZE
  /\ NumPages \in Nat /\ Sizes \subseteq Nat \ {0}

VARIABLES
  freelist,   \* the free blocks, most recently freed first
  live,       \* the blocks callers hold
  free_pages, \* pages of the page allocator that are free
  want,       \* block size each thread still needs, 0 if none
  old         \* the block a thread is reallocating, or NoBlock

xmVars == <<freelist, live, free_pages, want, old>>

Block(addr, size) == [addr |-> addr, size |-> size]
PageOf(b) == b.addr \div PAGE_SIZE
Units(b) == b.addr..(b.addr + b.size - 1)

XmInit ==
  /\ freelist = << >>
  /\ live = {}
  /\ free_pages = 0..(NumPages - 1)
  /\ want = [t \in XmThreads |-> 0]
  /\ old = [t \in XmThreads |-> NoBlock]

-----------------------------------------------------------------------------

\* Mutant: a remainder too small for a block of its own is forgotten.
maybe_split_forgets(addr, size, block, list) ==
  IF block - size >= 2 * HDR
    THEN [hdr |-> Block(addr, size), list |-> <<Block(addr + size, block - size)>> \o list]
    ELSE [hdr |-> Block(addr, size), list |-> list]

\* The block at addr gets size units of its block units; a remainder large
\* enough to be used goes on the free list.
maybe_split(addr, size, block, list) ==
  IF block - size >= 2 * HDR
    THEN [hdr |-> Block(addr, size), list |-> <<Block(addr + size, block - size)>> \o list]
    ELSE [hdr |-> Block(addr, block), list |-> list]

\* The header is added and size rounded up to its alignment, which is the unit.
BlockSize(size) == size + HDR

\* xfree's loop meets free block i: it is merged if it is the neighbour in
\* front of or behind the block being freed, on the same page.
Merge(acc, i) ==
  IF PageOf(i) # PageOf(acc.hdr)
    THEN [acc EXCEPT !.list = Append(@, i)]
  ELSE IF i.addr + i.size = acc.hdr.addr
    THEN [acc EXCEPT !.hdr = Block(i.addr, i.size + acc.hdr.size)]
  ELSE IF acc.hdr.addr + acc.hdr.size = i.addr
    THEN [acc EXCEPT !.hdr = Block(acc.hdr.addr, acc.hdr.size + i.size)]
  ELSE [acc EXCEPT !.list = Append(@, i)]

\* What block b and the free list come to, block by block.
Merged(b) ==
  LET acc[i \in 0..Len(freelist)] ==
        IF i = 0 THEN [hdr |-> b, list |-> << >>] ELSE Merge(acc[i - 1], freelist[i])
  IN  acc[Len(freelist)]

\* xfree of block b.
Release(b) ==
  LET m == Merged(b) IN
  IF b.size >= PAGE_SIZE
    THEN /\ free_pages' = free_pages \cup (PageOf(b)..(PageOf(b) + b.size \div PAGE_SIZE - 1))
         /\ UNCHANGED freelist
  ELSE IF m.hdr.size = PAGE_SIZE
    THEN free_pages' = free_pages \cup {PageOf(b)} /\ freelist' = m.list
    ELSE freelist' = <<m.hdr>> \o m.list /\ UNCHANGED free_pages

-----------------------------------------------------------------------------

XmIdle(t) == want[t] = 0 /\ old[t] = NoBlock

\* The search of xmalloc_align for a block of size units.
Search(size) == SelectInSeq(freelist, LAMBDA b : b.size >= size)

\* The request of thread t is met by block b.
Obtained(t, b) == live' = live \cup {b} /\ want' = [want EXCEPT ![t] = 0]

xmalloc_whole_pages(t, size) ==
  LET n == (size + PAGE_SIZE - 1) \div PAGE_SIZE IN
  /\ \E p \in free_pages :
       /\ p..(p + n - 1) \subseteq free_pages
       /\ free_pages' = free_pages \ (p..(p + n - 1))
       /\ Obtained(t, Block(p * PAGE_SIZE, n * PAGE_SIZE))
  /\ UNCHANGED freelist

FromFreelist(t, size) ==
  LET i == Search(size)
      s == maybe_split(freelist[i].addr, size, freelist[i].size, RemoveAt(freelist, i))
  IN  /\ i > 0
      /\ freelist' = s.list
      /\ Obtained(t, s.hdr)
      /\ UNCHANGED free_pages

\* The search fails; the lock is released before xmalloc_new_page.
NotFound(t, size) ==
  /\ Search(size) = 0
  /\ want' = [want EXCEPT ![t] = size]
  /\ UNCHANGED <<freelist, live, free_pages>>

Allocate(t, size) ==
  \/ size >= PAGE_SIZE /\ xmalloc_whole_pages(t, size)
  \/ size < PAGE_SIZE /\ FromFreelist(t, size)
  \/ size < PAGE_SIZE /\ NotFound(t, size)

xmalloc_align(t, n) ==
  /\ XmIdle(t)
  /\ Allocate(t, BlockSize(n))
  /\ UNCHANGED old

xmalloc_new_page(t) ==
  /\ want[t] > 0
  /\ \E p \in free_pages :
       LET s == maybe_split(p * PAGE_SIZE, want[t], PAGE_SIZE, freelist) IN
       /\ free_pages' = free_pages \ {p}
       /\ freelist' = s.list
       /\ Obtained(t, s.hdr)
  /\ UNCHANGED old

\* Nobody reallocates b.
Settled(b) == \A t \in XmThreads : old[t] # b

xfree(t, b) ==
  /\ XmIdle(t)
  /\ b \in live /\ Settled(b)
  /\ live' = live \ {b}
  /\ Release(b)
  /\ UNCHANGED <<want, old>>

\* A block that is too small is replaced; a block that is not is returned as it
\* is, which is no step.
xrealloc(t, b, n) ==
  /\ XmIdle(t)
  /\ b \in live /\ Settled(b)
  /\ b.size - HDR < n
  /\ Allocate(t, BlockSize(n))
  /\ old' = [old EXCEPT ![t] = b]

\* xrealloc has its new block and has copied into it: it frees the old one.
XreallocFree(t) ==
  /\ want[t] = 0 /\ old[t] # NoBlock
  /\ live' = live \ {old[t]}
  /\ Release(old[t])
  /\ old' = [old EXCEPT ![t] = NoBlock]
  /\ UNCHANGED want

XmNext ==
  \E t \in XmThreads :
    \/ xmalloc_new_page(t)
    \/ XreallocFree(t)
    \/ \E n \in Sizes : xmalloc_align(t, n)
    \/ \E b \in live : xfree(t, b) \/ \E n \in Sizes : xrealloc(t, b, n)

-----------------------------------------------------------------------------
(* Properties *)

FreeBlocks == ToSet(freelist)

\* Live and free blocks tile the pages taken from the page allocator: no unit is
\* in two blocks and none is lost, after any sequence of splits and merges.
BlocksTilePages ==
  /\ \A b, d \in live \cup FreeBlocks : b # d => Units(b) \cap Units(d) = {}
  /\ UNION {Units(b) : b \in live \cup FreeBlocks}
       = {u \in 0..(NumPages * PAGE_SIZE - 1) : u \div PAGE_SIZE \notin free_pages}

\* Neighbours on a page are never both free.
FreeBlocksMerged ==
  \A b, d \in FreeBlocks : PageOf(b) = PageOf(d) => b.addr + b.size # d.addr

\* Every page taken holds a live block: the heap gives back every page it has
\* no use for.
NoIdlePage ==
  \A p \in (0..(NumPages - 1)) \ free_pages :
    \E b \in live : p * PAGE_SIZE \in Units(b) \/ PageOf(b) = p
=============================================================================
