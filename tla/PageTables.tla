----------------------------- MODULE PageTables -----------------------------
(* The page tables (arch/mm.c): build_pagetable, which walks from the root    *)
(* for each page, adds the tables that are missing and hands the new entries  *)
(* to Xen in batches; single entries; and the search of mm.c for addresses    *)
(* without a mapping.                                                         *)
(*                                                                            *)
(* An address is the number of its page; a table has Fanout entries, and a    *)
(* walk takes Levels of them.  Xen accepts a table only if nobody can write   *)
(* to its frame and each entry is empty or leads to a table it accepted.      *)
EXTENDS Integers, Sequences, FiniteSets, FiniteSetsExt

CONSTANTS
  Fanout, Levels,   \* entries of a table, levels of tables
  Batch,            \* L1_PAGETABLE_ENTRIES, entries handed over at a time
  TableFrames,      \* frames for tables; the lowest is the root
  DemandFrom        \* first address of the demand mapping area

\* Pages below an entry of a table of level l + 1.
Reach[l \in 0..Levels] == IF l = 0 THEN 1 ELSE Fanout * Reach[l - 1]
Pages == 0..(Reach[Levels] - 1)
Root == Min(TableFrames)
Offset(a, l) == (a \div Reach[l - 1]) % Fanout
DataFrame(a) == Max(TableFrames) + 1 + a      \* what pfn_linear_alloc gives for it

ASSUME PageTablesAssumption ==
  /\ Fanout \in Nat \ {0, 1} /\ Levels \in Nat \ {0} /\ Batch \in Nat \ {0}
  /\ TableFrames \subseteq Nat \ {0} /\ TableFrames # {} /\ IsFiniteSet(TableFrames)
  /\ DemandFrom \in Pages

VARIABLES
  table,      \* contents of the table frames, 0 for an entry that is not present
  pinned,     \* the level Xen accepted each table frame for, 0 for none
  readOnly,   \* frames without a writable mapping
  build,      \* the call of build_pagetable
  mapped,     \* what the callers have been told is mapped where
  rejected     \* Xen rejected an update: crash()

ptVars == <<table, pinned, readOnly, build, mapped, rejected>>

NoBuild == [pc |-> "idle", at |-> 0, start |-> 0, end |-> 0, level |-> Levels,
            tab |-> Root, new |-> 0, updates |-> <<>>]
Garbage == DataFrame(0)   \* what a frame holds before it is cleared

PtInit ==
  /\ table = [f \in TableFrames |-> [o \in 0..(Fanout - 1) |-> IF f = Root THEN 0 ELSE Garbage]]
  /\ pinned = [f \in TableFrames |-> IF f = Root THEN Levels ELSE 0]
  /\ readOnly = {Root} /\ build = NoBuild
  /\ mapped = [a \in Pages |-> 0] /\ rejected = FALSE

\* not11_virt_to_pfn: the frame that level l of the walk for a comes to, 0 if
\* an entry on the way is missing; validate asks for the last one.
Walk(a) ==
  LET frame[l \in 1..(Levels + 1)] ==
        IF l = Levels + 1 THEN Root
        ELSE LET tab == frame[l + 1] IN IF tab = 0 THEN 0 ELSE table[tab][Offset(a, l)]
  IN frame
not11_virt_to_pfn(a) == Walk(a)[1]
validate(a) == not11_virt_to_pfn(a) # 0
\* get_pgt: the last table, in which the entry for a is.
get_pgt(a) == Walk(a)[2]

\* ---- build_pagetable_vs ----
Ended == [NoBuild EXCEPT !.pc = "idle"]
build_pagetable(start, end) ==
  /\ build.pc = "idle" /\ start < end
  /\ \A a \in start..(end - 1) : ~validate(a)
  /\ build' = [NoBuild EXCEPT !.pc = "walk", !.at = start, !.start = start, !.end = end]
  /\ UNCHANGED <<table, pinned, readOnly, mapped, rejected>>
Entry == table[build.tab][Offset(build.at, build.level)]
Descend ==
  /\ build.pc = "walk" /\ build.level > 1 /\ Entry # 0
  /\ build' = [build EXCEPT !.tab = Entry, !.level = @ - 1]
  /\ UNCHANGED <<table, pinned, readOnly, mapped, rejected>>
\* env_npf->pfn_alloc: a frame for the missing table.  A failure ends the call,
\* and the entries that wait for the batch to fill are dropped.
FreeFrames == TableFrames \ ({f \in TableFrames : pinned[f] > 0} \cup readOnly)
NoTableFrame ==
  /\ build.pc = "walk" /\ build.level > 1 /\ Entry = 0
  /\ build' = Ended
  /\ UNCHANGED <<table, pinned, readOnly, mapped, rejected>>
TableFrame ==
  /\ build.pc = "walk" /\ build.level > 1 /\ Entry = 0 /\ FreeFrames # {}
  /\ build' = [build EXCEPT !.pc = "clear", !.new = Min(FreeFrames)]
  /\ UNCHANGED <<table, pinned, readOnly, mapped, rejected>>

\* new_pt_frame: clear the frame, ...
ClearFrame ==
  /\ build.pc = "clear"
  /\ table' = [table EXCEPT ![build.new] = [o \in 0..(Fanout - 1) |-> 0]]
  /\ build' = [build EXCEPT !.pc = "protect"]
  /\ UNCHANGED <<pinned, readOnly, mapped, rejected>>
\* ... take away the write permission of its mapping, ...
ProtectFrame ==
  /\ build.pc = "protect"
  /\ readOnly' = readOnly \cup {build.new}
  /\ build' = [build EXCEPT !.pc = "pin"]
  /\ UNCHANGED <<table, pinned, mapped, rejected>>
\* ... have Xen accept it as a table of the next level, ...
Acceptable(f, l) ==
  /\ f \in readOnly
  /\ \A o \in 0..(Fanout - 1) : LET e == table[f][o] IN
       l > 1 => e = 0 \/ (e \in TableFrames /\ pinned[e] = l - 1)
PinFrame ==
  /\ build.pc = "pin"
  /\ IF Acceptable(build.new, build.level - 1)
     THEN /\ pinned' = [pinned EXCEPT ![build.new] = build.level - 1]
          /\ build' = [build EXCEPT !.pc = "link"] /\ rejected' = rejected
     ELSE rejected' = TRUE /\ UNCHANGED <<pinned, build>>
  /\ UNCHANGED <<table, readOnly, mapped>>
\* ... and enter it into the table above.
LinkFrame ==
  /\ build.pc = "link"
  /\ table' = [table EXCEPT ![build.tab][Offset(build.at, build.level)] = build.new]
  /\ build' = [build EXCEPT !.pc = "walk", !.new = 0]
  /\ UNCHANGED <<pinned, readOnly, mapped, rejected>>

\* The entry of the page itself waits until the batch is full or the range ends.
Updated(us) == [f \in TableFrames |-> [o \in 0..(Fanout - 1) |->
  LET mine == {k \in DOMAIN us : us[k].tab = f /\ us[k].offset = o}
  IN IF mine = {} THEN table[f][o] ELSE us[Max(mine)].frame]]
MapPage_unflushed ==    \* Mutant: entries left at the end of the range are dropped.
  /\ build.pc = "walk" /\ build.level = 1
  /\ LET us == Append(build.updates, [tab |-> build.tab, offset |-> Offset(build.at, 1),
                                      frame |-> DataFrame(build.at)])
         full == Len(us) = Batch
     IN /\ table' = IF full THEN Updated(us) ELSE table
        /\ build' = [build EXCEPT !.at = @ + 1, !.level = Levels, !.tab = Root,
                       !.pc = IF build.at + 1 = build.end THEN "built" ELSE "walk",
                       !.updates = IF full THEN <<>> ELSE us]
  /\ UNCHANGED <<pinned, readOnly, mapped, rejected>>
MapPage ==
  /\ build.pc = "walk" /\ build.level = 1
  /\ LET us == Append(build.updates, [tab |-> build.tab, offset |-> Offset(build.at, 1),
                                      frame |-> DataFrame(build.at)])
         full == Len(us) = Batch \/ build.at + 1 = build.end
     IN /\ table' = IF full THEN Updated(us) ELSE table
        /\ build' = [build EXCEPT !.at = @ + 1, !.level = Levels, !.tab = Root,
                       !.pc = IF build.at + 1 = build.end THEN "built" ELSE "walk",
                       !.updates = IF full THEN <<>> ELSE us]
  /\ UNCHANGED <<pinned, readOnly, mapped, rejected>>
Built ==
  /\ build.pc = "built" /\ build' = Ended
  /\ mapped' = [a \in Pages |-> IF a \in build.start..(build.end - 1) THEN DataFrame(a)
                                ELSE mapped[a]]
  /\ UNCHANGED <<table, pinned, readOnly, rejected>>

\* ---- unmap_page_pfn, clear_pte, remap_page_pfn: one entry ----
SetEntry(a, frame) ==
  /\ build.pc = "idle" /\ get_pgt(a) # 0
  /\ table' = [table EXCEPT ![get_pgt(a)][Offset(a, 1)] = frame]
  /\ mapped' = [mapped EXCEPT ![a] = frame]
  /\ UNCHANGED <<pinned, readOnly, build, rejected>>
unmap_page(a) == validate(a) /\ SetEntry(a, 0)
remap_page(a) == ~validate(a) /\ SetEntry(a, DataFrame(a))

BuildStep ==
  \/ Descend \/ NoTableFrame \/ TableFrame
  \/ ClearFrame \/ ProtectFrame \/ PinFrame \/ LinkFrame
  \/ MapPage \/ Built
PtNext ==
  \/ \E start \in Pages, end \in Pages : build_pagetable(start, end)
  \/ BuildStep
  \/ \E a \in Pages : unmap_page(a) \/ remap_page(a)

\* ---- allocate_ondemand: n pages without a mapping, aligned ----
\* x is tried; after a mapped page at x + y the search goes on behind it.
DemandPages == Cardinality({a \in Pages : a >= DemandFrom})
RoundUp(x, alignment) == ((x + alignment - 1) \div alignment) * alignment
allocate_ondemand(n, alignment) ==
  LET present == {y \in 0..(DemandPages - 1) : validate(DemandFrom + y)}
      try[x \in 0..(DemandPages + alignment)] ==
        IF x > DemandPages - n THEN -1
        ELSE LET hit == present \cap x..(x + n - 1)
             IN IF hit = {} THEN x ELSE try[RoundUp(Min(hit) + 1, alignment)]
  IN try[0]
FreeRuns(n, alignment) == {x \in 0..(DemandPages - n) :
  x % alignment = 0 /\ \A y \in x..(x + n - 1) : ~validate(DemandFrom + y)}

\* ---- Properties ----
\* Xen never refuses an update (new_pt_frame: cleared, read-only, accepted and
\* only then linked), and from the root each table leads to tables of the next
\* level, each in one place.
TablesAreAccepted ==
  /\ ~rejected
  /\ \A f, g \in TableFrames, o, q \in 0..(Fanout - 1) :
       pinned[f] > 1 /\ table[f][o] # 0 =>
         /\ table[f][o] \in readOnly /\ pinned[table[f][o]] = pinned[f] - 1
         /\ (pinned[g] > 1 /\ table[g][q] = table[f][o] => f = g /\ o = q)
\* When build_pagetable reports success, each page of the range is mapped to
\* its frame and stays so, whatever tables are added for others, in whatever
\* batches entries were handed over and whichever call fails half-way.
BuiltStaysMapped == \A a \in Pages :
  /\ mapped[a] # 0 => not11_virt_to_pfn(a) = mapped[a]
  /\ not11_virt_to_pfn(a) \in {0, DataFrame(a)}
\* The search for unmapped addresses finds the lowest that fits, also across
\* tables that are missing (allocate_ondemand, get_pgt).
DemandFindsFirst == build.pc = "idle" => \A n \in 1..DemandPages, alignment \in {1, 2} :
  LET runs == FreeRuns(n, alignment)
  IN allocate_ondemand(n, alignment) = IF runs = {} THEN -1 ELSE Min(runs)
=============================================================================
