------------------------------ MODULE MCKernel ------------------------------
(* TLC instance of the kernel's smaller parts: each behaviour exercises one *)
(* of them, the others keep their initial state.                            *)
EXTENDS Xmalloc, PageBitmap, PageTables, Events, Idle, Locks, Clock, Grants,
        Console, XenstorePoll, PteAttr, CLib

CONSTANTS x1, x2, i1, i2, k1, k2, k3, g1, g2, c1, c2

\* ---- Values of the constants ----
BoundTo1 == (1 :> ANY_CPU) @@ (2 :> 1)          \* PortCpu
TwoOnOne == (k1 :> 0) @@ (k2 :> 0) @@ (k3 :> 1) \* LkCpuOf
HandlerOn0 == [x \in {k1, k2, k3, 0, 1} |-> IF x = 1 THEN 0 ELSE 1]   \* MaxLocks
Lines == {<<"n">>, <<"a", "n", "b">>}
Upto(n, S) == UNION {[1..k -> S] : k \in 0..n}
ShortTexts == Upto(3, {32, 45, 48, 49, 57, 97, 120}) \cup [1..4 -> {45, 48, 57, 97, 120}]
Sortable == Upto(6, 1..3)
Words == Upto(3, {44, 97, 98})
TwoBits == {{}} \cup {{b} : b \in 0..31} \cup {{b, 31} : b \in 0..31}
SomeNumbers == {-128, -9, 0, 31, 127}
SomeWidths == {-4, -1, 0, 6}
SomePrecisions == {-1, 0, 3}
OneClock == [on |-> {0}, updates |-> 1, walls |-> 0, ticks |-> 1, reads |-> 1]
TwoWalls == [on |-> {0, 1}, updates |-> 0, walls |-> 1, ticks |-> 2, reads |-> 1]
Work(calls, interrupts, ticks) == [calls |-> calls, interrupts |-> interrupts, ticks |-> ticks]
IdleWork == {Work(2, 0, 0), Work(1, 1, 0), Work(1, 0, 2)}   \* IdBudgets
ClockWork == {OneClock, TwoWalls}               \* Budgets

VARIABLE component
memory == <<xmVars, bmVars, ptVars>>
control == <<evVars, idVars, lkVars, ckVars>>
granting == <<gntVars, gmVars>>
rings == <<conVars, xsVars>>
pure == <<atVars, clVars, csVars>>
vars == <<component, memory, control, granting, rings, pure>>

Init ==
  /\ component \in {"heap", "bitmap", "tables", "events", "idle", "locks", "clock",
                    "grants", "maps", "console", "store", "attr", "simple", "numbers", "strings"}
  /\ XmInit /\ BmInit /\ PtInit /\ GntInit /\ GmInit /\ ConInit /\ XsInit
  /\ AtInit /\ ClInit /\ CsInit
  /\ EvInit /\ (component # "events" => \A p \in Ports : vcpu[p] = 1)
  /\ IdInit /\ (component # "idle" => idBudget = Work(2, 0, 0))
  /\ LkInit /\ (component # "locks" => currentOn[0] = k1)
  /\ CkInit /\ (component # "clock" => left = OneClock)

Next ==
  /\ component' = component
  /\ \/ /\ component = "heap" /\ XmNext
        /\ UNCHANGED <<bmVars, ptVars, control, granting, rings, pure>>
     \/ /\ component = "bitmap" /\ BmNext
        /\ UNCHANGED <<xmVars, ptVars, control, granting, rings, pure>>
     \/ /\ component = "tables" /\ PtNext
        /\ UNCHANGED <<xmVars, bmVars, control, granting, rings, pure>>
     \/ /\ component = "events" /\ EvNext
        /\ UNCHANGED <<memory, idVars, lkVars, ckVars, granting, rings, pure>>
     \/ /\ component = "idle" /\ IdNext
        /\ UNCHANGED <<memory, evVars, lkVars, ckVars, granting, rings, pure>>
     \/ /\ component = "locks" /\ LkNext
        /\ UNCHANGED <<memory, evVars, idVars, ckVars, granting, rings, pure>>
     \/ /\ component = "clock" /\ CkNext
        /\ UNCHANGED <<memory, evVars, idVars, lkVars, granting, rings, pure>>
     \/ /\ component = "grants" /\ GntNext
        /\ UNCHANGED <<memory, control, gmVars, rings, pure>>
     \/ /\ component = "maps" /\ GmNext
        /\ UNCHANGED <<memory, control, gntVars, rings, pure>>
     \/ /\ component = "console" /\ ConNext
        /\ UNCHANGED <<memory, control, granting, xsVars, pure>>
     \/ /\ component = "store" /\ XsNext
        /\ UNCHANGED <<memory, control, granting, conVars, pure>>
     \/ /\ component = "attr" /\ ThreadAttrNext
        /\ UNCHANGED <<memory, control, granting, rings, clVars, csVars>>
     \/ /\ component = "simple" /\ SimpleAttrNext
        /\ UNCHANGED <<memory, control, granting, rings, clVars, csVars>>
     \/ /\ component = "numbers" /\ ClNext
        /\ UNCHANGED <<memory, control, granting, rings, atVars, csVars>>
     \/ /\ component = "strings" /\ CsNext
        /\ UNCHANGED <<memory, control, granting, rings, atVars, clVars>>

Spec == Init /\ [][Next]_vars

\* ---- Properties, of the behaviours that can break them ----
Of(components, P) == component \in components => P

\* The heap's blocks tile its pages, whatever was split and merged; free
\* neighbours are merged and a page without a live block goes back to the page
\* allocator (maybe_split, xfree).  The page bitmap's words mark exactly the
\* allocated pages, also where a run begins or ends inside a word, and the
\* search finds the first fit (map_alloc, map_free, _allocate_pages).
MemoryIsWhole ==
  /\ Of({"heap"}, BlocksTilePages /\ FreeBlocksMerged /\ NoIdlePage)
  /\ Of({"bitmap"}, WordsMatchPages /\ SearchFindsFirstFit)

\* Xen accepts every page table, what was mapped stays mapped through later and
\* failing calls, and an unmapped range is found (build_pagetable,
\* new_pt_frame, allocate_ondemand).
PageTablesHold == Of({"tables"}, TablesAreAccepted /\ BuiltStaysMapped /\ DemandFindsFirst)

\* An event that was signalled is handled, and no port stays masked
\* (do_hypervisor_callback, do_event, bind_evtchn); a processor that has gone
\* to sleep is woken for its threads (idle_thread_fn, block_domain).
EventsAreHandled ==
  /\ Of({"events"}, EventsNotLost /\ QuietPortsAreOpen)
  /\ Of({"idle"}, SleepersWake)

\* Spin locks exclude, and no processor waits for itself (os_spin_lock,
\* os_spin_lock_irqsave, mutex_try_lock).
LocksAreHeld == Of({"locks"}, LocksHoldProcessors)

\* A time is computed from values that belong together, against updates by Xen
\* and timer interrupts at any step (monotonic_clock, gettimeofday).
ClockIsRight ==
  Of({"clock"}, TimeBelongsTogether /\ DayBelongsTogether /\ WallLockIsSafe)

\* A grant is never seen half written nor reused while it is mapped, and a
\* mapping is recorded until it is gone, whichever call or hypercall fails
\* (gnttab.c, gntmap.c).
GrantsAreKept == Of({"grants"}, GrantsSound) /\ Of({"maps"}, MappingsAreRecorded)

\* What is printed is shown and what is typed is read, once and in order
\* (console_print, readbytes); a polled request to the store gets its own
\* answer and leaves the ring empty (xenstore_read, xenstore_write).
RingsAreFaithful ==
  /\ Of({"console"}, ~conBug => OutputIsText /\ OutputIsAnnounced /\ InputIsRead)
  /\ Of({"store"}, PolledReplyIsMine)

\* Attribute objects and threads hold what their owners were told (pthread_attr_*
\* and the like), and the C library's routines return what they are for (lib.c,
\* printf.c).
RoutinesAgree ==
  /\ Of({"attr", "simple"}, SettingsAreKept)
  /\ Of({"numbers"}, ConversionsAgree) /\ Of({"strings"}, StringsAgree)
=============================================================================
