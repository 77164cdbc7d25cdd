------------------------------- MODULE Grants -------------------------------
(* The grant table (gnttab.c): the free list of references, threaded        *)
(* through an array whose entry 0 is the head, and the entries shared with   *)
(* the hypervisor, whose flags both sides change.                            *)
(*                                                                           *)
(* Writes of an entry are separate steps, so the backend can map between any *)
(* two of them.  gnttab_lock is held for whole steps.                        *)
EXTENDS Integers, FiniteSets, FiniteSetsExt

CONSTANTS
  GrantThreads,
  NR_RESERVED_ENTRIES, NR_GRANT_ENTRIES,
  Frames,       \* frames granted
  NoFrame

ASSUME GrantsAssumption ==
  /\ NR_RESERVED_ENTRIES \in Nat \ {0} /\ NR_GRANT_ENTRIES \in Nat
  /\ NR_GRANT_ENTRIES > NR_RESERVED_ENTRIES
  /\ NoFrame \notin Frames

VARIABLES
  gnttab_list,   \* next free reference of each, 0 at the end
  gnttab_table,  \* flags and frame of each shared entry
  gnt,           \* each thread's call
  granted,       \* references callers hold, with what they stand for
  mapping,       \* frames the backend has mapped, or given, by reference
  gntBug         \* a BUG_ON fired

gntVars == <<gnttab_list, gnttab_table, gnt, granted, mapping, gntBug>>

Refs == NR_RESERVED_ENTRIES..(NR_GRANT_ENTRIES - 1)
NoGrant == [use |-> "none", frame |-> NoFrame]
GntIdle == [step |-> "idle"]
InUse == {"reading", "writing"}

\* init_frames puts the references from the first on; the last is the head.
GntInit ==
  /\ gnttab_list = [r \in 0..(NR_GRANT_ENTRIES - 1) |->
                      CASE r = 0 -> NR_GRANT_ENTRIES - 1
                        [] r \in Refs /\ r > NR_RESERVED_ENTRIES -> r - 1 [] OTHER -> 0]
  /\ gnttab_table = [r \in Refs |-> [flags |-> {}, frame |-> NoFrame]]
  /\ gnt = [t \in GrantThreads |-> GntIdle]
  /\ granted = [r \in Refs |-> NoGrant]
  /\ mapping = [r \in Refs |-> NoFrame]
  /\ gntBug = FALSE

put_free_entry(ref) == gnttab_list' = [gnttab_list EXCEPT ![ref] = gnttab_list[0], ![0] = ref]
get_free_entry ==
  IF gnttab_list[0] \in Refs
  THEN gnttab_list' = [gnttab_list EXCEPT ![0] = gnttab_list[@]] /\ gntBug' = gntBug
  ELSE gntBug' = TRUE /\ gnttab_list' = gnttab_list

\* ---- gnttab_grant_access, gnttab_grant_transfer ----
\* Domain and frame are written first ...
Grant(t, use, frame) ==
  /\ gnt[t].step = "idle" /\ get_free_entry
  /\ gnt' = [gnt EXCEPT ![t] =
               IF gntBug' THEN GntIdle
               ELSE [step |-> "fill", ref |-> gnttab_list[0], use |-> use, frame |-> frame]]
  /\ UNCHANGED <<gnttab_table, granted, mapping>>
FillEntry(t) ==
  /\ gnt[t].step = "fill"
  /\ gnttab_table' = [gnttab_table EXCEPT ![gnt[t].ref].frame = gnt[t].frame]
  /\ gnt' = [gnt EXCEPT ![t].step = "flags"]
  /\ UNCHANGED <<gnttab_list, granted, mapping, gntBug>>
\* ... and the flags, which permit the backend to use the entry, last.
FlagsOf(use) ==
  CASE use = "access" -> {"permit"} [] use = "readonly" -> {"permit", "ro"}
    [] use = "transfer" -> {"accept"}
SetFlags(t) ==
  /\ gnt[t].step = "flags"
  /\ gnttab_table' = [gnttab_table EXCEPT ![gnt[t].ref].flags = FlagsOf(gnt[t].use)]
  /\ granted' = [granted EXCEPT ![gnt[t].ref] = [use |-> gnt[t].use, frame |-> gnt[t].frame]]
  /\ gnt' = [gnt EXCEPT ![t] = GntIdle]
  /\ UNCHANGED <<gnttab_list, mapping, gntBug>>

\* ---- gnttab_end_access ----
NobodyEnds(r) == \A t \in GrantThreads : gnt[t].step \in {"end", "free", "await"} => gnt[t].ref # r
EndAccess(t, r) ==
  /\ gnt[t].step = "idle" /\ granted[r].use \in {"access", "readonly"} /\ NobodyEnds(r)
  /\ gnt' = [gnt EXCEPT ![t] = [step |-> "end", ref |-> r, flags |-> gnttab_table[r].flags]]
  /\ UNCHANGED <<gnttab_list, gnttab_table, granted, mapping, gntBug>>
\* Mutant: the flags are cleared without a comparison.
CompareAndClear_blind(t) ==
  LET r == gnt[t].ref IN
  /\ gnt[t].step = "end" /\ granted[r].use # "transfer"
  /\ IF gnt[t].flags \cap InUse # {}
     THEN gnt' = [gnt EXCEPT ![t] = GntIdle] /\ UNCHANGED gnttab_table
     ELSE /\ gnttab_table' = [gnttab_table EXCEPT ![r].flags = {}]
          /\ gnt' = [gnt EXCEPT ![t] = [step |-> "free", ref |-> r]]
  /\ UNCHANGED <<gnttab_list, granted, mapping, gntBug>>
\* An entry in use stays granted; otherwise the flags seen are exchanged for
\* none, and if they have changed meanwhile the new ones are looked at.
CompareAndClear(t) ==
  LET r == gnt[t].ref IN
  /\ gnt[t].step = "end" /\ granted[r].use # "transfer"
  /\ IF gnt[t].flags \cap InUse # {}
     THEN gnt' = [gnt EXCEPT ![t] = GntIdle] /\ UNCHANGED gnttab_table
     ELSE IF gnttab_table[r].flags = gnt[t].flags
     THEN /\ gnttab_table' = [gnttab_table EXCEPT ![r].flags = {}]
          /\ gnt' = [gnt EXCEPT ![t] = [step |-> "free", ref |-> r]]
     ELSE gnt' = [gnt EXCEPT ![t].flags = gnttab_table[r].flags] /\ UNCHANGED gnttab_table
  /\ UNCHANGED <<gnttab_list, granted, mapping, gntBug>>
FreeEntry(t) ==
  LET r == gnt[t].ref IN
  /\ gnt[t].step = "free" /\ put_free_entry(r)
  /\ granted' = [granted EXCEPT ![r] = NoGrant]
  /\ mapping' = IF granted[r].use = "transfer" THEN [mapping EXCEPT ![r] = NoFrame] ELSE mapping
  /\ gnt' = [gnt EXCEPT ![t] = GntIdle]
  /\ UNCHANGED <<gnttab_table, gntBug>>

\* ---- gnttab_end_transfer ----
EndTransfer(t, r) ==
  /\ gnt[t].step = "idle" /\ granted[r].use = "transfer" /\ NobodyEnds(r)
  /\ gnt' = [gnt EXCEPT ![t] = [step |-> "end", ref |-> r, flags |-> gnttab_table[r].flags]]
  /\ UNCHANGED <<gnttab_list, gnttab_table, granted, mapping, gntBug>>
\* Revoked unless it was committed; then the frame is waited for.
RevokeTransfer(t) ==
  LET r == gnt[t].ref IN
  /\ gnt[t].step = "end" /\ granted[r].use = "transfer"
  /\ IF "committed" \in gnt[t].flags
     THEN gnt' = [gnt EXCEPT ![t].step = "await"] /\ UNCHANGED gnttab_table
     ELSE IF gnttab_table[r].flags = gnt[t].flags
     THEN /\ gnttab_table' = [gnttab_table EXCEPT ![r].flags = {}]
          /\ gnt' = [gnt EXCEPT ![t] = [step |-> "free", ref |-> r]]
     ELSE gnt' = [gnt EXCEPT ![t].flags = gnttab_table[r].flags] /\ UNCHANGED gnttab_table
  /\ UNCHANGED <<gnttab_list, granted, mapping, gntBug>>
AwaitFrame(t) ==
  /\ gnt[t].step = "await" /\ "completed" \in gnttab_table[gnt[t].ref].flags
  /\ gnt' = [gnt EXCEPT ![t] = [step |-> "free", ref |-> gnt[t].ref]]
  /\ UNCHANGED <<gnttab_list, gnttab_table, granted, mapping, gntBug>>

\* ---- The backend, through the hypervisor ----
MapGrant(r, use) ==
  /\ "permit" \in gnttab_table[r].flags /\ gnttab_table[r].flags \cap InUse = {}
  /\ use = "writing" => "ro" \notin gnttab_table[r].flags
  /\ gnttab_table' = [gnttab_table EXCEPT ![r].flags = @ \cup {"reading", use}]
  /\ mapping' = [mapping EXCEPT ![r] = gnttab_table[r].frame]
  /\ UNCHANGED <<gnttab_list, gnt, granted, gntBug>>
UnmapGrant(r) ==
  /\ gnttab_table[r].flags \cap InUse # {}
  /\ gnttab_table' = [gnttab_table EXCEPT ![r].flags = @ \ InUse]
  /\ mapping' = [mapping EXCEPT ![r] = NoFrame]
  /\ UNCHANGED <<gnttab_list, gnt, granted, gntBug>>
CommitTransfer(r) ==
  /\ "accept" \in gnttab_table[r].flags /\ "committed" \notin gnttab_table[r].flags
  /\ gnttab_table' = [gnttab_table EXCEPT ![r].flags = @ \cup {"committed"}]
  /\ UNCHANGED <<gnttab_list, gnt, granted, mapping, gntBug>>
CompleteTransfer(r, frame) ==
  /\ "committed" \in gnttab_table[r].flags /\ "completed" \notin gnttab_table[r].flags
  /\ gnttab_table' = [gnttab_table EXCEPT ![r] = [flags |-> @.flags \cup {"completed"}, frame |-> frame]]
  /\ mapping' = [mapping EXCEPT ![r] = frame]
  /\ UNCHANGED <<gnttab_list, gnt, granted, gntBug>>

GntStep ==
  \/ \E t \in GrantThreads :
       \/ \E use \in {"access", "readonly", "transfer"}, frame \in Frames : Grant(t, use, frame)
       \/ FillEntry(t) \/ SetFlags(t) \/ CompareAndClear(t) \/ FreeEntry(t)
       \/ RevokeTransfer(t) \/ AwaitFrame(t)
       \/ \E r \in Refs : EndAccess(t, r) \/ EndTransfer(t, r)
  \/ \E r \in Refs :
       \/ \E use \in InUse : MapGrant(r, use)
       \/ UnmapGrant(r) \/ CommitTransfer(r)
       \/ \E frame \in Frames : CompleteTransfer(r, frame)
GntNext == ~gntBug /\ GntStep

\* ---- Properties ----
\* The references on the free list: those that every set has that has the head
\* and, with a reference, the next.
Entries == 0..(NR_GRANT_ENTRIES - 1)
IsChain(S) == \A r \in S \cup {0} : gnttab_list[r] \in S \cup {0}
FreeRefs == {r \in Entries \ {0} : \A S \in SUBSET Entries : IsChain(S) => r \in S}
HeldRefs == {r \in Refs : granted[r] # NoGrant}
FillingRefs == {gnt[t].ref : t \in {u \in GrantThreads : gnt[u].step \in {"fill", "flags"}}}

\* Whatever grants, revocations and mappings cross: every reference is on the
\* free list once, being filled or held by a caller, and in only one of these;
\* the backend never has a frame other than the one the holder granted (or,
\* for a transfer, put there), so an entry cannot be seen half written nor
\* reused while it is mapped; a mapped entry says so; and an entry nobody holds
\* permits nothing (a completed transfer leaves its flags behind).
GrantsSound ==
  /\ FreeRefs \cup FillingRefs \cup HeldRefs = Refs
  /\ FreeRefs \cap (FillingRefs \cup HeldRefs) = {} /\ FillingRefs \cap HeldRefs = {}
  /\ \A r, s \in {0} \cup FreeRefs : r # s /\ gnttab_list[r] = gnttab_list[s] => gnttab_list[r] = 0
  /\ \A r \in Refs : mapping[r] # NoFrame =>
       /\ r \in HeldRefs /\ gnttab_table[r].flags \cap (InUse \cup {"completed"}) # {}
       /\ granted[r].use = "transfer" \/ mapping[r] = granted[r].frame
       /\ gnttab_table[r].frame = mapping[r]
  /\ \A r \in Refs \ HeldRefs :
       gnttab_table[r].flags \in {{}, {"accept", "committed", "completed"}}

-----------------------------------------------------------------------------
(* Mapping other domains' grants (gntmap.c): a table of entries filled and   *)
(* emptied one hypercall at a time, where any hypercall may fail half-way    *)
(* through a request.  The caller of a map serialises its calls.             *)

CONSTANTS
  MaxGrants,    \* DEFAULT_MAX_GRANTS, and the size a caller may ask for
  MaxCount,     \* bound: grants of one request
  Addresses     \* addresses allocate_ondemand has

ASSUME GrantMapsAssumption ==
  /\ MaxGrants \in Nat \ {0} /\ MaxCount \in Nat /\ Addresses \subseteq Nat \ {0}

VARIABLES
  nentries,     \* 0 while there is no table
  entries,      \* host_addr of each entry, 0 when it is free
  job,          \* the request being carried out
  hypMapped,    \* addresses at which the hypervisor has mapped a grant
  regions,      \* requests that were granted: first address and count
  unmapFailed   \* an unmap hypercall failed

gmVars == <<nentries, entries, job, hypMapped, regions, unmapFailed>>

NoJob == [op |-> "none", addr |-> 0, i |-> 0, count |-> 0]
Table == 1..MaxGrants

\* gntmap_init.
GmInit ==
  /\ nentries = 0 /\ entries = [k \in Table |-> 0]
  /\ job = NoJob /\ hypMapped = {} /\ regions = {} /\ unmapFailed = FALSE

used(k) == entries[k] # 0
FreeEntries == {k \in 1..nentries : ~used(k)}
EntriesAt(addr) == {k \in 1..nentries : entries[k] = addr}
MapPages(addr, n) == addr..(addr + n - 1)

\* gntmap_set_max_grants, refused once there is a table.
gntmap_set_max_grants(count) ==
  /\ job = NoJob /\ nentries = 0
  /\ nentries' = count /\ entries' = [k \in Table |-> 0]
  /\ UNCHANGED <<job, hypMapped, regions, unmapFailed>>

\* gntmap_map_grant_refs: a range nothing is mapped in, then one hypercall a page.
gntmap_map_grant_refs(addr, count) ==
  /\ job = NoJob /\ MapPages(addr, count) \subseteq Addresses \ hypMapped
  /\ nentries' = IF nentries = 0 THEN MaxGrants ELSE nentries
  /\ job' = [op |-> "map", addr |-> addr, i |-> 0, count |-> count]
  /\ UNCHANGED <<entries, hypMapped, regions, unmapFailed>>
MapOne ==
  /\ job.op = "map" /\ job.i < job.count /\ FreeEntries # {}
  /\ entries' = [entries EXCEPT ![Min(FreeEntries)] = job.addr + job.i]
  /\ hypMapped' = hypMapped \cup {job.addr + job.i}
  /\ job' = [job EXCEPT !.i = @ + 1]
  /\ UNCHANGED <<nentries, regions, unmapFailed>>
\* No entry is left or the hypercall failed: what was mapped is unmapped.
MapFails ==
  /\ job.op = "map" /\ job.i < job.count
  /\ job' = [job EXCEPT !.op = "undo", !.i = 0, !.count = job.i]
  /\ UNCHANGED <<nentries, entries, hypMapped, regions, unmapFailed>>
MapDone ==
  /\ job.op = "map" /\ job.i = job.count
  /\ regions' = regions \cup {[addr |-> job.addr, count |-> job.count]} /\ job' = NoJob
  /\ UNCHANGED <<nentries, entries, hypMapped, unmapFailed>>

\* gntmap_munmap of a range, by its owner or to undo a request that failed; it
\* stops at the first page that has no entry or cannot be unmapped.
gntmap_munmap(region) ==
  /\ job = NoJob /\ region \in regions
  /\ regions' = regions \ {region}
  /\ job' = [op |-> "unmap", addr |-> region.addr, i |-> 0, count |-> region.count]
  /\ UNCHANGED <<nentries, entries, hypMapped, unmapFailed>>
UnmapEntry(k) ==
  /\ entries' = [entries EXCEPT ![k] = 0] /\ hypMapped' = hypMapped \ {entries[k]}
UnmapOne ==
  /\ job.op \in {"unmap", "undo"} /\ job.i < job.count /\ EntriesAt(job.addr + job.i) # {}
  /\ UnmapEntry(Min(EntriesAt(job.addr + job.i)))
  /\ job' = [job EXCEPT !.i = @ + 1]
  /\ UNCHANGED <<nentries, regions, unmapFailed>>
UnmapFails ==
  /\ job.op \in {"unmap", "undo"} /\ job.i < job.count
  /\ job' = NoJob /\ unmapFailed' = TRUE
  /\ UNCHANGED <<nentries, entries, hypMapped, regions>>
UnmapDone ==
  /\ job.op \in {"unmap", "undo"} /\ job.i = job.count /\ job' = NoJob
  /\ UNCHANGED <<nentries, entries, hypMapped, regions, unmapFailed>>

\* gntmap_fini: every used entry is unmapped, failures are passed over, and the
\* table is given up.
gntmap_fini ==
  /\ job = NoJob /\ nentries > 0
  /\ job' = [NoJob EXCEPT !.op = "fini", !.i = 1]
  /\ UNCHANGED <<nentries, entries, hypMapped, regions, unmapFailed>>
FiniOne(fails) ==
  /\ job.op = "fini" /\ job.i <= nentries
  /\ fails => used(job.i)
  /\ IF used(job.i) /\ ~fails THEN UnmapEntry(job.i) ELSE UNCHANGED <<entries, hypMapped>>
  /\ unmapFailed' = (unmapFailed \/ fails)
  /\ job' = [job EXCEPT !.i = @ + 1]
  /\ UNCHANGED <<nentries, regions>>
FiniDone ==
  /\ job.op = "fini" /\ job.i > nentries
  /\ nentries' = 0 /\ entries' = [k \in Table |-> 0] /\ regions' = {} /\ job' = NoJob
  /\ UNCHANGED <<hypMapped, unmapFailed>>

GmNext ==
  \/ \E count \in Table : gntmap_set_max_grants(count)
  \/ \E addr \in Addresses, count \in 1..MaxCount : gntmap_map_grant_refs(addr, count)
  \/ MapOne \/ MapFails \/ MapDone
  \/ \E region \in regions : gntmap_munmap(region)
  \/ UnmapOne \/ UnmapFails \/ UnmapDone
  \/ gntmap_fini \/ FiniDone
  \/ \E fails \in BOOLEAN : FiniOne(fails)

\* ---- Properties ----
Recorded == {entries[k] : k \in {j \in 1..nentries : used(j)}}

\* What the hypervisor has mapped is recorded, one entry a page, until the
\* table is given up, and then nothing is left unless an unmap failed; a
\* granted request is mapped entirely and for itself alone; and a request that
\* failed, or was unmapped, leaves nothing mapped unless an unmap failed.
MappingsAreRecorded ==
  /\ Recorded \subseteq hypMapped /\ (~unmapFailed => Recorded = hypMapped)
  /\ \A j, k \in 1..nentries : j # k /\ used(j) => entries[j] # entries[k]
  /\ job.op # "fini" => \A g \in regions :
       /\ MapPages(g.addr, g.count) \subseteq Recorded
       /\ \A h \in regions \ {g} : MapPages(g.addr, g.count) \cap MapPages(h.addr, h.count) = {}
  /\ job = NoJob /\ ~unmapFailed =>
       hypMapped = UNION {MapPages(g.addr, g.count) : g \in regions}
=============================================================================
