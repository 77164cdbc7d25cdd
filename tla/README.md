# TLA+ models of Stardust

Stardust is a unikernel for Xen: a derivative of Mini-OS with symmetric
multiprocessing, preemption and a pthread library (`src/src/`). This directory
holds TLA+ modules for it, the TLC configurations that check them and TLAPS
proofs about them. `PROJECT.json` maps every definition to the lines of code it
models and lists components, runs, hazards, findings and theorems.

    tlc -workers 2 -config MCSched.cfg MCSched      model-check
    tlapm SchedProofs.tla                           check the proofs

Contents: 1 inventory, 2 modules, 3 runs, 4 what is proved, 5 what is only
model-checked, 6 disagreements and defects met, 7 plan, 8 not modelled.

## 1. Inventory

Paths are relative to `src/src/`.

| Component | State | Operations | Correct when |
|---|---|---|---|
| Semaphores, `semaphores.c` | a value, a list of waiters, a mutex; HIBERNATION flag of threads | create, pend, try_pend, post, count | permits are conserved; waiters are served in order; nobody is lost or woken early |
| Scheduler, `sched.c`, `suspension.c` | flags of each thread; ready, sleep and dead queues; joiner lists; the current thread of each processor | create, schedule, preempt, block/wake, sleep, hibernate/restore, suspend/resume, join, cancel, exit, reap | runnable threads are on the ready queue and run on one processor; no list node is linked twice; joins and sleeps return; dead threads are freed once, when nothing refers to them |
| Page allocator, `mm.c` | bitmap, search hints of the small and the bulk region, end of memory, the hole | allocate_pages, deallocate_pages, growth into the hole | blocks do not overlap, are backed by memory, and no page is lost |
| Page bitmap, `mm.c`, `include/os/bitmap.h` | words of bits | map_alloc, map_free, first-fit search | word operations equal set operations |
| Page tables, `arch/mm.c` | tables, which of them Xen has accepted | build_pagetable, unmap, remap, validate, allocate_ondemand | Xen refuses nothing; what was mapped stays mapped; a free range is found |
| Heap, `lib/xmalloc.c` | free list, block headers | xmalloc, xfree, xrealloc | blocks tile their pages; neighbours are merged; empty pages go back |
| Xenstore client, `xenbus/xenbus.c`, `include/os/wait.h` | request ids, request and reply rings, watches, wait queues | read/write/ls/…, watch, unwatch, read_watch, the xenbus thread and its event handler | each reply reaches its request; ids are not leaked; watch events are in order; requests return |
| Polling Xenstore client, `xenstore.c` | the same rings, an id of its own | xenstore_read, xenstore_write, xenstore_ls | a call gets its own answer and leaves nothing behind |
| Spin locks and mutexes, `spinlock.c`, `mutexes.c` | lock word, owner, preemption count, interrupt flag | lock, unlock, irqsave and irqrestore, try, timed lock | mutual exclusion; no processor waits for itself |
| Completions, `sched.c:987` | a counter, a wait queue | wait, complete, complete_all | no completion is lost |
| Block front end, `blkfront.c` | request ids, shadow entries, ring, device state | read, write, event handler, connection | one completion per request; ids and grants return |
| Grants, `gnttab.c`, `gntmap.c` | free list of references, shared entries, mapped entries | grant access, transfer, end, map, unmap | a reference in use is not reused; what is mapped is recorded |
| Events, `events.c`, `hypervisor.c` | pending and mask bits, selector words, handlers | upcall, bind, rebind, unbind, mask, unmask | no event is lost, no port stays masked |
| Time, `arch/time.c` | shadow copies of Xen's time, wall clock and its lock | monotonic_clock, gettimeofday, timer interrupt | a time is computed from values of one update |
| Console, `console.c` | two byte rings, a queue of readers | print, cprintk, readbytes | what is printed is shown and what is typed is read, once and in order |
| pthreads: synchronisation, `lib/pte/posix` | counters, semaphores and locks of each object | mutex, semaphore, condition variable, read-write lock, barrier, once, spin lock | see `LocksExclude` … `CallReturns` below |
| pthreads: threads and keys, `lib/pte` | thread structures and the queue of reusable ones, handles, associations | create, join, detach, cancel, exit, keys, setspecific | structures are not shared or lost; joins return the right status; values stay with thread and key |
| pthreads: attributes, `lib/pte/posix/pthread_*attr*.c` | attribute objects, parameters of a thread | init, destroy, get, set | objects hold what their owners were told |
| C library, `lib/lib.c`, `lib/printf.c` | none | parsing, printing, sorting, moving | each routine returns what it is for |
| Idle processors, `sched.c:920`, `smp.c:79`, `arch/time.c:192` | processor states, timers, pending interrupts | idle loop, block_domain, kick, timer | a processor with work to do does not stay blocked |
| SMP bring-up, `smp.c`; traps and entry code, `arch/`; start-up | hardware | | see section 8 |

How they interact: every blocking operation ends in the scheduler, which
switches threads on a processor under `ready_lock`. Semaphores hibernate and
restore threads; wait queues block and wake them; the pthread library waits on
semaphores and joins and cancels through its platform layer. The heap takes
pages from the page allocator. The page allocator calls Xen for more memory and,
to map it, builds page tables for whose frames it calls itself. The Xenstore
client, the polling client and the console share rings with another domain and
are driven by event channels. The block front end uses grants, events,
completions and the Xenstore client.

What is hard here: several processors and preemption or an interrupt between any
two instructions outside critical sections; decisions taken under one lock and
used after it was released (join, growth of memory, room on a ring); flags of
one thread written by another; words of the shared pages that Xen or another
domain writes between two reads; one list node shared by several queues; answers
that arrive in parts and in any order; hypercalls that succeed in part; timeouts
and cancellations that race the event waited for. The `hazards` of
`PROJECT.json` list these at the line where they bite, with the properties that
would catch them.

## 2. Modules

| Module | Models | Checked by |
|---|---|---|
| `CountingSemaphore` | abstract FIFO counting semaphore | `Semaphores` (refinement) |
| `Semaphores` | `semaphores.c` with the parts of the scheduler it needs | `Semaphores.cfg`, `SemaphoresProofs` |
| `SemaphoresProofs`, `SchedProofs`, `XenbusProofs`, `BlkfrontProofs`, `PteProofs`, `PteThreadProofs` | theorems about those modules (section 4) | tlapm |
| `MemoryProofs` | theorems about `PageAllocator`, `PageBitmap`, `PageTables`, `Xmalloc` | tlapm |
| `KernelProofs` | theorems about `Locks`, `Clock`, `Grants`, `Events`, `Idle` | tlapm |
| `Sched` | `sched.c`, `suspension.c`, join and cancel of `lib/pte/platform/pte.c` | `MCSched`, `SchedProofs` |
| `PageAllocator` | `mm.c` on sets of pages | `PageAllocator.cfg`, `MemoryProofs` |
| `Xenbus` | `xenbus/xenbus.c`, `include/os/wait.h`, the store | `MCXenbus`, `XenbusProofs` |
| `Disk` | abstract disk: each request served once, its result reported to its caller | `Blkfront` (refinement) |
| `Blkfront` | `blkfront.c`, the completions of `sched.c`, `gnttab.c`, the backend | `MCBlkfront` |
| `PteCommon` | the calls and steps of the pthread library's modules | |
| `PteLocks`, `PteSem`, `PteCond`, `PteMeet` | mutexes, spin locks and read-write locks, semaphores, condition variables, barriers and once (`lib/pte/posix`) | `MCPte`, `PteProofs` |
| `PteThread` | creation, exit, join, detach, cancellation, reuse of structures | `MCPteThreads` |
| `PteKeys` | keys, associations, destructors, the platform's storage | `MCPteThreads` |
| `PteAttr` | attribute objects, scheduling parameters, concurrency | `MCKernel` |
| `Xmalloc` | `lib/xmalloc.c` | `MCKernel`, `MemoryProofs` |
| `PageBitmap` | the word operations and search loops of `mm.c` | `MCKernel`, `MemoryProofs` |
| `PageTables` | page tables of `arch/mm.c`, allocate_ondemand of `mm.c` | `MCKernel`, `MemoryProofs` |
| `Events` | `events.c`, `hypervisor.c`, the hypervisor | `MCKernel`, `KernelProofs` |
| `Idle` | the idle loop of `sched.c`, kicks of `smp.c`, block_domain of `arch/time.c` | `MCKernel`, `KernelProofs` |
| `Locks` | `spinlock.c`, `mutexes.c`, handlers and preemption over them | `MCKernel`, `KernelProofs` |
| `Clock` | `arch/time.c`, Xen's updates | `MCKernel`, `KernelProofs` |
| `Grants` | `gnttab.c`, the backend's mappings and transfers; `gntmap.c` with failing hypercalls | `MCKernel`, `KernelProofs` |
| `Console` | `console.c`, the console backend | `MCKernel` |
| `XenstorePoll` | `xenstore.c`, and the xenbus thread beside it | `MCKernel`, `XenstorePoll.cfg` |
| `CLib` | strtoul and its family, vsnprintf, vsscanf; quicksort, memmove, strings, ffs | `MCKernel` |

Conventions. A step is the body of one critical section, or the code between
two, so everything another processor can see in between is a state; where a
component works on memory that others change without a lock, a step is one
access. A definition carries the name of the function it models; functions that
release a lock in the middle are several actions, the later ones named after
what they do. A failed `BUG_ON` or `BUG()` stops the model and records that it
did. Definitions introduced by "Mutant:" are variants of the code with a
plausible error; each property is checked to fail on one of them.

A module that composes several components (`MCKernel`, `MCPte`, `MCPteThreads`)
exercises one of them in each behaviour, named by `component`; the others keep
their initial state. The small components meet their environment (Xen, a
backend, interrupts, other threads) inside their own module.

### Semaphores

`value` and `head` are the fields of `semaphore_t`, `owner` that of its mutex.
`runnable`, `hibernating`, `suspended` and `ready` are the flags and the ready
queue; `onCpu` the threads that a processor runs. `posts` and `acquired` count
history for `PermitConservation`. `Call` takes the mutex, which disables
preemption; `semaphore_pend` … `semaphore_count` are the bodies; a pend that
waits goes through `mutex_unlock` to `Schedule`. `Suspend` and `Resume` are those
of `suspension.c`, which take effect on any thread at any step.

The flags of a thread are one word, and not all updates of it are made under
`ready_lock`: `clear_running` of the thread switched out (`sched.c:354`,
after `sched.c:497`), `clear_need_resched` (`sched.c:474`) and `set_need_resched`
of the timer (`arch/time.c:226`) are not. `leaving` are the threads whose
processor has left them and has still to clear RUNNING_FLAG, and `copy` the word
that an update has loaded and not yet stored: what other processors did to the
word in between is then undone, which `undone` records. `ClearRunning` is the case
in which nobody comes in between, `LoadFlags` and `StoreFlags` any update in two
steps; `torn` counts the latter and `MaxTorn` bounds them. RUNNING_FLAG and
RESCHED_FLAG themselves are not modelled here; `Sched` has the former.

### Sched

`k` bundles what the list and flag operations change together: the flags, the
lists and the bug reached. `struct thread` has one list node for the ready
queue, the dead queue and the joiner lists, and linking a linked node is a bug
of the model although the code would silently corrupt the lists. pthreads are
exempt from the assertions of `schedule()` (`sched.c:440`).
`mode[c]` is where processor `c` is: `pick` (pick_thread), `switch`
(switch_threads), `switch_in`/`store` (clear_running of the thread left),
`reap` and `exec`. `clear_running` is a load and a store when the workload says
so (`atomic = FALSE`): the compiler may emit either. Sleeping threads are in
the order of their timeouts and `due` counts those that have expired, so time
is the action `Tick`. A join is cancelled by `pte_osThreadCancel` in two steps,
`sched_wake_joiner` (`pte.c:138`) and `set_cancelled` (`pte.c:140`), and the joiner
can run in between. It then reaches the `BUG()` of `pte.c:391` (section 6);
`OnlyLateMarkBug` says that this is the only one.

`Careful(w)` says of a workload what the theorems suppose, and what the code
leaves to its users: updates of flags are indivisible unless there is one
processor; a workload that suspends threads has one processor and neither joins
nor sleeps; and exits, joins and cancellation do not all meet. It does not exclude
the late mark of a cancelled joiner. `MCSched` assumes
that the workloads of run `sched` are careful (`SafetyIsCareful`).

### PageAllocator, PageBitmap, PageTables, Xmalloc

`PageAllocator` keeps the bitmap as the set `map` of pages that are taken;
`PageBitmap` shows separately that the words of the code implement such a set
and that the search loops find the first fit of it. Each thread has a stack of
invocations of `_allocate_pages`, because mapping new memory re-enters the
allocator for a page table frame (`pfn_alloc_alloc`) while `bitmap_lock` is
released. `increase_reservation` lets Xen grant any part.

`PageTables` is what that re-entry is for. An address is a page number, a table
has `Fanout` entries, and the walk of `build_pagetable_vs` takes `Levels` of
them. A frame for a missing table is cleared, made read-only, accepted by Xen
and only then linked (`ClearFrame` … `LinkFrame`); entries of pages wait in
`updates` for their batch. Whether a frame is to be had is open at every table,
so a call can fail half-way. `Acceptable` is what Xen asks of a table.

`Xmalloc` represents a page by its blocks, with a header size and free flags,
and the free list by its order.

### Xenbus, XenstorePoll

`req` and `rsp` are the rings; a message on `rsp` has a header and a payload
that appear one after the other. `wait_event` is split at every lock and at
`schedule()`. `runnable` is the set of threads with RUNNABLE_FLAG, and
`xenbus_msg_reply` blocks its thread before it writes, as the code does. The
store is external: it takes requests, answers each once in any order, may
refuse a watch, and sends events while it watches. The response ring holds
`RspRing` units, and the store writes what fits, header first. The code notifies it
of requests but never of room: `rsp_cons` advances (`xenbus.c:185,194`) without a
notification. A store that finds the ring full with nothing else to do goes to sleep
(`StoreSleeps`), and only a request or the business of another domain
(`StoreWoken`) wakes it. The workloads with `ShortAndLong` payloads send messages
longer than the ring too: these are never whole at `xenbus.c:150`.

`XenstorePoll` is the other client of the same rings, which start_kernel uses
for the domain id. A ring holds units, a message is published in the pieces the
code writes, and replies are read unit by unit against a store that cuts them
anywhere. The xenbus thread on another processor copies a header
(`LookAtMessage`) and then applies its assertion (`BugOnUnused`), at which the
domain stops.

### Blkfront

`freelist` and `shadows` are the arrays of those names, `ring` is the shared
page with the private indices, which wrap at twice the ring size instead of at
2^32. The free references of the grant table are a set: which one is taken makes
no difference. `done` and `ready` are the counters of the completions, and a
thread in `blocked` waits on one. `Submit` publishes the request and
`CheckNotify` looks whether the backend wants an event; `EndOfLoop`, `AskEvent`
and `RING_FINAL_CHECK` are the three accesses by which the handler avoids
missing a response. The backend and the answers of the store are external: the
backend takes requests in order, answers in any order, unmaps pages before it
answers, and follows the notification protocol of `ring.h`. Data is a number of
sectors. Callers keep the preconditions asserted by `BUG_ON` on addresses and
sizes.

### Events, Idle, Locks, Clock

`Events`: every read and write of the shared page is a step, so the hypervisor
can signal, and another processor's callback can look, between any two of them.
`sel` and `upcall` are what the hypervisor tells a processor, `callback` where
its upcall loop is, `bind` a thread that binds or rebinds a port meanwhile.
`owed` are the ports whose event nobody has handled. Ports beyond the first half
of a word are not scanned (`ScanBits`): `active_evtchns` is cut to 32 bits
(`hypervisor.c:80`), so `Ports` are taken below.

`Idle`: `at` is where each processor is: in `schedule`, running a thread, at a
line of the idle loop, or blocked in Xen. `ready` are the threads on the ready
queue that nobody runs, `home` is `thread->cpu`, and a kick is two steps, the look
at `cpu_state` (`smp_signal_cpu`) and the notification, which other processors
run between. Interrupts are handled where the loop has them enabled. `late` are
the threads whose kick found their processor on its way to sleep: nobody notifies
it, and it finds them when its timer expires. That timer is the first timeout of
the whole sleep queue if there is one, which may be later than the default.
`SleepersWake` says that this is the only delay.

`Locks`: a context is a thread or the interrupt handler of a processor, which
runs over the current thread and takes locks in its name. Lock "irq" is taken
with `spin_lock_irqsave`, by handlers too; lock "plain" with `spin_lock` and
through mutexes. `os_spin_lock` is one action for each of: preempt_disable,
irq save, the atomic trylock, and on failure the way back and the spinning.

`Clock`: a value is the number of the update of Xen it stems from, and the
version is odd while an update goes on. Each value is loaded and then stored by
`get_time_values_from_xen`, and the timer interrupt can run between any two steps
of a thread whose interrupts are on, on the same processor.

### Grants, Console

`Grants` is the free list as the array it is and the shared entries, whose flags
the backend sets and clears at any step; a compare-and-exchange is one step and
the read before it another. The second part of `Grants`, for
`gntmap.c`, lets every map and unmap hypercall fail.
`Console` has both rings with wrapping indices, the printer's two writes
(contents, index), the backend that sleeps when it finds nothing, and `readbytes`
with its look at the ring before it joins the queue.

### The pthread library

`pc[t]` is the next step of a thread's call, and a step ends at an access to
memory other threads touch. The platform's semaphores are used through the
contract `CountingSemaphore` states, locks of the platform layer through
exclusion. Time-outs strike wherever a timed wait can notice them, cancellations in
every `sem_wait` and `sem_timedwait` and, for `pthread_once`, in the routine.
`sem_wait` begins with `pthread_testcancel` (`sem_wait.c:144`), and the library waits
on semaphores for itself, so that threads leave in the middle of condition variables
(`CancelledAtGate`, `WaitCancelled`), of read-write locks, which wait on a condition
variable (`WriterCancelled`, `LeaverCancelled`), and of barriers (`BarrierCancelled`).
A thread that leaves this way ends in the step "exited" and keeps what it holds;
`CallersMeet` (`CountedInStay`, `PermitsAreOwn`), `LocksComeBack` and `CallReturns` say that nothing else goes wrong.
`CallReturns` claims of every call that it returns unless such a lock has been
taken away (`LockTakenAway`). `Alone(t)` guards destruction and initialisation: POSIX leaves
their use beside other calls undefined. `PteThread` follows the structures
(`pte_thread_t`), which are never freed but queued for reuse with a bumped
counter; `PteKeys` has both chains of associations and the tree of each thread
as the sequence of its keys, which determines its shape. `PteAttr` compares an
object with what its owner was told, and a thread with the object it was created
from. Stack sizes are the platform's `STACK_SIZE` and one more. `SettingsAreKept`
asks the thread's stack to be the one set only where that is at most `STACK_SIZE`:
where it is more, it is not (section 6).

### CLib

Each routine is an operator that follows the code, on sequences of character
codes, and a call is a step that records arguments and result. The properties
are reference definitions: the longest numeral a text begins with, dictionary
order, the fields of a string. Words have eight bits, so that the end of their
range is reached by short texts.

## 3. Runs

| Run | Shows |
|---|---|
| `semaphores` | permits are conserved, waiters match the value and `CountingSemaphore` is implemented, whatever updates of flags undo; until one does, a thread is queued exactly when it neither waits nor is suspended, and a pend that has been handed its permit returns unless suspended |
| `sched` | four kinds of workload: no BUG but that of a joiner woken and not yet marked cancelled, no lost or doubly queued thread, one processor per thread, every sleeping joiner has somebody to wake it, freed threads are unreachable |
| `sched_live` | joins and sleeps return, exited threads are reaped, provided clear_running is indivisible |
| `sched_lost_wake` | violation: a join never returns when it is not (section 6) |
| `pages` | blocks are disjoint, backed and accounted for while memory grows in parts (`PagesAccounted`); every request returns |
| `xenbus` | replies reach their requests, ids are not leaked, watch events arrive in order, requests return; the only assertions reached are the two of a writer that finds the request ring full |
| `xenbus_ring` | violation: a writer overfills the request ring |
| `blkfront` | the ring and the request ids stay sound, buffers are lent while the backend uses them, `Disk` is implemented, submitted requests complete |
| `pte` | locks exclude; the two counts of a semaphore agree with its waiters; the gate of a condition variable is closed while signals are owed; barrier rounds and callers of once stay in step; permits of a barrier are not taken across rounds; whoever is counted in at a barrier stays unless cancelled; no call returns with a lock of the library, and every call that does not wait for an event returns, unless a cancelled thread has taken such a lock away |
| `pte_threads` | structures are used by one thread and not lost; joins get the right status; requests to cancel are kept; values stay with their thread and key, and their destructors run |
| `kernel` | the fourteen smaller parts, see below |
| `boot_reply` | violation: the xenbus thread finds the reply to the polled read of the domain id |

Each property of `kernel` speaks of the behaviours of its parts:

| Property | Part | Says |
|---|---|---|
| `MemoryIsWhole` | `heap` | blocks tile their pages, free neighbours are merged, no page is kept without a live block |
| | `bitmap` | words mark exactly the allocated pages; the search finds the first fit |
| `PageTablesHold` | `tables` | Xen refuses nothing; what was built stays mapped through later and failing calls; the search for free addresses finds the lowest |
| `EventsAreHandled` | `events`, `idle` | a signalled port is still pending where somebody will look, or its handler is about to run; no quiet port stays masked; a blocked processor has its timer set, no later than the first sleeper, and leaves no thread of its own ready but a late one |
| `LocksAreHeld` | `locks` | locks exclude, the counts agree, nobody spins for a lock held on its own processor |
| `ClockIsRight` | `clock` | a time is computed from one update, not older than the call; so is the time of day; the timer interrupt never waits for the thread it interrupted |
| `GrantsAreKept` | `grants`, `maps` | references are free, being filled or held; a mapped frame is the granted one; mappings are recorded until they are gone |
| `RingsAreFaithful` | `console` | what is printed is shown, and announced; what is typed is read |
| | `store` | a polled call gets its own answer, and the ring is empty afterwards |
| `RoutinesAgree` | `attr`, `simple` | attribute objects hold what their owners were told |
| | `numbers`, `strings` | the C library agrees with the reference definitions |

### Bounds, and why they are enough

* `semaphores`: three threads, two processors, four calls and suspensions in all, one
  update of flags in two steps. A third thread is needed for a queue of waiters whose
  order matters and for a bystander that suspends; one torn update strikes at any
  step of the others. Calls being bounded, `GrantedReturns` reads: every permit handed
  over is taken in the end. The theorems remove these bounds.
* `sched`: a workload (`MCSched.tla`) fixes which operations are used, so that
  each combination stays small: `Lifecycle` (create, join, exit, reap; with
  preemption), `Waiting` (sleep and semaphores), `Cancelling` (joins that are
  cancelled) and `Suspending` (on one processor, two calls per thread). Two
  processors and three threads give a joiner, a joinee and a third party; one
  preemption per processor places an interruption anywhere. Processors are
  interchangeable, and the symmetry is used only for the invariants.
* `pages`: four pages at first, a hole of three, bulk requests from two pages
  on, and one page of small region: growth occurs twice or more and each region
  can be exhausted. One thread, because with two the code reaches an assertion
  (section 6); re-entry is still there.
* `xenbus`: three clients and two ids make one wait for an id; a ring of one
  message makes a writer wait for room; a queue of two paths and three events
  wraps its indices. The store sends no more events than the queue holds. A response
  ring of two units holds a shortest message and no more, so the store waits for room
  between messages and in the middle of them.
* `blkfront`: three workloads. A ring of two has one usable id, so two callers
  exhaust it, and five calls wrap the indices; a ring of four holds a request of
  two pages beside another one, answered in either order; and two callers arrive
  before the device is connected. `ALL_DONE` stands for UINT_MAX/2: it exceeds
  the number of waiters, so a count is left for each. Seven references are what the
  largest ring and request need (section 4).
* `pte`: three threads make one to three calls on each object (`PteCalls`): a holder, a
  waiter and one that comes in between. `SEM_VALUE_MAX`, `HalfIntMax` and
  `RwIntMax` are small so that their limits are reached. A barrier of two is used
  by two threads for several rounds. One cancellation inside the once routine
  lets a second caller run it. A thread cancelled at a barrier is not replaced by
  another.
* `pte_threads`: two pthreads and a thread of the system, which `OsThread` names;
  three structures, one of which can be taken again; two keys, one deletion
  against one exit, one value set again by a destructor, one failed creation.
* `kernel`: the constants are in `MCKernel.cfg`. A page of six units with
  headers of one is cut into blocks of two and three, with a remainder of one that
  is too small to split off, and size 7 needs whole pages; three
  words give a first, a middle and a last word for every run; three levels of
  tables with two entries each and four frames let tables be missing at every
  level and run out, and a batch of two is filled and left half full; two
  processors and two ports, one bound to processor 1, with two signals; two idle processors
  and two threads with two calls, or a call and an interrupt, or a call and two
  ticks of the clock; two
  threads on one processor, one on the other and a handler; one update of Xen, one
  interrupt and one call on one processor, or two processors, two interrupts and
  one update of the wall clock; two threads and two free references; a table of
  three mappings and requests of two; a ring of two characters with indices that
  wrap at four; two polled calls with a reply longer than the buffer; texts of up
  to four characters, arrays of up to six elements.
* `boot_reply`: one polled read, as in `start_kernel`.

### Fairness

* `semaphores`: strong fairness of a thread's steps and of its dispatch, weak
  fairness of preemption (somebody is preempted, the processors being all taken) and
  of the updates of flags, which a processor finishes: `pick_thread` takes the ready queue in order and the
  timer preempts whoever runs. Nobody has to make a call, suspend or resume.
* `Sched`: processors run, time passes, a thread in the scheduler or in a
  library call goes on, and a thread in application code exits in the end (the
  joins are about what happens after that). The idle loop goes on when a thread
  is ready or a sleeper is due: the timer given to `block_domain` ends the sleep.
* `PageAllocator`: a thread in the allocator runs on; no fairness of Xen's grants.
* `Xenbus`: threads run, events are delivered, the store takes and answers
  requests while it is awake. It need not send watch events. That a store which sleeps for
  room is woken is a premise of `RequestReturns`, not fairness: the code does not
  see to it.
* `Blkfront`: threads run, events are delivered, the backend takes and answers
  every request, with success or not. Nobody has to make a call.
* `MCPte`: a thread in a call goes on, and a thread that holds a lock gives it
  back. Nobody has to make any other call, so a wait on a semaphore, a condition
  variable or a barrier is not claimed to return.

The remaining runs check invariants only. Deadlock is not checked: calls are
bounded, so every behaviour ends.

### Assumptions the runs make

Constants that restrict a run to what callers or the build promise; without
them the models reach the defects of section 6.

* `atomic` (all two-processor workloads of `sched` and `sched_live`): the build
  updates a word of flags in one instruction.
* `ThreadRaces = {}`: only started threads are cancelled, and a thread has exited
  before its structure is taken again.
* `BusyAtDestroy = FALSE`: a condition variable is destroyed when no signal or
  timed-out wait is under way.
* `Unlocked = {}`: no thread prints through `print()`, which sends without the lock.
* Joins are cancelled only before the joinee has woken the joiner; suspension is
  kept apart from joins and sleeps.
* One thread at a time makes memory grow.
* `RequestReturns` is claimed for threads not preempted inside `wait_event`, while
  no message is longer than the response ring, and if a store that sleeps for room
  is always woken again.
* Exceptions inside a property: a store that has undone another processor's update
  (`undone` in `Semaphores`), a joiner woken and not yet marked cancelled
  (`OnlyLateMarkBug`), a lock that a cancelled thread has taken away or a user of a
  barrier that was cancelled (`MCPte`), a stack larger than `STACK_SIZE` (`PteAttr`), a copy of the time that was interrupted between
  the load and the store of a value (`torn` in `Clock`), an event of a bound port
  that another processor took (`stolen` in `Events`), a thread whose kick found its
  processor awake (`late` in `Idle`), a reader woken between its
  look at the ring and its block (`missed` in `Console`), multi-page calls in
  `Blkfront`, a post on a deleted semaphore in `pthread_once` (`onBug`).

## 4. What is proved

Eight modules hold theorems. Every one follows the same plan: an inductive
invariant that names who holds what at every step of the code, one lemma per
action, and a last step that draws the property of the run from the invariant.
Nothing is bounded: threads, processors, ids, pages, words, tables, calls and
limits are constants about which only the named assumptions are made. TLC checked
each inductive invariant on the instance of the run, and often on larger ones,
before it was proved, but for those of event channels, idle processors, page
tables and heap, which were found along with their proofs; there TLC checked
the properties.

| Theorem | Property | Hypotheses besides the assumptions on sizes |
|---|---|---|
| `SemaphoresProofs!SemaphoreTypeOK` | `TypeOK` | |
| `…!ReadyDisciplineHolds` | `ReadyDiscipline` | |
| `…!PermitsConserved` | `PermitConservation` | |
| `…!SemaphoreRefines` | `ImplementsCountingSemaphore` | |
| `SchedProofs!ThreadStaysOnProcessor` | `OneProcessorPerThread` | threads are suspended on one processor only |
| `…!OnlyLateMarkBugEver` | `OnlyLateMarkBug` | careful workloads (`Careful`) |
| `…!NoBugUncancelled` | (`NoBug`) | careful workloads without joins or without cancellations |
| `…!ReadyQueueIsExact` | `RunnableIsQueued` | careful workloads |
| `…!JoinersAreAwaited` | `JoinerHasWaker` | careful workloads |
| `…!FreedThreadsAreUnlinked` | `ReapedIsUnreachable` | careful workloads |
| `MemoryProofs!PagesAlwaysAccounted` | `PagesAccounted` | one thread; bulk requests have more than one page |
| `…!PageTablesAlwaysHold` | `PageTablesHold` | |
| `…!MemoryAlwaysWhole` | `MemoryIsWhole` | |
| `KernelProofs!SpinLocksExclude` | `LocksAreHeld` | |
| `…!TimeIsOfOneUpdate` | `ClockIsRight` | |
| `…!GrantsAreAccountedFor` | `GrantsAreKept` | |
| `…!EventsAlwaysHandled` | `EventsAreHandled` | the callback scans every port (`ScannedPorts`) |
| `XenbusProofs!OnlyRingFullEver` | `OnlyRingFullBugs` | |
| `…!RepliesAlwaysMatched` | `RepliesAreMatched` | |
| `…!WatchEventsAlwaysArrive` | `WatchEventsArrive` | |
| `BlkfrontProofs!RingSound` | `RingIsSound` | references for the ring's page and for all requests with an id (`GrantsSuffice`) |
| `…!BuffersLent` | `BuffersAreLent` | |
| `…!DriverImplementsDisk` | `ImplementsDisk` | |
| `PteProofs!LocksAlwaysExclude` | `LocksExclude` | |
| `…!SemCountsAlwaysAgree` | `SemCountsAgree` | |
| `…!CondGateAlwaysKept` | `CondGate` | `BusyAtDestroy = FALSE` |
| `…!CallersAlwaysMeet` | `CallersMeet` | as many users as the barrier waits for |
| `…!LocksAlwaysComeBack` | `LocksComeBack` | `BusyAtDestroy = FALSE` |
| `PteThreadProofs!StructAlwaysHasOneThread` | `StructHasOneThread` | `ThreadRaces = {}` |
| `…!JoinAlwaysGetsStatus` | `JoinGetsStatus` | `ThreadRaces = {}` |
| `…!CancelAlwaysKept` | `CancelIsKept` | `ThreadRaces = {}` |
| `…!KeysAlwaysOwn` | `KeysAreOwn` | one thread creates the keys |

The hypotheses are those of the runs (section 3), and each has its reason: for
the scheduler, the allocator, the ports that are scanned, `BusyAtDestroy` and
`ThreadRaces` section 6 names what the code does without it; `BULK_ALLOCATION` is a constant of the code; and a
barrier that more threads use than it waits for lets them pass by definition.
`GrantsSuffice` bounds the pages of a request: a ring of one page has 32 entries,
so 31 ids, and a request at most 11 pages (`blkif.h:602`), which with the ring's
page makes 1 + 31 * 11 = 342 references of the 2040 that the table has to give
(`gnttab.c:44`). With a smaller table `get_free_entry` would fail its `BUG_ON`.
The instance of the run satisfies it with 7 references, 1 + 3 * 2.

### Semaphores

None of the properties is inductive alone. Conservation needs to know that the
thread a post wakes was waiting inside a pend; that needs the list to hold
exactly the threads inside a pend that have no permit yet, without duplicates; and
that one of them is not executed needs that it is not runnable. A flag word that is
stored late must not break this, so the invariant (`IInv`) also says what a pending copy
may hold: that of a waiter was loaded when it was already not runnable
(`WaitersSleep`). The proof first reduces every step to one of the few effects it
can have on the abstract state (`NextEffect`, from `PendBlocks`, `PostWakes`,
`PendReturns`, `FlagUpdates` and `Untouched`); the invariant (`NextIInv`, with
`EffectConserves` for the cardinalities) and the refinement both follow from the
effects, whatever an update of flags undoes. For `ReadyDiscipline`, `FlagsInv` adds
that flags and queue agree until one has undone something.

### Sched

RUNNING_FLAG alone does not keep a thread on one processor: `hibernate` clears
it while the thread still executes. What does is the affinity: the threads
`current` and `prev` of a processor have its number in `cpu`, and only a thread
that never ran may be picked by any processor. Such a thread is kept by
RUNNING_FLAG from the pick to the switch, under `ready_lock`, and no step but
`suspend_thread` clears the flag of a thread that is not current. That is
`SPlaces` of `SchedInv`. The theorem holds for `clear_running` as one access or
as two. Its hypothesis keeps suspension to workloads with one processor:
`suspend_thread` may clear the flag of a thread another processor has just
picked (`sched.c:698`). The list operations are recursive functions (the lists
are walked while they change); `Recursion` and `Chain` carry a type along them.

The other four properties need a second invariant, `LinksInv`, which is inductive
together with `SchedInv`. It says of each thread that its flags, the list on which
its one node is linked, its place among the sleepers and its existence fit the step
of its call (`ThreadFits`: `PlaceFits`, `LifeFits`, `JoinFits`, …), and of each processor
that the thread it has chosen or executes is runnable. RUNNABLE_FLAG and membership
of the ready queue agree because every flag update and its list operation are
one step of it, under `ready_lock`; a node is free when it is linked because the
step at which a thread joins, sleeps or exits is one at which it is on no other
list. A joiner that runs between its wake-up and its mark may reach the `BUG()` of
`pte.c:391`, at which the machine stops, so what is inductive is
`SchedInv /\ (LinksInv \/ LateMark)`: `LateMark` describes that halted state, and
only a cancellation reaches it, which gives `NoBugUncancelled`. `Careful` excludes the workloads in which a thread that has left a list is
put back by another one: section 6 shows what happens in them. TLC checked the
invariant on more than four million states.

### The memory

*Page allocator* (`PagesInv`). The bitmap is tied to the blocks and the hole, the memory that Xen has populated
to the end of the pages and to what the round of growth under way has obtained,
and `in_increase_memory` to the activation that grows the domain, which is
always the outermost. The re-entry for a page table frame finds the mark set,
so it never grows in turn (`PGrowth`). `PHints` is what makes the search
complete: no free page lies below the hints from which it starts. One thread,
because `in_increase_memory` does not name its owner (`mm.c:191`).

*Page tables* (`TablesInv`). Every table has a level and is entered once, in a table
of the next level, and Xen keeps it read-only (`PtTree`); the new table of the call under way is empty, then
read-only, then accepted, in this order (`PtNew`); the walk stands at the table it
should (`PtAt`); and the entries in the batch are those of the pages just passed
(`PtBatch`). The prefix of an address determines the table and the rest the slot, so
two pages never share an entry, and linking a table or writing a batch changes no
page that was mapped. The search of `allocate_ondemand` loses no range by going on
behind the mapped page it met.

*Heap* (`HeapInv`). Live and free blocks are disjoint and cover exactly the pages
taken (`Tiling`); free blocks are smaller than a page, live ones lie in one page
or are whole pages; free neighbours are apart; and every page taken has a live
block. `xfree` goes through the list once, merging what it meets on either side.
`MergeState` holds along the loop: one pass is enough because free blocks are
never next to one another, so nothing passed over can become a neighbour later. A
merged block that is not the whole page has a neighbour that is not free, hence
live, so the page is rightly kept.

*Bitmap*. `WordsMatchPages` is inductive as it stands: word and bit of a page are
quotient and remainder, and the three cases of `map_alloc` and `map_free` (one
word, the ends, the words between) cover a run. The search steps from each run that is
too short to the page behind it, and no fitting run begins in what is skipped.

### Xenbus

A request is in one place at a time: on the request ring, in the store or on the
response ring, and the client it belongs to sleeps until it leaves the last
(`XMail`). Ids in use and clients that hold one correspond (`XIds`), which gives
the count of `nr_live_reqs` that `BUG_ON` and the wait for an id rely on. For
watches, the events on their way are exactly those the store has sent and the
queue has not got, in order (`XEvents`), and after the answer to an unwatch none
can follow; a callback that finds no watch is thereby excluded. A client that has
not yet blocked, or has been woken, is runnable wherever the code blocks it but in
`xb_write`, which finds it blocked already when the ring is full: so `halt` is
"block" in no state and "ring_wait" or "ring" only there. Indices of the
queue wrap at `MAX_PATHS`; that the store sends no more than fits is an
assumption about the store (section 3, bounds).

### Blkfront

The private and shared indices wrap, so the invariant speaks of counters that do
not: it claims some record of counters, of the ids in the order in which they
were put on the ring, and of the free ids as a stack, of which the code's
variables are the images (`Ghosts`, `BIndices`). `Counters` shows that
incrementing, subtracting and taking a slot commute with wrapping while the
counters are less than twice the ring apart. The linked free list is the stack;
each id other than 0 is on it or between the counters, and their number is the
ring's size less one (`BIds`). Hence an id can be free only if the ring has room,
which nothing in `blk_do_io` tests. Between the counters come the answered,
the taken and the asked requests, in that order (`BProgress`); an answer out of
order swaps two positions (`BackendAnswersKept`). Requests in flight differ in
id, caller and references (`BRequests`), every reference in use is the ring's or
one of theirs (`BGrants`), and the caller of each waits in its call, so the
handler's pointer into its frame is good (`BCallers`).

For `RingSound` the references in use are counted by an injection into requests
and pages (`GrantedCount`), so enough are left while an id is free. The
refinement goes action by action: asking, refusing, learning and leaving are
steps of a caller, serving is the backend's answer, all others stutter.

### The smaller parts of the kernel

A behaviour of `MCKernel` exercises one part, so `KernelInv` of `KernelProofs` is
the conjunction of the parts' invariants, each for behaviours of its part; those
of the memory and of event channels are added in their theorems.

*Locks* (`LocksInv`). The steps after preempt_disable and before preempt_enable
have raised the count, those between saving and restoring the flags have
interrupts off if the lock is an "irq" one, and those from the lock to its release
hold it, one context at a time. A context that holds a lock therefore keeps its
processor: no other thread of it runs, and no handler unless the lock is one that
handlers never take. Whoever spins for a lock has its holder on another processor.

*Time* (`ClockInv`). For each processor: Xen's values belong to the update its
version names, or to the one under way when the version is odd; the copy has as many
new values as `get_time_values_from_xen` has stored; and a reader whose versions agree
has values of one update, unless the interrupt tore a load from its store (`torn`).
The wall clock is copied under its lock by the timer interrupt alone, and while a
thread holds the lock its processor takes no interrupt (`WallInv`), so seconds and
nanoseconds belong together and the interrupt never waits for the thread under it.

*Grants* (`GrantsInv`, `MapsInv`). The free list is a chain through the references
that no thread has; each entry fits who holds it and whether the backend maps it;
and each thread's call fits its reference. For the mappings: the entries of the
table, the regions handed out and the pages of the request under way name the
same mappings, also after a hypercall failed and what was mapped is undone. TLC
checked them on 113963 and 83728 states.

*Events* (`EventsInv`). Every pending port, but a masked one that nobody has bound,
will be looked at again, whether or not its event is owed: its selector bit is set,
or a callback has the word among those it still scans or is at the port, or a bind
that unmasks it is about to look. A selector bit implies an upcall, pending or begun. The hypothesis is the 32-bit cut of
`hypervisor.c:80`.

*Idle processors* (`IdleInv`). The timeout computed, and the timer once set, are no
later than the first of the processor's own sleepers, at every step from the look at
the sleep queue to the block; and a thread made ready is about to be kicked, or
its processor will still look at the queue, or it is one of the `late`.

### The pthread library

`PteProofs` has an invariant for each object, guarded by the component of the
behaviour, so that the step of one object need not mention the others. Those of
mutexes, spin locks, read-write locks and once say which steps hold the lock.
For a semaphore, the platform's count exceeds the value by the threads that have
counted themselves in and not been through the cleanup (`SemInv`). For a
condition variable the waiters inside are those blocked, less those gone, plus
those signalled (`CondCounts`), and the gate has one owner, a thread or the
signals on their way (`CondGateOwner`); destruction adds `CondDestroying`, and
here the hypothesis is needed. For a barrier, every user is in the current round
or on its way out of the last, whose semaphore is the other one, with one permit
for each sleeper (`BarrierInv`). A thread that was cancelled in its wait counts as a
sleeper: the permit posted for it is never taken, and the next round can not fill without
it, so nobody takes that permit in another round. The locks of condition variables and read-write locks have a
holder that is at a step that gives them back, or has been cancelled; and
`pthread_cond_destroy` returns with `pte_cond_list_lock` only when the other lock was
taken away, which gives `LocksAlwaysComeBack`.

`PteThreadProofs` gives every structure an owner and the claim by which it will
be given back: implicit, in creation, or started and either detached or to be
joined once (`ThStructs`). Every handle in circulation still names the owner of
its structure (`ThClaims`), which is what bumping the counter on reuse is for,
and the reuse queue holds the structures without an owner, each once (`ThPool`).

`KeysAreOwn` follows from `KeysInv`. The creator's tree holds the numbers
from 1 to its size, the other pthreads' trees no others, and two live keys have
different numbers (`KyNumbers`); so what a thread finds under a number is what it
stored under that key. Setting and deleting a key exclude each other, a value
that needs a destructor has its association before it is stored, and no
association is left when the key is freed (`KyCalls`). Chains hold each
association once and the cursor of an exiting thread points into its chain
(`KyChains`); a round in which no destructor has run has removed every
association it has passed (`KyEnds`), so the last round leaves none. One thread
must create all keys, as in the run: `pte_osTlsAlloc` numbers a key by the size of
its caller's tree, and two creators come to the same number.

## 5. What is only model-checked

* Liveness (all properties with `~>`): the provers at hand know nothing of
  fairness or ENABLED.
* `RingsAreFaithful`: that what was printed is shown and what was sent is received
  is a statement about sequences folded from the history of a ring whose indices
  wrap; its invariant needs induction over these sequences.
* `RoutinesAgree`, and with it all of `CLib` and `PteAttr`: what a recursive
  definition computes for every input. Induction over data is beyond the provers in use.
* `Sched` outside careful workloads, where the properties of section 4 do not hold
  in general: section 6 has the counterexamples.

## 6. Disagreements and defects met

These three contradict a comment or an assertion of the code; each has a run that
ends in a counterexample.

1. `sched_lost_wake`, `sched.c:354`: `clear_running` of the thread switched out
   is a read-modify-write after `ready_lock` was released. A wake-up in between
   is overwritten and the join blocks for ever. The same write can undo the
   `restore()` of a semaphore's waiter, after which the waiter's pend never returns
   (`undone` in `Semaphores`).
2. `xenbus_ring`, `xenbus/xenbus.c:316`: no second look at the ring after
   waiting for room, against the comment "guaranteed to be able to send".
3. `boot_reply`, `kernel.c:117`: the polled read of the domain id shares its
   rings with the xenbus thread that `init_xenbus` has started; the thread finds a
   reply nobody it knows asked for and fails its assertion (`xenbus.c:191`).

Reached in the models and kept out of the passing runs by the assumptions above,
or stated as an exception, with a note at their hazard:

* scheduler: a joiner cancelled after it has been woken leaves the ready queue
  for good (`sched.c:302`); a joiner suspended while its joinee exits is never
  woken (`sched.c:314`); a sleeper suspended after its timeout is linked twice on
  resumption (`sched.c:701`); suspension by another processor in the middle of a
  switch reaches `BUG()` (`sched.c:698`); `pte_osThreadCancel` wakes the joiner and
  sets its CANCELLED_FLAG afterwards (`pte.c:138`, `pte.c:140`), so on another
  processor the joiner can run in between, fail the test of `pte.c:384` and reach
  `BUG()` at `pte.c:391`, "we woke the target thread by mistake" (the exception
  `OnlyLateMarkBug` makes);
* idle processors: a wake-up from another processor between the idle loop's look
  at the ready queue and `cpu_state = CPU_SLEEPING` sends no notification, and the
  thread waits for the timer (`smp.c:83`, `arch/time.c:196`);
* memory: a second thread that needs memory resets the recursion mark, a third
  then grows the same hole and `BUG_ON` at `mm.c:416` fails (`mm.c:191`); the
  number of bitmap pages is rounded down (`mm.c:470`); `demolish_pagetable`
  submits one call too few, but has no caller (`arch/mm.c:246`);
* Xenstore: a request that finds the ring full blocks a blocked thread and
  reaches `BUG()` (`xenbus.c:314`), which with finding 2 is the only one reached, by
  `OnlyRingFullBugs`; a message longer than the response ring of 1024 bytes
  (`xs_wire.h:117`), where a payload may have 4096 (`xs_wire.h:130`), is never whole
  (`xenbus.c:150`) and its request never returns; the store is not notified when
  `rsp_cons` moves (`xenbus.c:185,194`), and one that waits for room waits for
  something else to wake it; a refused watch is freed twice (`xenbus.c:478`); a preemption inside `wait_event`
  between `block` and the second test loses the wake-up (`wait.h:105`);
* block front end: a request of several pages transfers whole pages
  (`blkfront.c:435`), and `blk_read` copies only its last part back from a bounce
  buffer (`blkfront.c:589`); a `blk_read` that finds no free id does not free its
  bounce buffer (`blkfront.c:576`);
* events: `do_event` clears the pending bit of a port bound to another processor
  and drops the event (`events.c:91`); ports from the 33rd of a word on are never
  scanned (`hypervisor.c:80`);
* time: the timer interrupt between the load and the store of a value leaves an
  old value in a copy with the new version (`arch/time.c:125`);
* locks: `mutex_try_lock` tests and then waits (`mutexes.c:62`);
* console: input between the look at the ring and the block wakes nobody
  (`console.c:320`); `print()` sends without the lock (`console.c:250`);
* pthreads, cancellation: the library's own waits that its comments call
  non-cancellable use `sem_wait`, which tests for cancellation
  (`sem_wait.c:144`). A cancelled signaller leaves with `mtxUnblockLock` held
  (`pthread_cond_signal.c:142`), as does a waiter on its way out
  (`pthread_cond_wait.c:335`), and a destroyer with `pte_cond_list_lock`
  (`pthread_cond_destroy.c:171`); `pthread_rwlock_unlock` signals with
  `mtxSharedAccessCompleted` held and so keeps that one. Later calls never return.
  A thread cancelled in `pthread_barrier_wait.c:103` stays counted in, the
  others pass without it, its permit stays, and a thread that took its place
  would pass at once;
* pthreads: `pthread_once` posts on a semaphore that a caller who never waited
  may delete (`pthread_once.c:161`); `pte_throw` jumps through a structure it has
  given up (`pte_throw.c:124`); destroying a condition variable with a signal
  under way (`pthread_cond_destroy.c:184`); `pte_threadStart` stores Running over
  an earlier request to cancel (`pte_threadStart.c:124`); `timedrdlock` counts
  itself out without the mutex (`pthread_rwlock_timedrdlock.c:118`); `pthread_attr_getstack`
  stores the address in its own parameter, so the caller does not learn it
  (`pthread_attr_getstack.c:31`, `PteAttr` models this); the size that
  `pthread_attr_setstacksize.c:74` promises new threads is raised when small
  (`pte.c:212`) and never passed on, `create_thread` allocates `STACK_SIZE`
  (`sched.c:609`), and a stack address goes the same way.

## 7. Plan

Done: the modules of section 2 and the proofs of section 4, which state every
invariant that a passing run checks but the two of section 5.
Next:

1. `RingsAreFaithful`, with counters that do not wrap, as in the proof of the block
   front end, in place of the folded histories.
2. `Sched` with joins, sleeps and suspension combined, once the defects of
   section 6 are settled in the code; the hypothesis `Careful` then goes.
3. The pages of `mm.c` for two threads that make memory grow, once the mark names
   its owner (`mm.c:191`).

## 8. Not modelled

* `include/public`: some twenty thousand lines of declarations of the Xen
  interface, which hold no code. They are more than a third of the lines of the
  repository that count as implementation; of the rest, the files of `lib/pte/posix` each
  carry a licence header of about sixty lines.
* Registers, stacks, exception frames and entry code (`arch/traps.c`,
  `arch/x86_64.S`, `arch/sched.c`): a model would repeat the hardware. Their
  effect on scheduling, preemption on return from an interrupt, is in `Sched`
  and `Locks`.
* `smp.c` but for the kick and the processor states, which are in `Idle`:
  bring-up runs once, before there is anything to interleave with, and
  nothing sets the states CPU_SUSPENDING and CPU_RESUMING its loops wait for.
* The physical-to-machine map (`arch_update_p2m`), 2 MB pages, and
  `demolish_pagetable`, which nobody calls.
* The scaling of the time stamp counter (`scale_delta`) and `get_cpu_running_time`.
* `lib/math.c`: compiled, but without a caller on this architecture; strtod and
  rand of `lib/lib.c`; the one-loop string routines.
* `kernel.c`, `startup.c`, `poweroff.c`, `flush.c`, `stackpntr.c`: straight-line
  code; what it sets up is the initial state.
* `delete_thread_from_sleep_queue` (`sched.c:960`): no caller. The `suspend`
  branches of `xenbus.c`: the flag is never set.
* `pthread_delay_np`: a cancellation point like `pthread_testcancel`. Its doc says
  that it does not return before the period has passed; with cancellation enabled
  it does.
* The tests of the pthread library, and its entry points that only return
  ENOSYS.
* Memory ordering: the models are sequentially consistent, as x86 is for the
  locked operations and the barriers used.
