# SaghirOS: TLA+ models, model checking and proofs

SaghirOS is a small x86 kernel in C (63 files, 11 000 lines) built along the
"SimpleOS" articles. It runs on one processor; kernel threads are cooperative: a
thread keeps the CPU until it yields, sleeps or exits, and interrupt handlers never
switch. Shared data is protected by disabling interrupts.

## 1. Inventory

| component | state | operations | hard because | what makes it correct |
|---|---|---|---|---|
| scheduler (`os/sched.c`) | `ready_queue` | `sos_sched_set_ready`, `sos_reschedule` | called from threads and from the timer interrupt | the queue holds the READY threads, once each; FIFO; never empty when needed |
| threads (`os/thread.c`) | state of each thread, `current_thread`, `thread_list` | create, yield, sleep, force_unblock, exit, `sleep_timeout` | timeout and forced wake-up race; the timeout action is on the sleeper's stack | no dangling action, no sleeper without waker, sleeps end |
| wait queues (`os/kwaitq.c`) | `waiting_list`, per-entry flags | wait, wakeup, add/remove entry | entries on stacks, waiter READY by timeout while its entry is queued | entries = waiters; no lost wake-up; the wakeup loop ends |
| semaphores (`os/ksynch.c`) | `value`, a wait queue | down, trydown, up | up races a timeout | implements a counting semaphore |
| mutexes (`os/ksynch.c`) | `owner`, a wait queue | lock, trylock, unlock | ownership transfer: `owner` is stale until the waiter runs | exclusion, not stolen, not locked for ever |
| time (`os/time.c`) | `last_tick_time`, `tick_resolution`, sorted list of actions | register (relative, absolute), unregister, tick, date arithmetic | words that wrap, order of the list, ticks that jump over dates | every due action is called, once, in order; exact remaining time |
| main (`os/kernel.c`) | counters, bindings | `cmain`, `clk_it`, `pgflt_ex`, idle and demo threads | composition of everything | sleepers wake up; idle always ready |
| mouse simulation (`os/mouse_sim.c`) | the map, two semaphores, counters | creator thread, mouse threads | life cycle of threads and of their blocks | map, counters and threads agree |
| physical memory (`os/physmem.c`) | reference count of each page, free and used lists | ref_new, ref_at, unref, ranges of pages | counts shared with paging | page on the free list iff its count is 0 |
| paging (`hwcore/paging.c`) | page directory and tables | map, unmap, protection | page tables counted by their entries | a table lives as long as it has an entry |
| virtual ranges (`os/kmem_vmm.c`) | free and used range lists | new_range, del_range, lookup | mutual recursion with the slab caches | disjoint sorted ranges, coalesced, none lost |
| slab caches (`os/kmem_slab.c`) | caches, slabs, free objects | create, destroy, alloc, free | a cache that must grow itself | no object given twice, reserve respected |
| kmalloc (`os/kmalloc.c`) | table of caches | kmalloc, kfree | frees by address only | frees what was allocated |
| interrupts (`hwcore/irq*`) | handlers, nesting level | set_routine, wrappers | nesting | level counts the handlers |
| CPU context, IDT, GDT, exceptions, chips, console, boot | tables and ports | | | below the abstraction |

Interactions: threads call the synchronisation primitives, which call the wait
queues, which call `sos_thread_sleep()`, which registers a timeout action and calls the
scheduler. The timer interrupt calls the timeout actions, whose callback calls
`sos_thread_force_unblock()` and so the scheduler. Every entry point disables
interrupts; a thread that is switched out inside such a section gets the CPU back with
interrupts still disabled, and leaves the section before anything else happens. The
memory subsystems call each other (slab -> ranges -> slab) and the page fault handler
calls ranges, physical memory and paging.

## 2. Modules

| module | models | built on |
|---|---|---|
| `Sched` | ready queue, dispatching, the ways to give the CPU away | |
| `Sleep` | blocking with a timeout, forced unblock, expiry | `Sched` |
| `Threads` | the thread API with the timer interrupt; specification `ThreadsSpec` | `Sleep` |
| `Kernel` | the thread API with the timer handler the kernel installs | `Threads` |
| `WaitQueue` | a wait queue as the primitives use it | `Threads` |
| `CountingSemaphore` | abstract specification of a semaphore | |
| `Ksema` | semaphores; refines `CountingSemaphore` | `WaitQueue` |
| `SemaClients` | clients that share units as `mouse_sim.c` does | `Ksema` |
| `Kmutex` | mutexes; refines `CountingSemaphore` with one unit | `WaitQueue` |
| `TimeArith` | arithmetic of `struct sos_time` | |
| `Timeouts` | the list of timeout actions and the tick | `TimeArith` |
| `RealTime` | the list seen from a clock finer than the tick; the specification that is run | `Timeouts` |
| `MouseSim` | the map, the mice and their creation in `mouse_sim.c` | |
| `Physmem` | physical pages: reference counts, free and used pages (operators) | |
| `AddressSpace` | abstract specification of paging: virtual pages mapped one by one, references held by callers | |
| `Paging` | page directory and page tables; refines `AddressSpace` | `Physmem` |
| `KmemSteps` | the steps of the ranges of kernel virtual memory and of the slab caches, without the calls they make of each other (operators) | |
| `KmemSlab` | the functions of ranges and slab caches, which call each other, level of calls by level (operators) | `KmemSteps` |
| `Heap` | abstract specification of the allocators: disjoint areas that come and go | |
| `Kmem` | kmalloc, caches and ranges as their callers use them, from their setup on; refines `Heap` | `KmemSlab` |
| `DemandPaging` | areas allocated without pages, and the page fault handler | `Kmem` |
| `SequenceLemmas` | what the list operations do to a sequence and to its elements | |
| `ThreadsProofs` | theorems about the scheduler, the thread API and the steps of a wait queue | `WaitQueue` |
| `KsynchProofs` | theorems about semaphores and their clients, and about mutexes | `SemaClients`, `Kmutex`, `ThreadsProofs` |
| `TimeoutsProofs` | theorems about dates, the timeout list and the ticks | `RealTime` |
| `PagingProofs` | theorems about reference counts, page tables, the address space | `Paging` |
| `MouseProofs` | theorems about the map and the mice | `MouseSim` |
| `KmemProofs` | theorems about the ranges, the slabs and their objects, step by step, and about what gives memory back | `KmemSlab` |
| `KmemInvariant` | theorems about the specification `KmemSpec`: what takes memory, the operations, the setup, the invariants, the refinement | `KmemProofs`, `Kmem` |
| `MC*` | constants and symmetry for TLC | |

The memory is modelled in two layers that meet where `kmem_vmm.c` maps a page:
`Physmem` with `Paging` below, whose callers hold references to pages and map them, and
`KmemSteps`, `KmemSlab` and `Kmem` above, to which physical memory is a number of pages that may run
out at any of them. `Paging` shows that its callers may think of virtual pages mapped
independently, and `Kmem` that its own may think of a heap. The scheduler and the
synchronisation modules are not composed with the memory: the allocators run to their end
without giving the CPU away.

### How state and actions correspond to the code

* A thread is an element of `Thread`; `Idle` and `Kinit` are the two threads that
  `cmain()` and the bootstrap make. `state` is `thr->state` (with `FREE` for a block
  that is not in `thread_list`), `ready_queue` and `current_thread` are the variables of
  `sched.c` and `thread.c`. `loc[t]` says inside which kernel call thread t gave the CPU
  away (`"run"`: in its own code, `"yield"`, `"sleep"`, `"wait"`, `"create"`).
* `timed`, `armed` and `fired` are the timeout action of a sleep: its frame exists, it is
  in the list of actions, it called its routine. The date does not matter here: an armed
  action may expire at any tick (`Timeouts` orders the dates).
* A kernel call is cut exactly where it gives the CPU away or enables interrupts:
  `SleepCall` / `SleepReturn`, `DownWait` / `DownReturn`, `LockWait` / `LockReturn`,
  `CreateBegin` / `CreateEnd`. The calls disable interrupts in between, and
  `_switch_to_next_thread()` keeps them disabled until the dispatched thread returns
  from the call it had made. `IRQsEnabled` expresses this: no interrupt handler runs
  while the dispatched thread is still inside such a call.
* Interrupt handlers are the actions `Tick`, `Unblock` and `Up` when they are taken
  between two steps of the current thread.
* `value` is `ksema->value`, negative while threads wait; `waiting_list` is the list of
  entries of the wait queue and `woken` the entries with `wakeup_triggered`.
* `owner` is `mutex->owner`; `holding` is what the callers believe: they got `SOS_OK`.
* In `Timeouts` a date is a pair of seconds and nanoseconds computed with the operators of
  `TimeArith`, whose words wrap. `called` is the sequence of actions that the last tick called.
* In `MouseSim` a turn of a thread, from `sos_ksema_down(& SemMap)` to the next sleep,
  is one action: nothing in it gives the CPU away. `behind` are the mice that cannot
  run before `MouseCreator()`, which is READY, has consumed the tokens.
* In `Paging` a virtual page is the pair of its indexes in the page directory `pd` and in a
  page table. `table[p]` is what page p contains, read as page table entries: a page table
  that is freed too early, or not cleared, shows what its next or last owner wrote. `held`
  counts the references of the callers, which the code keeps nowhere.
* `KmemSteps` and `KmemSlab` transform one record: `range` and `slab` are the structures at their
  addresses, `free` and `used` the two lists of ranges, `cache` the caches with their
  `slab_list` and `nb_free`, `owner` the kernel range recorded in the physical page mapped at
  each page (its domain are the mapped pages), `avail` the physical pages that are left
  for the call, and `ret` what the last function returned. A function of the code that calls
  another passes it the state it has reached, so that what it read before and uses after is
  as stale as in the code: in `ReserveAt` the free range r was chosen before its descriptor
  is allocated, and its bounds are read after. `AndThen` is the test of a returned NULL. The
  local list `ranges_to_free` of the deletion is a field of the record, empty between calls. What
  lies between two calls of one function by the other is a step of `KmemSteps` (a range cut in
  two, an object taken from a slab, two free ranges joined); `KmemSlab` says which step follows which.
  A function that may end in a call of itself is defined once for each level of calls, and a call
  deeper than that is `TooDeep`, an assertion that fails in TLC: the runs and the proofs show that it is not met. Loops are
  recursive functions over the number of turns.
* `Kmem` adds `owned`, the areas its callers hold. A call is one step. `KmemInit` computes the state that
  the setup reaches, with the definitions that the calls use.

### Abstractions a reader should know of

* `sos_sched_set_ready()` at the end of a creation is atomic, which `sched.h` requires
  of its callers; `sos_create_kernel_thread()` calls it with interrupts enabled
  (`thread.c:173`). The list insertion is not modelled at the grain of its pointers.
* `sos_thread_exit()` deletes the thread from the stack of the next one with interrupts
  still disabled: nobody sees the `ZOMBIE` state and the two steps are one action.
* Stacks, CPU contexts and names are left out. A creation that fails for lack of memory
  undoes what it did and is not an action.
* The comment of `time.c:35-39` describes a list of differences; the code keeps
  absolute dates in `act->timeout`, and so does `Timeouts`.
* In `KmemSteps` sizes are in words and the structures keep only their proportions. The free
  objects of a slab are a set whose lowest is taken: the code takes the last freed one, and
  no property distinguishes the objects of a slab. `kslab_cache_list`, the flags for zeroed
  objects and for atomic allocation (nothing in the code blocks for memory) are left out, and
  so are the constant ranges of the kernel's image and of the BIOS, which nobody frees. Where the setup would
  halt because a class of kmalloc is refused, or for lack of memory, the model goes on without the class.
* The page tables that a mapping needs are among the physical pages that run out in `Kmem`; their
  counts are in `Paging`.
* In `MouseSim` the next place of a mouse is any free one around it: the code draws it
  at random and prefers to go straight on. The mice do wake up from their sleeps there,
  which the kernel as linked does not provide (see `kernel_timer`).

## 3. Runs

| run | specification | what it shows |
|---|---|---|
| `threads` | `ThreadsFairSpec` | queue and states always agree; no timeout action outlives its frame; every timed sleeper keeps its waker; the idle thread is there to be dispatched; first come, first served; READY threads run and timed sleeps end |
| `ksema` | `KsemaSpec` | a thread woken up by two events is queued once, the value counts the waiters, entries and waiters match, no wake-up is lost, the wakeup loop ends, the code refines `CountingSemaphore` |
| `sema_clients` | `ClientsFairSpec` | units are conserved by clients that give back what they got; every wait ends |
| `kmutex` | `KmutexFairSpec` | exclusion, the owner is the holder or a woken waiter is on its way, refinement of a semaphore with one unit, every lock returns |
| `kmutex_careless` | `CarelessSpec` | counterexample: a second unlock in the window of a stale owner frees a mutex that was handed over |
| `timeouts` | `RealTimeSpec` | `sos_time_inc/dec/cmp` keep the list sorted, each tick calls all that is due and nothing else, in the order programmed, at most one tick late and never before a date asked for; unregistering yields the exact remaining time |
| `early_timeout` | `RealTimeSpec` | counterexample: a delay asked for between two ticks is cut short |
| `kernel_timer` | `KernelSpec` | counterexample: `clk_it()` does not call the tick, sleepers never wake up |
| `mouse` | `MouseSpec` | map, mice and counters agree; mice come from tokens and harvests only |
| `paging` | `PagingSpec` | reference counts are exact and the free list holds the unreferenced pages, page tables live exactly while they have entries, a mapped page keeps its kernel range, `AddressSpace` is refined |
| `kmem` | `KmemSpec` | ranges share the virtual memory without hole or overlap, every page, descriptor, slab and object is accounted for after successes and failures, the reserves are kept, `Heap` is refined |
| `demand_paging` | `DemandSpec` | counterexample: an area that was touched cannot be freed |

`ksema` and `kmutex` rely on `threads` for the invariants of the threads below them. `MapMatchesMice`,
`MutualExclusion`, `CountsExact`, `RangesTile` and `NothingLost` are conjunctions of parts
that are named, or commented, one by one. `RangesTile` includes `KmemKept`, the shape of the state and
`RangesKept`, which `KmemProofs` is about.

### Bounds, and why they are enough

* Threads: the idle thread, the initial thread and two others. Two sleepers and a third
  thread that wakes or overtakes them, the idle thread to run meanwhile, and a block that
  is freed and used again by a creation are all reached; more threads are covered by the proofs.
* Semaphore: initial value 1, value at most 2 (`MaxValue`): waiters, a free unit and
  units beyond the initial one. `sema_clients`: one unit, the contended case.
* Dates: few nanoseconds per second, so that sums carry and differences borrow. `RealTime`: three
  actions (one before, one between, one after), resolutions that make ticks jump over
  dates, so that two actions can be due at once.
* Paging: six pages, one of them mapped at boot, two page tables of two entries: memory is
  exhausted, tables are freed and their pages become data or other tables, a page is mapped
  twice, and over itself.
* Kmem: eight pages, two of them the first slabs; seven descriptors in a slab, of which two are the reserve,
  so that the cache of ranges grows and shrinks within three areas; a class of kmalloc whose slab
  structures lie outside, so that the cache of structures comes and goes; a driver's cache
  with a reserve and slabs of two pages, created and destroyed, and one that is refused.
  Physical memory grants 0, 1 or enough pages to each call. Reached: a free range of zero pages, ranges queued
  by a merge, slabs of the caches in the middle of the memory, failures of a slab after its
  range or its object was taken. Not reached: three slabs of ranges, two slabs of structures.
* `CountModulus` 4 replaces the 32 bits of the counter of `clk_it()`, which nothing reads.
* Map: 3 x 2 cells, all contents; every neighbour relation with the entry, the exit
  and the border exists, and all mice can meet around the entry. The code has 76 x 12.

Symmetry is used for threads created later and for actions, only in runs without
liveness properties. `mouse` does not check deadlock: when no mouse and
no token is left the simulation has stopped. Nor does `demand_paging`, where the kernel halts.

### Fairness

* The CPU executes: weak fairness of `Progress`, the steps of the running thread that
  finish a call or yield. Threads are expected to give the CPU away (the kernel is
  cooperative: a thread that never does stops the machine, and no property holds of it).
* A tick that finds interrupts disabled is latched by the interrupt controller and
  delivered when they are enabled, and dates pass: strong fairness of `Tick(t)`, for an
  action that stays armed. In `Kernel` the interrupt has `clk_it()` as handler and the
  same fairness is given to it.
* A client that holds a unit or the mutex and gets the CPU again and again gives it back:
  strong fairness of `Leave` and of `Unlock`, and a holder does not sleep without
  timeout nor exit. The idle thread holds nothing.
* No fairness is assumed of calls that threads are free to make or not (creation, sleep,
  exit, up, trydown, forced unblock).

## 4. Proofs

All checked by TLAPS. Each component has an inductive invariant (`...Inv`), one lemma for each
operation (`...Step`), a theorem `...Invariance`, and the properties of the runs as
consequences of it.

Assumptions on the constants, and nothing else: two distinct threads `Idle` and `Kinit`
(`IdleKinitAssumption`), an initial value and a bound of the semaphore
(`ValueAssumption`), a mutex owner that is not a thread when it is `Null` (`NullAssumption`), finitely
many pages with at least two that are neither the kernel's nor hardware's
(`PhysmemAssumption`, `PagingAssumption`), two nanosecond fields that fit a word
(`WordAssumption`) and dates within what the words hold (`TimeoutsAssumption`), a map of two
columns or more and mice that are no things (`MapAssumption`), a list of distinct classes of kmalloc
(`ClassesAssumption`), and for the allocators (`KmemAssumption`): sizes of pages, structures and objects that
are not zero; room in the first two slabs for the structures that the setup takes before it can
allocate (three caches, five ranges); a page that holds two slab structures (7 words of 1024 in the kernel); three pages or
more, so that the last area of the setup is not empty (`create_range()` returns NULL for an empty one); and
caches of callers that are not the allocators' own.

* `SequenceLemmas`: the lists of the kernel are sequences; where `Append`, `Tail`, `RemoveAt`,
  `RemoveFirst`, `InsertAt` and `SubSeq` put each element, and which elements remain, when there
  are no duplicates.
* `ThreadsProofs`: each way to give the CPU away keeps one thread RUNNING and the queue
  equal to the READY threads without duplicates. `ThreadsInv` is inductive and implies
  `ThreadsTypeOK`, `SchedConsistent`, `NoDanglingTimeout`, `SleeperHasWaker` and
  `AlwaysAReadyThread`. Alone they are not inductive. `LocMatchesState` says what a BLOCKED or
  unused thread may be in the middle of; `TimeoutFrames` that the frame of a timeout action
  belongs to a thread that sleeps and that an action which fired has left the list (otherwise its
  end of sleep could unregister it twice); `IdleAwake` that the idle thread never blocks
  (otherwise the queue may become empty). `NoOvertaking`: every step of the thread API is
  one of the four changes of `QueueStep`: nothing, a thread that is not in the queue joins it, its head is
  dispatched, or the current thread joins it and its head is dispatched. A thread that joins is
  behind the others, the head leaves first. That the current thread or a woken one is not in the
  queue already is where the invariant is needed.
* Wait queues, in `ThreadsProofs`: `WaitQueueInv` adds the wait queue to the threads, once for the
  semaphores and the mutexes. The entries are the waiters that were not woken up (`EntriesMatchWaiters`),
  which needs the thread invariants because a wakeup makes the head waiter READY; a waiter
  leaves the middle of the queue when it times out.
* Semaphores, in `KsynchProofs`: `KsemaInv` adds the value. `KsemaImplementsSemaphore` maps the initial
  states and every step to `CountingSemaphore` (`avail` is the value when positive, `queue`
  the list of entries, `granted` the woken waiters). For the clients, `ClientsInv` adds that a
  holder neither waits nor was woken up, and `UnitsConserved` counts; that no more threads hold a unit than the
  semaphore was created with follows (`HoldersBounded`), and that a client which gives back what it
  holds never meets the bound `MaxValue` of the model (`BoundNeverReached`).
* Mutexes, in `KsynchProofs`: `KmutexInv` adds to `MutualExclusion` that nobody waits for a free mutex
  (`FreeIsNotAwaited`): otherwise an unlock that finds no waiter could leave one asleep for
  ever, and the next lock would overtake it. The refinement is that of a semaphore with one unit.
* `PagingProofs`: `PagingInv` is `PagingTypeOK`, `CountsExact`, `TablesInUse`, and
  `TablesNotHeld`: no caller holds a page that is used as a page table, which is why a caller
  can neither map one nor drop its count. First, what the functions of `physmem.c` do to the counts and the
  two lists (`PhysParts`). Then the argument of the counts: an operation on one virtual page changes one page
  table entry, so the set of places where a page is mapped and the set of entries of a page
  table each gain or lose one element, and every count moves with them. The page
  that becomes a table is distinct from every page that counts: its own count was zero.
  `RangesAreKept` and the refinement of `AddressSpace` follow, each operation being shown to change the
  mapping at its own virtual page only.
* `TimeoutsProofs`: a pair of seconds and nanoseconds is a number (`DateValue`), the order of the pairs
  is the order of the numbers, and `sos_time_inc()`, `sos_time_dec()` and `sos_time_cmp()` are exact
  where `DatesFit`, the part that makes the invariant inductive, says they are used. The loop that
  inserts an action splits the list in two (`InsertionPlaceSplits`), and so does the loop of the
  tick, since the list is sorted. For `CalledInTime`, `DueNearWish` relates the due date to
  the time asked for (less than a tick later, not at all for a date) and to the last tick (not earlier).
* `MouseProofs`: `MapInv` states `MapMatchesMice` as a map and coordinates that designate each
  other, which is inductive; `DoorsInPlace` is needed because a mouse that meets an
  exit leaves instead of being written on the map.

* `KmemProofs`, first part: the steps. The functions of `kmem_vmm.c` and `kmem_slab.c` call each other, so
  a function of the other file starts and returns between two steps of one. Hence `KmemKept`, which
  every step keeps from any state that satisfies it, at any depth of the calls.
  `KmemKept` says that ranges do not overlap and are in one list each, that the lists are sorted, that a
  mapped page records the range it lies in, and that a slab and its range point at each other and agree on
  their pages. Every step keeps it: the whole of a free range or its first pages taken
  (`TakeRangeKeeps`, `SplitRangeKeeps`), pages mapped (`MapFirstKeeps`), an object taken or freed
  (`TakeObjectKeeps`, `FreeObjectKeeps`), a slab added or released (`AddSlabKeeps`,
  `UnbindRangeKeeps`), free ranges merged (`MergeKeeps`). Three arguments go further. A turn of the
  loop of the deletion (`FreedAndMergedKeeps`) leaves no two free ranges that touch, though it looks at
  the two neighbours of the freed range only and through a page number that a merge may
  have moved; each turn takes one range out of those that are used or queued (`DeletionTurns`), so the loop
  ends; no step of it loses a page. `SplitRangeKeeps` holds for a range that has become smaller
  since it was chosen, as long as what is asked for fits. And `KmemKept` is enough for the
  callers: an address of a used range is looked up to this range (`LookupFinds`), every object to the
  slab it was taken from (`ObjectResolved`), and no two objects share a word, whatever their caches
  (`AllObjectsApart`), which needs the geometry of `cache_initialize()` and the ranges apart.

* `KmemProofs`, second part, and `KmemInvariant`: the operations. `KmemKept` is not enough for them: that a
  descriptor is allocated to one range only, that the structure of a new slab is not one in use, that
  a chosen range still fits, depend on the caches. `Firm(st, U)` holds throughout an operation: `KmemKept`; the slab
  lists and counts of each cache (`CachesOK`); where the structures lie (`Placed`), inside their slab or as
  objects of the cache of structures; every range described by an allocated object (`Descriptors`) and in
  one list; and the ranges sharing all the pages (`Tiled`). U are the slabs that the operation has in hand, whose
  structure is not allocated yet or not freed yet. `Ready(st, U)` adds what holds when no deletion is under way:
  free ranges that touch are merged, the used ones are mapped, nothing is queued. `KmemInv` is `Ready` with
  nothing in hand, the reserves, the empty slabs returned, no object of the allocators' own caches
  with anybody else, and `owned` equal to what the state takes for allocated (`HeldAreas`).
  `Need` lists the objects that the allocators use themselves and `Held` the others: an operation is described by
  what it does to `Held` and `Loose` (the ranges that callers hold), and the calls it makes of the other file are shown to change neither.
  * Release (`DelRangeDeletes`, `CacheFreeReady`): the loop of the deletion is followed through all its turns. A merge frees a
    descriptor, which may empty a slab, whose range is queued; the loop ends with nothing queued and no page or descriptor lost.
  * Allocation (`NewRangeReady`, `CacheGrowReady`, `CacheAllocReady`): a range needs a descriptor, a descriptor may need
    a slab, a slab needs a range. The reserve of two in the cache of ranges bounds this: when that cache grows, the
    range of its slab gets its descriptor from the reserve, so that no function is entered deeper than `KmemSlab`
    defines it. The range that the outer call had chosen has lost one page at most meanwhile, at
    its beginning, and still fits since it was larger than what is asked for.
  * Failures: each of these theorems covers the calls in which physical memory ends, and shows that `Held` and `Loose`
    are then what they were.
  * Setup: the first caches are made before there are ranges (`Early`, `Stage`), with slabs that lie in none; the three areas
    give them theirs (`VmmSet`), and the classes of kmalloc are then creations like any other (`Fresh`).

  `RangesTile`, `NothingLost`, `ReserveKept` and `OwnedIsAllocated` follow from `KmemInv`. The refinement of `Heap`
  needs that an area that is delivered is apart from all those held (`OwnedStep`): objects of one slab
  by `AllObjectsApart`, slabs and ranges because they do not overlap.

Model-checked only:

* the liveness properties (`ReadyRuns`, `TimedSleepEnds`, `WaitEnds`, `LockEnds`): fairness and ENABLED are out of the prover's reach;
* the counterexamples, and `Kernel` and `DemandPaging`, which exist for them.

The loops that are recursive functions in the models are reasoned about by least counterexample in the natural
numbers, since the induction theorems take an operator as a parameter, which the installed provers cannot instantiate.

## 5. Findings

1. `kmutex_careless`: after an unlock that wakes a waiter, `mutex->owner` still names the
   former owner until the waiter runs (`ksynch.c:203-216`). A second unlock by it is then accepted
   and, when the queue is empty, marks the mutex free although it was handed over. In the trace the former
   owner locks it again and the waiter, when it runs, takes it too: two holders. Read in the
   code, not shown by the run: without that second unlock, a new lock by the former owner in the same
   window returns `-SOS_EBUSY` as if it were a recursive lock (`ksynch.c:144-147`).
2. `early_timeout`: `_add_action()` adds a delay to the time of the last tick (`time.c:207`), so the part
   of the tick that has gone by counts too, and the delay is cut short. `thread.h:176` promises "(at least) the
   given delay" and `time.h:153-155` a delay relative to the time of the call. `time.h:161-162` counts in whole ticks
   ("fired in X ticks, with X integer and >= delay"), which the code respects only if the tick in progress counts for
   one. `NeverEarlyByATick` proves how far it goes: less than one tick. Absolute dates are not concerned (`CalledInTime`).
3. `kernel_timer`: the only handler of the timer interrupt never calls
   `sos_time_do_tick()`; a thread that sleeps for a delay never wakes up.
4. `demand_paging`: `pgflt_ex()` maps a page in a range and does not record the range in it. The
   next lookup of an address of this page, which `sos_kmem_vmm_free()` begins with, halts in an
   assertion (`kmem_vmm.c:130`). Only areas allocated without `SOS_KMEM_VMM_MAP` are
   concerned; no caller in the kernel asks for one today.

Two behaviours are modelled as they are in the code and are not among the runs. `sos_thread_sleep(NULL)` returns
`SOS_OK` when it was interrupted (`thread.c:354-361`, `SleepStatus`), where `thread.h:190-194` promises
`-SOS_EINTR`; the wait queues do not rely on it, they look at `wakeup_triggered`. And a token of `SemMouse` is lost
when no place is free around the entry (`MiceComeFromHarvests` allows it).

## 6. Not modelled, and why

Boot, GDT, IDT, exceptions, chips, console and C library: tables written once or
input/output, no behaviour over time. CPU context: its effect on control is in `Sched` and
`Sleep`. Of `irq.c`, the nesting counter and the table of routines: only one routine is ever
bound, and never unbound. Of `kwaitq.c`, entries added outside `sos_kwaitq_wait()` and a
wakeup of several threads: the kernel makes no such call. The demonstration threads of
`kernel.c`: they call the modelled API and print. The insertion in the ready queue
at the grain of its pointers (`thread.c:173`), and what a destroyed cache leaves in
`kslab_cache_list` (`kmem_slab.c:624`): see the hazards in `PROJECT.json`. A creation that follows the destruction
of the last cache of that list is thus easier in `Kmem` than in the code, which writes one link into the freed
structure: in memory that no modelled state reads, unless the slab of that structure was released.

## 7. What could follow

Optional models: `ReadyQueue`, the list insertion interrupted (`thread.c:173`); the public
interface of `kwaitq.c`; the nesting of interrupts; actions that register themselves again (`time.c:350`).
