# A TLA+ verification of popcorn-2

popcorn-2 is an operating system in Rust: a UEFI bootloader, a kernel for
amd64, and the crates they share. This directory models the parts of it in which
order matters: locks, one-time initialisation, the scheduler, the executor,
physical and virtual memory, page tables and mappings, and timer interrupts. TLC
checks the models on small instances. TLAPS proves, for instances of every size,
the safety of the locks, the cells, the scheduler, the executor, the allocators
of frames with their loops and the hand-over between them, kernel address space
and heap, page tables and mappings, and the interrupt path, with the refinements
between them.

Paths below are relative to `src/`. `PROJECT.json` maps every definition to the
lines it stands for, and lists components, runs, hazards and theorems.

## 1. Inventory

| Part | State | Operations | What makes it hard |
|---|---|---|---|
| Spinlock, Mutex (`kernel_api/src/sync/mutex.rs`) | lock word, saved interrupt flag, each core's interrupt flag | lock, try_lock, unlock | several cores, handlers on top of threads, one saved flag per lock |
| RwLock (`kernel_api/src/sync/rwlock.rs`) | one word: writer bit, upgradable bit, reader count | fourteen methods | snapshots that are stale when exchanged, the count at its limit, handlers on top of owners |
| Once, OnceLock, LazyLock, LateInit (`kernel_api/src/sync/once.rs`, `kernel/src/sync/late_init.rs`) | state, cell | call_once, get, get_or_init | readers racing the writer, an initialiser that panics |
| BootstrapOnceLock (`kernel_api/src/sync/once.rs`) | state, cell | bootstrap, get | the value is replaced in place while it is readable |
| Scheduler (`kernel/src/threading`) | task table, run queue, current thread, IrqCell | spawn, thread_yield, switch, startup | a guard, with the interrupt flag in it, taken by one thread and dropped by another |
| Executor (`kernel/src/task/executor.rs`) | tasks, wakers, fixed queue | spawn, run, wake | wakes at any moment: twice, during a poll, after the end |
| Watermark allocator (`kernel/src/memory/watermark_allocator.rs`) | regions left, current region, watermark | allocate, drain_into | state half changed by a request that fails |
| Bitmap allocator (`bitmap_allocator`) | bitmap | new, three allocation paths, allocate_at, deallocate, push | index arithmetic, runs that cross words |
| Physical memory (`kernel/src/memory/physical.rs`, `kernel_api/src/memory/physical.rs`) | installed allocators, OwnedFrames | allocate, drop, hand-over at boot | frames of one allocator dropped through another |
| Bootloader's memory map (`bootloader/src/main.rs`) | list of typed ranges | sort, merge, filter | entries in any order, holes |
| Ranged B-tree and its allocator (`ranged_btree`, `ranged_btree_allocator`) | keys that are ranges | allocate, allocate_at, deallocate, reserve | an order in which overlapping keys are equal |
| Virtual memory and heap (`kernel/src/memory/virtual.rs`, `kernel_default_heap`) | bump pointer, installed allocator, heap watermark | allocate, grow, drop, hand-over | each of the two needs the other |
| Page tables (`kernel/src/hal/arch/amd64/paging2`) | four levels of tables | map, unmap, new address space | tables allocated before the mapping fails |
| Mappings (`kernel_api/src/memory/mapping.rs`) | frames, pages, entries of a mapping | new, drop | one of three acquisitions failing, cached translations |
| Interrupt dispatch, local APIC timer (`kernel/src/main.rs`, `kernel/src/hal/arch/apic`) | vectors, handlers, timer registers, two locks | dispatch, end of interrupt, calibrate, start, stop | an interrupt between any two steps |
| I/O APIC, PIC, descriptor tables, serial port, ACPI | device registers, constant tables | set up once | bit layouts |
| ELF library, rest of the bootloader | segments, symbol map, relocations | load, link, relocate, hand over | which of several definitions wins |
| Graphics, fonts, file system structures, build tools | – | data conversion | nothing concurrent or long-lived |

How the parts interact: every kernel structure that is shared sits behind a
`Mutex` or in a `Once` cell. The bootloader's sorted memory map feeds the
watermark allocator, whose frames are reserved in the bitmap allocator before it
takes over. Address space comes from a bump allocator until a B-tree takes over,
whose nodes come from the heap, whose pages come from the allocator of address
space. A mapping takes frames from the one and pages from the other and enters
them in the page table. The scheduler's IrqCell, the APIC's IrqCell and the
spinlock all save and restore the core's interrupt flag. Interrupt handlers may
call wakers of the executor.

## 2. Modules

| Module | Models | Correspondence |
|---|---|---|
| `Spinlock` | RawSpinlock, interrupt flag, handlers | one action per access to shared memory; a context is a core's thread or its handler |
| `AbstractLock` | what a lock promises | acquire and release are indivisible |
| `RwLock`, `AbstractRwLock` | RwCount; what it promises | a method is a load followed by exchanges, each an action; the word is a record of its three fields; a caller is a thread or a handler, and `under` says which thread a handler runs on top of |
| `Once` | Once, OnceLock and the cells built on them | a turn of the spin loop is a step; the cell holds the thread that wrote it |
| `BootstrapOnce` | BootstrapOnceLock | a write of the cell takes two steps, and the cell is "torn" in between |
| `OnceCells` | a cell of either kind | the two share their variables; `kind` says which it is |
| `Scheduler` | IrqCell, Scheduler, thread_yield, switch | `pc[t]` is where a thread will go on when it is switched to; between its calls a thread sets the interrupt flag; `came` and `taker` record the flags threads came with and guard nothing |
| `IrqLocks` | a RawSpinlock, or an IrqCell with the scheduler in it | the two specifications side by side; `kind` says which of them takes steps |
| `Executor` | Executor and its wakers | `cloned` says which wakers exist outside; `due` and `surplus` record what callers did and guard nothing |
| `WatermarkAllocator` | Inner of the watermark allocator | one action per way a call can end |
| `FrameAllocator` | the contract of BackingAllocator | a set of free frames and the frames each handle owns |
| `BitmapConstants` | parameters of the bitmap modules | – |
| `BitmapAllocator` | the allocator of `bitmap_allocator` | one action per call, since every call holds the mutex |
| `BitmapScan` | its two search loops | one action per iteration; frames are counted from the first of the range, as `OffsetAt`, `WordIn` and `BitIn` do |
| `BitmapCalls` | calls that run the loops | a call starts the loops of `BitmapScan` on the current bitmap and marks what they find; implements `BitmapAllocator`, whose variables it shares |
| `BootMemoryMap` | from the firmware's map to usable regions | operators for the sort, the merging reduce and the filter, and the set they should yield |
| `PhysicalMemory` | kmain's memory setup | extends `BitmapAllocator`, whose actions are the second half of its own (`MemoryNext`), with `BootMemoryMap` and an instance of `WatermarkAllocator`; a handle of either allocator is an OwnedFrames |
| `RangedBtree` | RangedBtreeAllocator and OwnedPages | the map is the set of its keys; `Equal` and `Less` are the key type's `Ord` |
| `VirtualMemory` | bump allocator, heap, hand-over, over `RangedBtree` | a thread's `pc` is where it is in a call of the heap or of Global; both mutexes are variables; `regionFreed` records a drop and guards nothing |
| `PageTable` | TTable and KTable | `mem[f]` is frame f read as a table; the walk allocates the tables it misses |
| `AddressSpaces` | what page tables promise | each space is a partial function from pages to frames, with a shared upper half |
| `Mapping` | RawMapping over `PageTable` | one action per acquisition, mapped page, unmapped page and release; a cached translation may appear at any time |
| `Interrupts` | dispatch, IRQ_HANDLES, APIC timer, kmain's use of it | one action per register access; `stack` holds the handlers that run on top of kmain; a panic, which nobody catches, is kmain in a loop with the locks it has |
| `SyncProofs`, `EventProofs`, `FrameProofs`, `PhysicalMemoryProofs`, `VirtualMemoryProofs`, `PageTableProofs`, `MappingStepsProofs`, `MappingProofs` | – | theorems and lemmas |
| `MC*` | – | the instances TLC checks |

An operator with a comment beginning "Mutant" is a plausible bug in the
definition that follows it. No specification uses it. Putting it in the place of
that definition must make TLC report the property it is listed with in
`PROJECT.json`: this shows that the property depends on the code.

Type invariants are proved where there is a proof module; some runs also have
theirs as a conjunct of their first invariant.

Memory is sequentially consistent in all models. The code's acquire and release
orderings are not examined. `compare_exchange_weak` does not fail spuriously, as
on amd64, the only architecture the kernel builds for.

External to the code and modelled from how it is used: the firmware's memory
map, the standard library's BTreeMap, the processor (interrupt delivery, the
translation cache) and the local APIC's counter.

## 3. Runs

| Run | Instance | States | Shows |
|---|---|---|---|
| `irq_locks` | 2 cores with a handler each and 2 nested locks; or up to 3 threads of the scheduler | 43194 | spinlock: owners never interrupted, interrupt flag restored, refinement of `AbstractLock`, spinning ends in an acquisition; scheduler: exact run queue, no failing expect, guard and interrupt flag passed on, every thread runs |
| `rwlock` | 2 threads and a handler, at most 2 readers, 2 calls each | 312030 | the word counts the guards, no BUG assertion fails, refinement of `AbstractRwLock`, calls return unless a handler waits on top of an owner |
| `once` | both kinds of cell, 3 threads | 2783 | no uninitialised read, one value, the real value is final, waiting ends (for a OnceLock even if the initialiser panics) |
| `executor` | 3 tasks, queue of 3 | 5358 | no wake lost, every wake polled, no panic while tasks are woken only asleep |
| `bitmap` | 2 words of 3 frames, 2 handles, requests of up to 4 | 391936 | calls with their loops implement the one-step allocator and through it the contract, failure only without a free run, no panic |
| `physical_memory` | 4251 firmware maps of 6 frames with up to 3 usable regions, 2 handles | 594199 | usable frames only, none twice; the drained range covers the boot's frames with up to two regions; OwnedFrames never overlap across the hand-over and drops never panic |
| `virtual_memory` | 8 pages, 2 threads, 2 OwnedPages, 2 cells to a page | 351753 | no page has two owners across the hand-over and assertions hold, with the exceptions of section 6 |
| `mapping` | tables of 2 entries, 8 frames, 2 mappings, 2 address spaces | 300957 | the table maps exactly what mappings own, expects hold, refinement of `AddressSpaces` |
| `interrupts` | counts of up to 2 | 53597 | no handler finds a lock taken, every tick has a handler and is served unless kmain panicked inside a call, the calibration ends |
| `executor_wake` | 3 tasks, queue of 4 | violation | see section 6 |
| `physical_memory_three` | one map of three regions, 4 handles | violation | see section 6 |
| `virtual_memory_late` | 8 pages, 1 thread, 1 OwnedPages | violation | see section 6 |

Why the bounds are enough for the cases of interest:

- Two cores with a handler each give every pairing of thread and handler, on the
  same core and on different ones. Two locks give nesting.
- Three callers give a writer, a reader and an upgradable reader, or an owner
  and two rivals. `MaxReaders = 2` is reached and exceeded by three of them. One
  handler, on top of a thread or on a core of its own, is interrupted code's
  rival and another core's. `MaxCalls` bounds the calls of each.
- `MaxTasks` bounds threads and tasks ever made. Three threads are the least
  with which the queue has an order. `Capacity`, the executor's
  queue, is as long as there are tasks, the least with which nothing panics.
- Two words are the least with a run that crosses words. Words of three frames
  have runs that end with the word, which the fast path misses, and with
  `MaxFrames = 4` requests are longer than a word. The code uses
  `size_of::<usize>()`, 8, bits of each word; nothing else depends on 8.
- Three regions are the least for which the order of the regions matters. The
  firmware maps are all cuts of six frames into up to four descriptors of any
  type, and into any number of usable ones, holes included.
- In `virtual_memory`, `MaxPages` and `MaxWatermark` bound requests. The
  bootstrap region of two pages is filled and overrun, the B-tree's space is used
  up, and both reservations are adjacent, so that off-by-ones would show.
- Tables of two entries have four levels as the real ones do, with one top-level
  entry in each half. Of eight frames two are taken at the start, and each of the
  two pages of `VRange` needs two tables of its own: memory runs out at every
  point of a call.
  `MaxLen = 2` gives mappings that fail halfway. One cached translation is
  enough, since each entry of the cache can be wrong only by itself.
- `MaxCount = 2` gives counts that fit, that are zero and that are too large.
  `set_irq_number` is given the one vector that has a handler, or a number that is
  no vector: an unhandled vector of the same priority would stay in service and
  block the timer's, and nothing in the code keeps a caller from it.

Symmetry over handles, threads or mappings is used in `physical_memory`,
`virtual_memory` and `mapping`, which check no liveness. Deadlock is not checked
where the system may stop: bounded callers that are done (`rwlock`), finished
tasks (`executor`), a boot that fails (`physical_memory`), callers done or
spinning after a panic (`once`), a panic or the heap growing late
(`virtual_memory`).

## 4. Fairness

- `Spinlock`: a begun operation continues and a handler returns, because cores
  execute. Every critical section ends (strong fairness of unlock, which
  interrupts can disable again and again). No fairness on the exchanges of a
  particular spinner: the lock is not fair.
- `RwLock`, `OnceCells`: each thread executes the call it is in. For `RwLock`
  also, guards are dropped in the end, by callers that no handler is on top of.
- `Scheduler`: a thread inside the scheduler goes on. That threads yield again
  and again is a hypothesis of `EveryoneRuns`, as the scheduler is cooperative.
- `Executor`: run loops, and a poll returns.
- `VirtualMemory`, in `virtual_memory_late` only: a thread inside a call goes on.
- `Interrupts`: the timer counts, and the code of kmain's calls and of the
  handler is executed. Delivery is strongly fair, since the flag is cleared and
  set again by every call: the processor takes a pending interrupt before the
  next instruction with the flag set. Nobody has to make a further call.

The other specifications have no fairness, and only safety is checked of them.

## 5. Proofs

All theorems hold for every value of the constants that satisfies the named
assumptions of the modules, which say no more than what the constants stand for:

- `LocksAssumption`, `MaxAssumption`, `ThreadsAssumption`, `MaxTasksAssumption`,
  `BoundsAssumption`, `CountAssumption`, `BitmapAssumption`, `RangeAssumption`:
  sizes are natural numbers, positive where a zero would leave nothing to model,
  and locks have numbers.
- `FirmwareAssumption`: the firmware's descriptors, in any order, are not empty and
  do not overlap, as UEFI has it, and one of them is usable, without which `kmain`
  panics. `SortAssumption`: the sort of the uefi crate, which is not part of the
  repository, returns the same descriptors by increasing start. TLC evaluates both
  on every map of the runs.
- `HandlersAssumption`: handlers are callers, and `NoThread` is none of them.
- `UninitAssumption`, `NobodyAssumption`, parts of `TableAssumption` and
  `MappingAssumption`: a mark such as `Nobody` or `NoFrame` is not a value.
- `PlacesAssumption`: the bootstrap region and what the bootloader has mapped are
  not empty, lie in the B-tree's range and do not meet. The linker script puts the
  one behind the other.
- `CellsAssumption`: a page has cells, and alignments are not zero.
- `TableAssumption`: the tables of the upper half and the first PML4 are frames of
  memory, and the PML4 is not one of those tables.
- `MappingAssumption`: Global's pages are of the upper half and user pages of the
  lower.

Each inductive invariant has one lemma per action, or per kind of effect of an
action. A leaf that names no prover is tried with Zenon first and then with the
SMT solver (the `USE` at the head of each proof module); the leaves that need
arithmetic name the SMT solver.

**Spinlock** (`SyncProofs`): `SpinlockTypeOK`, `SpinlockMutualExclusion`,
`SpinlockOwnerNotInterrupted`, `SpinlockFlagRestored`,
`SpinlockNeverUnlockedTwice`, and `SpinlockImplementsLock`, the refinement of
`AbstractLock`. Mutual exclusion is not inductive: that the exchange lets one
context in needs that an owned lock's word is Locked (`StateMatchesOwner`). That
a flag is restored correctly needs to know which flags are saved where
(`SavedFlagChain`), that whoever is inside an operation runs with interrupts off
(`BusyMasked`), and that guards nest (`Discipline`).

**RwLock** (`SyncProofs`): `RwLockWordCountsGuards`, `RwLockNoBugPanic`, and
`RwLockImplements`, the refinement of `AbstractRwLock`. The invariant adds to the
exact word what every method knows at every step: which guard it is a method of,
and what its snapshot can be (`Locals`). Each step has one of four effects: it
moves a guard, returns false, goes round the loop, or reports an overflow. The
fourteen methods are shown to have one, and the effects to keep the invariant.

**Cells** (`EventProofs`): `CellsNeverUninit`, `CellsHaveOneValue`,
`CellsTrueIsFinal`. The invariant says who may write: only the one thread that
moved the state to Running, and nobody once the value is published.

**Scheduler** (`SyncProofs`): `SchedulerRunQueueExact`,
`SchedulerNoPanic`, `SchedulerGuardHandedOver`, `SchedulerFlagPassedOn`. These four
need one another. The queue can only be popped without a panic because it lists
the table's other threads without repetition (`Lists`, kept by `PushBack` and
`PopFront`). A switch keeps the guard balanced because every thread that waits
stands where it drops the guard first (`Places`). While the guard is taken, it
holds the flag that its last taker came with (`Guard`), and this is the flag a
thread resumes with: not, in general, the one it yielded with.

**Bitmap allocator** (`FrameProofs`): `BitmapTypeOK`,
`BitmapNoOverlap`, `BitmapOwnedNotFree`, `BitmapOnlyUsable`, `BitmapNoPanic`,
`BitmapFailsOnlyWhenFull`, and `BitmapImplementsContract`. The argument: frame
and (word, bit) are in bijection. Each path that succeeds has
the same effect, `Granted`: a run that was free is owned and no longer free. A
drop has the effect `DropFrees`. `NoOverlap` needs `OwnedNotFree`, and that a
drop stays in range needs `OnlyUsable` and that the pool of an allocator that
was built is in range (`PoolInRange`).

**Search loops** (`FrameProofs`): `ScanFoundIsRun`, `ScanSlowFindsFirst`,
`ScanFailsOnlyWhenNone`. The loop invariants `SlowLoop` (the frames counted are
free and end just before the one looked at, and no run starts earlier) and
`FastLoop` are proved over steps, so that no induction over data is needed.
`LoopsImplementAllocator` puts the loops into the allocator: the steps of a search
change nothing that `BitmapAllocator` has, and its last step is one call of it.
This needs `FastFirst`, that the fast loop has passed no place where the mask
matches, and `Searching`, that the bitmap is not touched meanwhile.
`LoopsFailOnlyWhenFull`, `LoopsNeverPanic` and `LoopsImplementContract` follow.

**Memory map** (`FrameProofs`, `PhysicalMemoryProofs`): `UsableMemory`, for a
firmware map of any length. The reduce that merges and the filter are functions
defined by recursion on the length of the list. The library's induction theorems
have an operator as parameter, so `Induction` is stated for a set of numbers
instead, from the existence of least elements, and `Recursion` says that functions
so defined exist. `Merged` and `Kept` are the invariants of the two loops: the
list so far is in order, ends where the last descriptor ends, and has the usable
frames of the descriptors so far.

**Physical memory** (`PhysicalMemoryProofs`): `MemoryNoOverlapTwoRegions`,
`MemoryDrainCovers`, `MemoryNoPanic` and `MemoryBootFrames`, from `UsableMemory`
and `MemoryInvariance`, for any number of regions of any size. The invariant
`MemoryInv` has one part for each half of the boot. `WatermarkInv` says where the
allocator stands (`Position`): which regions it has left, and that every frame it
has granted lies in a region it has passed or, in the current one, at or above
the watermark. It follows that a grant is fresh and usable until a request has
failed, and that with at most two regions everything lies in the range that
`drain_into` reports. `Contained`, the part of the bitmap's invariant that does
not speak of two owners, holds throughout. `NoOverlap` holds up to the draining
with any number of regions, and from then on, together with `OwnedNotFree`, with
at most two: `physical_memory_three` shows that it fails with three. The hand-over
is `DrainKeeps`: every frame that the boot still owns loses its bit. The lemmas of
the bitmap allocator are stated with `Contained` where that is enough, so that
they serve both specifications.

**Executor** (`EventProofs`): `WakesAreQueued`, `ExecutorNeverPanics`. Of a task
that is due, `TasksInv` says that it is alive and queued, whatever callers do.
That nothing panics holds while only tasks that are asleep are woken, and needs
`QueueInv`: the queue has no repetitions and no task that is being polled, so that
it is never longer than there are tasks.

**Ranged B-tree** (`VirtualMemoryProofs`): `Invariance`, `PagesHaveOneOwner`,
`MapAssertionsHold`. Keys never meet, so that the order in which overlapping
ranges are equal is an order on them; every OwnedPages has a key of its own, so
that a drop finds the key it means.

**Kernel address space** (`VirtualMemoryProofs`):
`KernelPagesDisjoint`, `AllocatorAssertionsHold`, from `VMInvariance`.
The invariant `VMInv` has three parts. `Control` says for every place of a thread
which of the two mutexes it holds and what it is about to do there, and that one
thread at most is in the hand-over. `HeapOK` says that the heap is mapped up to
its watermark and grows only when it has to. `Owners` says that before the
hand-over everything comes from below the bump pointer (`FromRegion`), and after
it every page in use is under a key, the owner's or one of the reservations
(`UnderKeys`). The hand-over is the step from the one to the other. `Owners` claims
this until the bootstrap region is overrun or a page of it is dropped after the
hand-over. It does not rely on the debug assertion that the latter may fail: the
model's drop goes on, as a release build does, or panics.

**Page tables and mappings** (`PageTableProofs`, `MappingStepsProofs`,
`MappingProofs`): `PageTableMapsWhatIsOwned`, `ExpectsHold`, and
`TablesImplementAddressSpaces`, from `MappingInvariance`. Tables are memory, so
the invariant first says that they are trees (`Tree`): there is a level for each
frame, entries of a table lead to the level below, every table is in one place,
and all PML4s have the tables of the upper half. From this, a walk that allocates
what it misses adds empty tables and disturbs no translation, also when it runs
out of frames halfway, and a write to a page's entry changes the translation of
this page alone: in every address space if it is in the upper half, in one
otherwise. These facts are lemmas about memories as values in `PageTableProofs`.
`MapInv` adds that frames owned by mappings are neither free nor tables
(`FramesOK`), that pages have one owner (`PagesOK`), that the kernel's entries are
what the loops of `new` and `drop` have done so far (`EntriesOK`), and that the
cached translation is one of them (`TlbOK`). The refinement maps the trees to the
functions they compute: a turn of a loop changes one page (`KernelChange` of
`AddressSpaces`), and walks that fail are stutters.

**Interrupts** (`EventProofs`): `InterruptsAreSafe`, `TicksHaveHandlers`.
The invariant says, for each place of kmain and of the handler, who has which
lock with which saved flag (`MainLocks`, `HandlerLocks`), and that the timer
stands still until handler and vector are set (`TimerOff`).

Only model-checked: the liveness properties (`SpinnersProgress`, `CallsReturn`,
`EveryoneRuns`, `WokenIsPolled`, `TicksServed`, `MeasurementEnds`, `CallsEnd`,
`WaitersReleased`), which are beyond the prover.

## 6. Disagreements between the code and what it says

Shown by a run that TLC reports violated:

- `executor_wake`: `wake` queues an id unconditionally
  (`kernel/src/task/executor.rs`). A task woken twice before its last poll, or
  after it, makes `run` fail its `expect("Task does not exist")`.
- `physical_memory_three`: `drain_into` reserves `prev_frame..top`, but regions
  are taken last, first, second and so on. With three regions in use, the first
  one's frames are handed out again, against the documented invariant of
  `OwnedFrames` (`kernel_api/src/memory/physical.rs:56`).
- `virtual_memory_late`: when an insertion into the B-tree needs a node and the
  heap has to grow for it, the heap asks for the map's mutex, which its own thread
  holds, and spins for ever. The comment at `kernel/src/main.rs:331-332` expects
  that heap allocations run out of memory then (`LateGrowthEnds`).

Seen while modelling, kept in the models, and reflected in the hypotheses of the
properties:

- RwCount leaves interrupts on, and its source says so (`rwlock.rs:25`, "FIXME:
  Deadlocks due to interrupts"). A handler that spins for a guard of the thread it
  interrupted never returns, and callers behind it wait with it. `CallsReturn` has
  this case (`InterruptedOwner`) as an exception, without which TLC reports it
  violated, and shows that calls return in every other.
- A thread resumes from `thread_yield` with the interrupt flag of the thread that
  ran before it: threads that yield with different flags exchange them
  (`FlagPassedOn`).
- A panic in the function given to `bootstrap` leaves the state Running for ever
  (`WaitersReleased` excludes it).
- `BootstrapOnceLock::get` may access the cell while it is overwritten, having
  checked the state before.
- After a failed request the watermark allocator can serve frames between two
  regions (`OnlyAreasUntilFailure`); kmain panics on the failure.
- `BitmapAllocator::new` panics when a region reaches into the last, partial
  word of the range.
- The bump allocator of address space tests the first page of a grant only, and
  with `>`: a grant can reach behind the bootstrap region, where the B-tree grants
  again (`Overrun` in `VirtualMemory`).
- Dropping, after the hand-over, pages that came from the bump allocator removes
  the B-tree's reservation of the whole bootstrap region. With debug assertions
  the length is then compared, and differs unless the drop has the region's own;
  a release build goes on, and grants pages of the region that others still own
  (`PagesDisjoint` and `AssertionsHold` exclude boots with such a drop,
  `regionFreed`).
- `map_page(...).expect("todo")` in the growth of the heap panics without a frame
  for a table, with the heap's mutex held.
- The B-tree allocator looks for room only before its first and behind its last
  key and otherwise ends in `todo!()`.
- When `RawMapping::new` panics for want of a frame for a table, its pages are
  lost and those mapped so far stay mapped to frames that are free again
  (`MappedIsOwned` excludes those pages).
- The calibration of the APIC timer does not restore the initial count, so a
  timer that was running is stopped (`kernel/src/hal/arch/apic/mod.rs:183`).
- `start_periodic` has unmasked the timer when the conversion of its count fails
  (`kernel/src/hal/arch/apic/mod.rs:246`).
- `set_irq_number` panics on a number that is no vector while it has the registers
  borrowed. The kernel catches no panic outside its tests, so that the guard is
  not dropped and interrupts stay off (`TicksServed` excludes it).

Seen in code that is not modelled:

- `Amd64KTable::translate_page` asserts an address of the lower half and then
  subtracts 256 from its PML4 index: it cannot return. `PageTable` takes
  translation from the processor's walk.
- `SymbolMap::insert` tests whether the symbol it could not insert is weak, not
  the one in the map. A strong definition does not replace a weak one, against
  the comment above the test (`elf/src/symbol_table.rs:100-104`).
- `locate_kernel` keeps the last matching partition (`bootloader/src/main.rs:884`);
  the repository's README says the first.
- The bootloader reads the memory map (`bootloader/src/main.rs:711`) before it
  allocates the last page tables, and gives the kernel the older map. The model
  starts at the map as it was read.

## 7. Not modelled

- The ELF library and most of the bootloader are sequential: one caller parses,
  copies, and stops at the first error. What could be checked of them is that a
  parser reads the format, for which a model would repeat the code.
- The bootloader's page tables make the same walk as the kernel's, once.
- I/O APIC, PIC, descriptor tables, serial and port output: written once at boot,
  or printed. The spurious vectors of the PIC are in `Interrupts`. Exceptions
  print and stop.
- ACPI table access, panic handling and logging are callbacks of external crates
  and formatting.
- Of `OwnedFrames`, zeroing and splitting; of page table entries, all bits but
  present and frame; of mappings, protections, which have no effect in the code;
  the older generic tables in `kernel/src/hal/paging`, of which only the `Entry`
  trait is still used.
- More than one core in the scheduler and the interrupt path: the kernel starts
  one. Locks, cells, virtual memory and mappings are modelled with several actors.
- `mm/dmm/slab_allocator` is unfinished and `mm/pmm/bitmap_memory_allocator`
  superseded; neither is part of the kernel.
- Drawing, fonts and image formats, bindings to LVGL, on-disk structures without
  operations, build-time tools. They convert data and keep no state that a
  property could be about.
- The C files, `fonts/*.c`, `fonts/fonts.h` and `bootloader/lvgl/lv_conf.h`, are
  tables of pixels written by a font converter and a header of options. They are
  data without behaviour; all the code that is modelled is Rust.
