# CrossShim: TLA+ models and proofs

CrossShim runs ARM64 Android libraries on x86-64 hosts. QEMU (through LibAFL)
executes the guest code, every guest thread on a host thread of its own, and
the guest's libc calls end in native handlers ("HLE" functions) that run
concurrently on those host threads. This directory models the parts of it where
that concurrency, resource limits or long sequences of calls make tests weak,
checks the models with TLC and proves some of their properties with TLAPS.

All paths below are relative to the repository (`src/` holds its sources:
`src/src/emulator.cpp`, `src/src/hle/hle_pthread.cpp` and so on).

## The system

| Part | Source | State that matters | Modelled in |
|---|---|---|---|
| Guest heap | `memory_manager.cpp` (`HeapAllocator`) | free list by address, free list by size, allocations, high-water mark; one mutex | `HeapAllocator` |
| Guest memory map | `memory_manager.cpp` (`MemoryManager`) | regions, heap or bump allocation | plan |
| malloc, mmap, brk | `hle/hle_memory.cpp`, `hle_mmap_state.h` | VMA budget | budget in `GuestThreads`; rest in plan |
| Read-write locks | `hle/hle_pthread.cpp` (`HostRWLock`) | reader and writer counts, waiting writers | `RWLock`, `ReadersWriter` |
| Mutexes, condition variables | `hle/hle_pthread.cpp` (`HostMutex`, `HostCond`), boosts in `hle/hle_sched.cpp` | host mutex, owner and count kept beside it, priority boosts | `MutexCond` |
| Barriers | `hle/hle_pthread.cpp` (`HostBarrier`) | generation, waiting, initialised; threads keep raw pointers to an object its map entry owns | `Barrier` |
| Thread lifecycle | `hle/hle_pthread.cpp`, exit calls in `emulator.cpp` | registry, stack and TLS arenas with freelists, VMA budget | `GuestThreads` |
| Calls from C into the guest | `emulator.cpp` (`call_function`, worker pool) | one mailbox per worker, affinity, lazy spawn, stop | `WorkerPool` |
| Keys, once, cleanup, spin locks, semaphores, signals | `hle/hle_pthread.cpp`, `hle_sched.cpp`, `hle_signal.cpp` | tables and queues | plan |
| Guest execution, nested calls, system call hook, HLE dispatch | `emulator.cpp`, `syscall_handler.cpp` | registers saved and restored, stub tables | plan |
| Module loading, TLS blocks | `elf_loader.cpp`, `relocation_handler.cpp`, `tls_manager.cpp`, `emulator.cpp` | modules, symbols, reference counts | plan |
| Cooperative scheduler | `thread_manager.cpp` | run queue of the design before host threads | later, in part |
| Files, network, time, strings, formatting, locale, math | `hle/*.cpp` | little; host calls and conversions | no, or operators later |
| QEMU bridge, wrapper generator | `qemu_stubs.cpp`, `rust/`, `wrapper_generator/` | none | no |

How they interact: a host thread calls into the guest through `WorkerPool`; the
guest code calls `pthread_*`, whose lifecycle half is `GuestThreads` and whose
synchronisation half is `RWLock`, `MutexCond` and `Barrier`; thread stacks that
the guest provides, and everything it mallocs, come from `HeapAllocator`.
Each module takes the others as environment: any thread may make any call the
code allows at any time.

`PROJECT.json` lists every part with its status, the source lines behind every
definition, and the hazards the properties answer.

## Conventions

* A critical section under one host mutex is one step. A wait on a condition
  variable is: park, be woken (or time out), evaluate the predicate again.
* What happens between two critical sections is a step of its own, so the
  interleavings of unlocked reads with other threads' steps are there. One
  exception: a thread exit, which releases VMAs and recycles regions in two
  sections inside one of `g_threads_mutex`, is a single step.
* Undefined behaviour (the use of a freed barrier) is a choice between what it
  can look like, without fairness.
* Calls that fail without changing anything are not actions.
* Each thread has a budget of calls (`MaxCalls`, `MaxThreads`, `MaxInits`); it
  bounds the instance and appears only in the guard that starts a call.
* A definition marked `\* mutant of X` is a plausible wrong version of `X`. It
  is used only to see that a property notices the difference.
* History variables (`holds` of `MutexCond`, `arrived`, `results`, `passed`, `joined`,
  `ran`) record what a property talks about and never appear in a guard.

## Modules and what the runs show

### RWLock and ReadersWriter

`RWLock` models `HostRWLock`: `acquire_reader`, `acquire_writer`, the try, timed
and clock variants and `unlock`, with re-entrant readers and a writer that waits
in a loop with or without a deadline. `ReadersWriter` is what such a lock
promises: a set of readers, or one writer.

Run `rwlock` (three threads, three calls each, 42,994 states): a writer
excludes everyone (`Exclusion`); `active_readers` and `waiting_writers` are exact
although readers re-enter and timed writers give up (`ReadersCounted`,
`WritersCounted`); a parked thread's predicate is false (`NoMissedWakeup`), so
notifying at the last unlock and on a time-out is enough; while a writer waits,
no new reader gets in (`WriterPreference`); the lock implements `ReadersWriter`;
every call returns.

Fairness (weak, per thread): a woken thread runs, a deadline passes, and a
holder unlocks (a guest that never unlocks blocks others by design). The budget
of calls bounds how often a waiting thread can be overtaken; an endless stream
of other calls may starve it, since neither `std::condition_variable` nor the code
hands the lock over in order.

### HeapAllocator

The best-fit allocator with aligned placement, splitting and
coalescing; addresses and sizes have a fixed width (`Word`), so sums wrap as
`uint64_t` does. Both free lists are modelled, the one by address as a function
and the one by size as a set of pairs. Alignments are powers of two or 0
(`PowersOfTwo`); `AlignUp` gives 0 for 0, as the mask of the code does.

Run `heap_safety` (13,096 states): live and free blocks never overlap and stay
within the heap (`Disjoint`); the two free lists agree (`IndicesAgree`); no two
free blocks touch (`Coalesced`). `BytesKept` bounds what each call loses for good:
one served from the free lists, less than the short tail `allocate` drops (16
bytes in the code); one served above the high-water mark, exactly the gap between
the old mark and the aligned block, which no free list ever gets and which is
shorter than the alignment: nearly a page for a page-aligned request.
The instance uses requests that cannot wrap around: no huge size, no alignment 0.

Run `heap_wrap` violates `Disjoint`: a size close to 2^64 makes the sum of the
high-water mark and the size wrap and passes the out-of-memory test. The first
such call returns a block that runs past the heap and moves the mark back; the
calls after it are placed from there, over live blocks too. An alignment of 0,
which `memalign` passes on, has the same effect by another way (the block is at
address 0 and the mark becomes the size) and is listed among the hazards.

### MutexCond

One mutex and one condition variable. The host mutex, the guest-visible owner
and count kept beside it, and the priority boosts of the owner are separate
steps, because the code updates them one after the other with other threads
reading in between.

Run `mutex_safety` (three threads, two calls each, symmetry, 670,206 states): one
thread is between lock and unlock (`MutualExclusion`); between its calls a holder
is the recorded owner with the recorded count, and nobody else is, so it is never
refused with `EPERM` (`HolderIsKnown`); whenever no thread is between two updates
the bookkeeping mirrors the host mutex (`BookkeepingMirrors`); every boost that
begins ends, on the time-out paths too (`BoostsBalanced`). Run `mutex_live` (two
threads, three calls each, 198,408 states): every call returns or parks in the
condition variable (`EveryCallReturns`).

The runs let a guest wait with the mutex held once (`WaitDepth = 1`).
Fairness (weak, per thread): a thread inside a call goes on, deadlines pass,
holders unlock. As above, the budget bounds overtaking.

Run `mutex_nested_wait` violates `BookkeepingMirrors`: a wait on a mutex held twice
releases the host mutex once and reports it free, while the thread still holds it.

### Barrier

Barriers at one guest address: init, wait, destroy. The map owns the
`HostBarrier`, a thread in `pthread_barrier_wait` holds a raw pointer: once
`destroy_barrier` has erased the entry, the object is freed under such a thread
(`Freed`). What the thread then does is undefined (`UseFreed`): it returns with any
result, or arrives at the barrier that now has the memory, or never returns. What
it may write into memory reused for something else is not modelled.

Run `barrier` (100,544 states), in which guests destroy as early as the code lets
them: nobody leaves a round early and one thread is the serial one
(`RoundsAreWhole`); the waiting count is exact (`WaitingCounted`); the `EBUSY` test
keeps the object of an incomplete round alive and initialised
(`BusyUntilReleased`), so only threads that are leaving, or have just looked the
object up, can be left with a freed one; everyone whose round is complete leaves
unless the barrier is freed first (`EveryoneLeaves`).

Run `barrier_destroy` violates `OthersGetZero`: the last arrival resets the
count before the others have woken, so a destroy right after the barrier opens
succeeds, and a waiter that wakes between the mark and the erase returns `EINVAL`
from a complete round. No freed object is used in that trace.

### GuestThreads

`pthread_create` step by step (id, stack region, VMA reservation, mapping, the
same for TLS, registration, clone) with every failure path, the two exit reports
(`SYS_THREAD_DONE`, `SYS_exit`), `pthread_join`, `pthread_detach`. Regions are
numbers; a stack pointer is the region it points into. Custom stacks have no
region.

Run `threads` (three ids, two regions per arena, a budget of five VMAs, so that
recycling, exhausted arenas and refused reservations all occur; 405,437 states):
no region has two owners or is free while owned (`RegionsExclusive`,
`RunningKeepsTls`); the VMA count is what the reservations of unfinished threads
add up to (`VmasAccounted`); an exiting thread, identified by its stack pointer
alone, finds its own entry (`ExitFindsItself`); the entry a join waits on stays
(`JoinTargetStays`); the joiner gets the value the thread returned, not the exit
code that follows (`JoinGetsValue`); a join whose thread is not running ends
(`JoinReturns`). Deadlock is not an error here: guest threads may join each other.

Run `threads_clone` violates `JoinReturns`: the entry is registered before the
clone, the trampoline turns every result into success, and nobody completes the
entry of a clone that failed.

Met while modelling, and listed among the hazards: a region whose mapping
failed goes on the freelist of mapped regions; a fresh region is lost when the
VMA budget refuses it; `pthread_self` numbers stack slots while `pthread_create`
numbers calls.

Fairness: a thread inside a call goes on, and a thread that has reported its
value reaches its exit call, which is the next instruction. Nothing is assumed
of guest code.

### WorkerPool

Callers choose a mailbox (`pick_affinity_worker`), push and wait; workers take,
run and publish; slot 0 clones the pool before the first request after the guest
has created a thread; `stop_emulator_thread` may come at any time. With
`SpawnMayStop` a clone may make no vCPU, and a guest thread that starts or ends at
the same time may hide that from the comparison of vCPU counts, or feign it.

Run `pool` (two callers with three calls, two pool workers; 155,222 states): a
request is in exactly one place (`InOnePlace`), no wake-up is lost by a push or by
the stop (`NoLostWakeup`), a caller stays with its pool worker (`StickyWorker`),
requests go to workers that exist (`RoutedToWorker`), every call returns unless
the emulator stops (`EveryCallReturns`), and after a stop `stop_emulator_thread`
returns and every worker ends up outside its loop for good (`StopReturns`). The
join waits for slot 0 only, so pool workers may still be in their loops when it
returns; the model keeps the mailboxes for them, the destructor does not (a
hazard). All clones work in this run.
Deadlock is not an error: an idle pool waits.

Run `pool_partial_spawn` violates `RoutedToWorker`: when spawning stops early, the
routing still spreads over all configured workers.

Fairness: host threads are scheduled, and the guest functions called return.

### Why the bounds are enough

Two threads suffice for most races here, three for "one more waits or passes in
between"; most runs have three. Two calls per thread
let a thread come back while another is still leaving, which is what barriers,
mailboxes and recycled regions are sensitive to. Two regions for three threads
force recycling and exhaustion. The heap has few addresses but every alignment,
split and merge case. For the read-write lock and the heap the proofs remove the
bounds.

## What is proved

`RWLockProofs` and `HeapAllocatorProofs` are checked by TLAPS.

* Read-write lock, for every finite set of threads and every budget: types, both
  counters, exclusion, no missed wake-up, writer preference, and that the lock
  implements `ReadersWriter`. The inductive invariant joins the counters to the
  per-thread state (`active_readers` is the number of read holds of all threads, a
  finite set, so "no reader" can be concluded from a zero) and ties
  `writer_active` to `writer_tid`. Exclusion alone is not inductive: without the counters an
  unlock could free the lock under another reader.
* Heap, for every size, width, non-zero alignment and set of requests that do not wrap
  (`NoWrap`, the case `heap_wrap` is about): types, `Disjoint`, `IndicesAgree`. The
  invariant `HeapOK` says that free blocks are apart from each other, from live
  blocks and below the high-water mark, and that the index by size is exactly the
  image of the index by address; `Unused` (a range apart from every block) is what
  a free or a split hands to the lemma on insertion with merging.

Only model-checked: liveness everywhere (the prover does not do fairness),
`Coalesced` and `BytesKept` of the heap, and all of `MutexCond`, `Barrier`,
`GuestThreads` and `WorkerPool`.

## Not modelled

Parts marked "plan" or "no" above. Within modelled parts: the read-write lock of
the non-writer-preferring kind (a host lock), attribute objects, scheduling
parameters, profiling and logging, `CROSSSHIM_PIN_WORKER`, memory orders (the shared
fields are atomics or under a mutex), alignments that are neither 0 nor a power
of two, the effect of a freed barrier on memory that was reused, the lifetime of
the mailboxes after a stop. Spurious wake-ups are modelled for the read-write
lock, the condition variable and barriers; in the waits of joins and mailboxes,
which test their predicate again, they change nothing.

## Plan

1. Models: the VMA budget shared by `mmap`, `munmap` and threads, with the
   address reused between a free and its release; `MemoryManager` above
   `HeapAllocator`; key values on recycled stacks, `pthread_once`, cleanup and
   `pthread_exit`; semaphores; nested calls (register save and restore, stack
   chunks by depth); signal delivery; `dlopen` reference counts and symbol order;
   HLE stub tables; exit handlers; file and directory tables; relocation
   arithmetic and search structures as operators against a reference.
2. Composition: `GuestThreads` with `MutexCond` (a thread exits holding a mutex),
   `WorkerPool` with nested calls, `HeapAllocator` below `MemoryManager`.
3. Abstract specifications: a mutex with hand-over for `MutexCond`, a call service
   for `WorkerPool`, a resource pool for the arenas.
4. Proofs: `MutualExclusion` and `HolderIsKnown`; `RegionsExclusive` and
   `JoinTargetStays`; `InOnePlace` and `NoLostWakeup`; `RoundsAreWhole`; `Coalesced`.
