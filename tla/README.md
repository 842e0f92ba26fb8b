# A TLA+ verification of HawkSet

HawkSet (`src/`) is a Pin tool that watches a multi-threaded program which uses
persistent memory and reports *persistency-induced races*: a thread loads a
byte another thread has stored and not yet made persistent, with no lock and no
thread ordering between the two. This directory models the part of the tool
that decides what is reported, model-checks it with TLC, and proves its central
facts with TLAPS.

## 1. Inventory

| Component | State | Operations | Talks to |
|---|---|---|---|
| Vector clocks (`vector_clock.hpp`) | a map thread id -> timestamp | `update(tid)`, `update(vc)`, `is_concurrent` | thread tracking, analysis |
| Thread creation, join and exit (`hawkset.cpp` 465-537, 1023-1112) | per thread `vector_clocks`; globals `creator_thread_*`, `created_*`, `thread_creation_mutex`, `thread_creation_semaphore`, `pthread_id_to_tid`, `exit_threads_clock` | `PthreadCreateReplacement`, `TraceThreadStart`, `PthreadJoinReplacement`, `TraceThreadExit` | the creator and the new thread meet through the globals |
| Persistence tracker (`hawkset.cpp` 258-429, 783-861) | per thread `mem_state`, `flushed_mem_state`, `race_likely_stores`, `race_likely_loads` | `ProcessStore/Flush/Fence/Read/ThreadExit`, `CheckOverwrite`, `RegisterUnpersistedStore`, `RegisterAccess` | locksets, heuristic, clock index |
| Timed locksets (`lockset.cpp`, `cache.hpp`) | per thread `current_timedlockset`, `cached_timedlockset`, `lock_clock`; global lock index, interning caches | `ProcessLock`, `lock/unlock[_special]`, `intersect_timedlockset`, `to_lockset`, `short_intersect`, `..._cache_get` | tracker, analysis |
| Initialisation removal heuristic (`hawkset.cpp` 183-256) | global `variable_accessed`, `variable_accessed_map` under one mutex | `IgnoreAccess`, `HandleAccessByte`, `HandleAccess` | asked by the tracker on every access |
| Race analysis (`hawkset.cpp` 634-775) | reads every `ThreadData` once, at the end | `CheckPMRaces`, `CheckPMRacesPerThread` | clocks, locksets, output |
| Lock instrumentation (`hawkset.cpp` 947-1021, `utils.hpp` 642-715) | per thread one pending try-lock | `LockBefore` ... `RWUnlockBefore`, `TryLockBefore/After` | `ProcessLock` |
| PM allocations (`utils.hpp` 31-144) | global `allocs`, `found_alloc` | `SysBefore`, `SysAfter`, `IsPMAddress` | guards every `Trace...` handler |
| Example programs (`examples/*.c`) | a few bytes of persistent memory, locks, threads | stores, loads, flushes, fences, critical sections | run under the tool |
| Backtraces, instruction and image instrumentation, configuration, output, counters | caches and statistics | `GetBacktrace`, `TraceInstructions`, `ImageLoad`, `MutexConfig`, `OutputRaces`, `Fini` | - |

### Hard behaviours

* **Two threads in one handshake.** The creator notes itself and publishes a
  clock, calls the original `pthread_create` inside `thread_creation_mutex`,
  and waits for the semaphore the new thread sets. The new thread sets it
  *before* it reads the published clock, and reads it without the mutex.
* **A join resolves a `pthread_t`** after the C library may already have given
  it to somebody else, in a map that is filled late and never erased from.
* **A window, not a point.** A store is unprotected from the store to its
  fence; a lock protects it only if held all that time. Locksets carry
  timestamps for this, timestamps wrap, locks recur, and the lockset a store
  sees is an interned copy that has to be invalidated.
* **Partial overwriting and flushing** of pending stores in two maps.
* **The heuristic** ignores accesses by counting threads in a 64-bit set, is
  shared by all threads, and judges the ends of one race at different times.
* **Locks as the tool hears of them.** It is called before a lock function and
  never after it, on both sides of a try function with one slot in between, and
  not at all for functions the configuration does not name.
* **Unprotected globals** (`allocs`, `found_alloc`, `pthread_id_to_tid`,
  `lock_index`): any thread's system call can end between the entry and the exit
  of an `mmap`; a map is read while another thread inserts into it.
* **Identity by address.** A lock becomes an index, a set of indices a vector of
  words, a lockset an address in a cache; comparing and intersecting rely on it.
* **The whole is judged at the end**, from what the threads have left behind by
  then: what a record keeps of a window decides what can be found.

`PROJECT.json` lists every hazard at its line with the properties that cover it.

### What makes each component correct

* Vector clocks: the operations are those of the partial order.
* Threads: two segments have concurrent clocks exactly when neither happens
  before the other; every live thread is found under its `pthread_t`; the
  handshake cannot hang.
* Tracker: no store byte is lost or registered twice; `was_flushed` and
  `persisted` tell the truth; a record's `common_set` is the set of locks held
  over the whole window.
* Heuristic: an access is ignored exactly while at most N threads have
  accessed the byte; a race whose load falls into the window is not lost.
* Locksets and interning: indices stay and are not shared, equal locksets have
  one address, a non-empty intersection is a lock both threads had.
* Lock instrumentation: at every access the lockset is the set of locks the
  thread holds.
* PM allocations: `IsPMAddress` is true of persistent memory and of nothing else.
* Analysis: it reports exactly the pairs of records that race by definition.
* The tool: what it reports is a race of the run, and a race of the run is reported.

## 2. Modules

| Module | Models | State and actions against the code |
|---|---|---|
| `VectorClock` | `vector_clock.hpp` | operators; a clock is a function over the keys of the `std::map`. `IsConcurrent` keeps the two scans and the early returns. |
| `ThreadClocks` | creation, join, exit | one action per stretch between two points where another thread can look: `CreateBegin` (lock, note, publish), `CreateOriginal` / `CreateFail` (the original call), `CreateWait`, `CreateMap`; `ThreadStartSignal`, `ThreadStartInit`; `JoinOriginal`, `JoinEnd`; `ThreadExit`. `pc` is the place of each thread. `handle`, `joining`, `joined` are the C library: it hands out a `pthread_t` that no unjoined thread has. |
| `TimedLockset` | `intersect_timedlockset` | operators on functions lock -> timestamp. |
| `Lockset` | `Lockset` in `lockset.cpp` | a lockset as the vector of words it is: `WithMutex` sets a bit, `WordsEqual` and `WordsMeet` are `operator==` and the loop of `short_intersect`, with the words one side lacks taken for empty. |
| `Interning` | `register_mutex`, `register_special_mutex`, `get_index`, `TimedLockset::lock/unlock[_special]`, the two caches | `ProcessLock` up to the registration, `RegisteredAlready` / `RegisterBegin` + `RegisterEnd`, `GetIndex` / `GetIndexMissing`; `RegisterSpecial` is an image load; `Store`, `Fence`, `Load` intern. An address is a position in a cache. |
| `Irh` | `IgnoreAccess`, `HandleAccessByte`, `HandleAccess` | operators on the pair of maps. `HandleAccess` is the closed form of the loop. |
| `IrhTracker` | the heuristic under many threads | `Access` runs the literal loop, `AccessByte` one query, `Abort` the assertion on the number of threads. |
| `PersistTracker` | the handlers on `ThreadData` | `Store`, `RMW`, `Load`, `Flush`, `Fence`, `AcquireLock`, `ReleaseLock`, `NextSegment`, `Exit`: each is one handler, composed from the operators `After...` that translate the `Process...` routines it calls. |
| `PersistencyWindows` | what the tracker promises (abstract) | every stored byte opens a window; it closes at a fence after a flush, when the byte is stored again, or when the thread ends; a lock protects it if it was held all along. No maps of pending stores, timestamps, interned copies. |
| `LockWrappers` | lock instrumentation | `LockBefore`, `TryLockBefore`, `TryLockAfter`, `UnlockBefore`, `TraceAdqRel...` are the routines; `LockReturn`, `LockFail`, `UnlockReturn` are the library. `calls` is the stack of instrumented functions a thread is in; `Store`, `Load`, `Persist` show what the locksets are worth. |
| `PMAllocation` | `SysBefore`, `SysAfter`, `IsPMAddress` | `MmapBefore`, `MunmapBefore`, `OtherBefore` (entry), `Kernel` (external), `SysAfter` (exit). |
| `RaceAnalysis` | `CheckPMRaces`, `CheckPMRacesPerThread`, `short_intersect` | operators on what the threads left behind. `CheckPMRacesPerThread` is the loop as a set, `Scan` the loop in a given order with its shortcut; `Races` is the definition it is compared with. |
| `EndOfRun` | what `CheckPMRaces` is given | `AddStore` and `AddLoad` are the two places where records are made; the clocks and the records a thread may leave are constants. |
| `HawkSet` | the tool around an application | composes `ThreadClocks`, `PersistTracker` (with and without `check_unpersisted_stores`), `PersistencyWindows` and `RaceAnalysis`. An application is a set of routines; every operation of a thread is one step of all four. `Analyse` is `PrepareForFini`. |
| `Examples` | six programs of `src/examples` | their operations on persistent memory, locks and threads, in order. |

`MC...` modules and `.cfg` files are TLC instances. The eight `...Proofs` modules
hold the proofs, one for each component (those about clocks are in
`ThreadClocksProofs`) and `HawkSetProofs` for the composition. Operators whose names describe a defect
(`MergeOverwriting`, `SemaphoreAfterWaitKept`, ...) are not part of the model:
each states a plausible bug, and the property it is meant to break does break
when it takes the place of the real definition.

Ghost variables (`past`, `parent`, `overtaken`, `misjoined`; `accessors`,
`asked`, ...; `written`, `unflushed`, `depth`, `held_since`; `held`, `missed`;
`begun`, `caught`, `initialising`, ...) record what really happened. No guard
reads them except those that say what the application can do (`depth`, `held`: a
thread unlocks what it holds), the counters of the bounds, and `missed` (below).

Abstractions worth knowing:

* A step of `ThreadClocks` ends where another thread can see or change a
  global. `ThreadStartInit` reads `creator_thread_id` and
  `creator_thread_clock` in one step; copying a `std::map` another thread
  assigns is undefined behaviour and is not modelled beyond old-or-new. A
  lookup in `pthread_id_to_tid` during an insertion may miss the key.
* So may `get_index` (`GetIndexMissing`): `operator[]` then inserts the mutex
  again with index 0. After that the map may have any shape and the model stops;
  the properties of `Interning` hold up to there (`~missed`).
* Thread ids are given out in order and not reused, the pthread library frees a
  `pthread_t` when it is joined. Every thread comes from `pthread_create`.
* In `PersistTracker` a handler touches only its own thread's `ThreadData` and
  `irh`, whose mutex it takes once per query; queries for different bytes are
  independent, so a handler is one step. A store's backtrace is the time of the
  store, which tells more stores apart than the code does.
* The locks are divided: `LockWrappers` has the library, the modes and the
  try-locks, `PersistTracker` recursion and the wrapping of `lock_clock`,
  `Interning` indices, words and addresses.
* Register contents nobody sets (`locktype`) are a choice of any value.
* In `PMAllocation` addresses are pages; the application unmaps only what it
  has; `mremap` and `MAP_FIXED` over a live mapping are left out.
* In `PersistTracker` all lock modes are one: `ProcessLock` does not tell them apart.
* A non-temporal store is what the code makes it: a flush of its line.
* In `HawkSet` an access is one byte wide, a lock is granted when it is free, and
  `publish` / `await` are a flag in volatile memory, which the tool does not see.

## 3. Runs

| Run | Shows | Bounds, and why they suffice |
|---|---|---|
| `thread_clocks` | `TypeOK`, `ClocksExact`, `NoFalseConcurrency`, `HandleResolves`, `ConcurrentIffIncomparable`, `MergeIsLeastUpperBound`, `CreationCompletes` | 4 threads, 3 `pthread_t`, 3 calls of `pthread_create` (49,681 states): two creators at once, a creation that fails, a child overtaken by its own and by another creator, a `pthread_t` used twice, joins before the map entry. The clocks that meet differ in keys and in values in every way. |
| `irh_loop` | `TypeOK`, `ThresholdExact`, `LoopIsOneQuery`, `OnlyInitialisationIgnored` | 4 threads, 3 bits, N = 2, 2 bytes: the limit is reached, the bits run out. |
| `irh_wide` | a **violation** of `SharedNotIgnored` | 2 threads, 2 bytes, N = 1 (the default). See section 5. |
| `persist` | `TypeOK`, `StoresAccounted`, `NoFalseProtection`, `NoMissedProtection`, `FlushTracked`, `ImplementsWindows` | 462,542 states. One thread, since a thread's tracker reads nothing of another's but the heuristic, which is off here. A behaviour has one of four focuses that bound the other operations more tightly: `OnLocks` (2 recursive locks, 4 acquisitions, timestamps modulo 4, so that `lock_clock` is back at 0 after the last; a timestamp given out twice is beyond the premises of `NoFalseProtection` and `ImplementsWindows`, and met in `hawkset`), `OnLines` (3 stores of one or two bytes on 3 bytes in 2 lines: partial overwriting in both maps, overlap of a line's end), `OnBoth` (overlapping windows under locks taken inside them), `OnSegments` (loads and stores around a creation or join). |
| `race_analysis` | `ReportsAreRaces`, `OrderDoesNotMatter` | `EndOfRun` with 3 threads and the clocks `ThreadClocks` gives them, 2 stores and 2 loads of one or two bytes anywhere, with or without a lock, in every order the maps may be visited (386,341 states). |
| `lock_wrappers` | `TypeOK`, `RecordedAreHeld`, `HeldAreRecorded`, `WindowLoadsUnprotected` | 2 threads, 2 reader-writer locks, 3 acquisitions, functions nested twice, try functions of two conventions: a lock taken, released and taken again around another thread's load; a try function inside another. |
| `lock_try` | a **violation** of `TryLocksRecorded` | the same with the try functions of `pthread.cfg` and no nesting. |
| `pm_allocation` | `TypeOK`, `PMTracked`, `OnlyPMTracked` | 2 threads, 3 pages, mappings of 1 or 2, 5 system calls: map, unmap in parts, map again, fail. |
| `pm_overtaken` | a **violation** of `PmWritesSeen` | the same with 4 system calls. |
| `interning` | `TypeOK`, `CachedIsCurrent`, `LocksetIsHeld`, `InternedOnce`, `ProtectionExact`, `IndicesStay` | 557,034 states. A storing and a loading thread, 2 mutexes and a special one in words of 2 bits, so that indices pass the end of a word; 4 lock calls: two threads register at once, an image is loaded between. |
| `hawkset` | `NoFalseAlarms`, `RacesReported`, `CaughtReported` | 589,571 states. The six example programs and 4,129 small applications, each with and without `-unpersisted`: every kind of window (fenced inside, across or after a critical section, under a lock taken twice, overwritten, never fenced, atomic) beside every kind of load, before, beside and after a join, with a worker's worker, with creations that overtake, also while a window is open, and with a lock taken three times over one window. `IndexModulus` 3 and `ClockModulus` 2, so that `clock_i` and `lock_clock` wrap and a lock gets an old timestamp back: what the properties except by `SegmentsNumbered` and `StampsFresh` happens here. |
| `threads_init` | a **violation** of `SilentWhenManyInitialise` | `n_threads_init` with its argument 2 and the default N = 1. |

The bounds `MaxCreates`, `MaxStores`, `MaxLoads`, `MaxAcquisitions`,
`MaxDepth`, `MaxSegments`, `MaxNesting`, `MaxCalls` and `MaxOps` only limit how
long the application runs. `ClockModulus`, `IndexModulus`, `TidBits`, `WordBits`,
`LineSize` and `MaxThreads` stand for the code's 2^32, 2^16, 64, 64, 64 and 1000,
small enough to be reached.

`ClocksExact` carries the premise `~misjoined /\ overtaken = {}`: no child was
overtaken between line 1065 and line 1072, no join read another thread's id.
Those two races of the tool are real in the model (without the premise the
invariant fails); the run shows that nothing else can falsify a clock.
`NoFalseConcurrency` weakens the premise: a creator that overtakes its own
child hides races and does not invent any. `NoFalseProtection` holds for a
thread's first 2^32 acquisitions. `NoMissedProtection` excludes locks the
thread has taken recursively.

`ImplementsWindows` is the refinement. The windows open in `PersistencyWindows`
are the stores in the two maps of `PersistTracker`; a lock protects one when the
store's timed lockset and the thread's agree on when it was taken; windows closed
are the records, and reads are the loads split into bytes. It is checked with
`CheckUnpersisted`, since otherwise overwritten stores leave no record, and with
the heuristic off, since it forgets accesses.

`OnlyInitialisationIgnored` speaks of bytes that were never inside a wider
access (see section 5). `RecordedAreHeld` and `HeldAreRecorded` name the
exceptions by their causes: `phantom` grows when a lock function fails or a try
function finds another call's mutex in the slot, `unrecorded` when `locktype` is
none of the enumeration or the slot was overwritten. `WindowLoadsUnprotected`
excuses locks held in shared mode (the tool does not tell readers from
writers), the acquire-release list and phantoms. `PMTracked` and
`OnlyPMTracked` hold while no `mmap` of persistent memory has been overtaken.

`HawkSet` compares the tool's verdict with the windows that `PersistencyWindows`
says there were. `NoFalseAlarms`, `RacesReported` and `CaughtReported` say in
their definitions what they except, and each exception is a real limit of the
code that shows up without it: more than 2^16 segments (`SegmentsNumbered`) or
2^32 acquisitions of a thread (`StampsFresh`, without which a lock taken anew can
seem to have been held all along); clocks spoilt by an overtaken creation or a join of another thread; a store whose
thread joined the reader before it fenced, since a record has the fence's segment
only (`JoinedInside`); the heuristic, which judges a store at its fence and a load
when it happens (`Initialising`); and without `-unpersisted` an overwritten store
that had been flushed, whose record says that it lasted until the next fence
(`KeptTooLong`). `CaughtReported` needs no exception for the heuristic: with
N <= 1 a load that really saw a store before its fence has made the byte shared.
Nor do overtaken creations hide such a load, unless the storing thread joins a
thread while the window is open (`JoinsInside`): a thread that was overtaken knows a
clock of its creator that is too new, and passes it on to whoever joins it.

Fairness. `CreationCompletes` assumes weak fairness of the steps a thread takes
*inside* the tool's routines, which are straight-line code under a preemptive
scheduler. Starting a creation, a join or an exit is up to the application and
is not fair. The mutex needs no fairness: `CreationCompletes` speaks of threads
that hold it or that have been created.

Deadlock is checked except in `interning` and `race_analysis`, which stop when
their threads have done what the bounds allow, or after a missed key.

## 4. Proofs

Every theorem holds for any values of the constants that satisfy the assumptions
of its module. Of those about a specification only
`TrackerImplementsWindows` has hypotheses of its own (below).
The bounds on how long the application runs are constants like the others, so
the theorems hold for runs of any length.

* `ThreadClocksProofs`, first part: `TickIsClock`, `MergeIsClock`,
  `IsConcurrentCorrect`, `IsConcurrentSymmetric`, `MergeIsLub`, for clocks over any set of ids, from
  `IsClock` (no timestamp in the map is 0) alone.
* `ThreadClocksProofs`, `TypeCorrect`: `Spec => []TypeOK`. Three invariants
  feed each other: `ControlInv` (a joining thread joins one that exists),
  `ClockInv` (a thread past its start has a clock, so `back()` is defined) and
  `HistoryInv`.
* `ThreadClocksProofs`, `HandlesResolve`: `Spec => []HandleResolves`, for any
  number of threads, `pthread_t` values and creations. `HandleResolves` is not
  inductive; `HandshakeInv` adds that the mutex is held exactly in the three
  phases between lines 1031 and 1056 (`MutexHeld`), that the semaphore is set
  only for a creator that waits (`SemaphoreForWaiter`), that ids come in order,
  that a thread before its signal is the newest one (`StarterIsNewest`), and
  that at the map entry both `*created_pthread_id_address` and
  `created_thread_id` belong to the newest thread (`MappedIsNewest`,
  `SignalledIsNewest`). The only assumption is `ThreadsAssumption`.
* `ThreadClocksProofs`, `ClocksAreExact` and `NoConcurrencyInvented`:
  `Spec => []ClocksExact` and `Spec => []NoFalseConcurrency`, for any number of
  threads. Neither is inductive, and they need three layers. `GroundInv` holds
  always: segments and pasts are as many, nobody knows a timestamp its thread has
  not reached (`Bounded`), a thread's own timestamp grows (`OwnGrows`), a creator
  has published the clock of the segment it closed (`CreatingOK`), a thread that
  ended has left its last one (`EndingOK`). `BelowInv`, while no other thread
  overtakes a child: clocks are above those of their past, and what an unread child
  will read is above its creator's segment. `KnownInv`, while nobody does: a
  timestamp known is a segment in the past, and the published clock lies strictly
  between the creator's segment and its next. That gap is the second tick of
  `ProcessThreadCreate`. `GrownGround`, `GrownBelow` and `GrownKnown` treat what
  creations, joins and exits have in common, the opening of a segment.
* `ThreadClocksProofs`, `ConcurrencyDecided` and `JoinIsLeast`:
  `Spec => []ConcurrentIffIncomparable` and `Spec => []MergeIsLeastUpperBound`.
  `ClockInv` says that what the threads compare and join are clocks; the rest is
  `IsConcurrentCorrect` and `MergeIsLub`.
* `RaceAnalysisProofs`, `AnalysisExact`: `CheckPMRaces = Races` for any threads,
  stores, loads, locks and clocks. Its assumption, `LeftBehind`, says that
  addresses and mask offsets are integers and that every segment a record names
  has a clock. `KeyOfLoad` and `EntryRaces` undo the splitting of loads by byte,
  `PerThread` is one call of `CheckPMRacesPerThread`; `IsConcurrentCorrect` turns
  the scan of two clocks into the order of segments.
* `RaceAnalysisProofs`, `ReportsExact`: `Spec => []ReportsAreRaces`, since every
  state of `EndOfRun` is one `LeftBehind` describes. `ScanExact` and
  `OrderIrrelevant` (`Spec => []OrderDoesNotMatter`): after `i` entries the loop
  has found the backtraces of the racy ones among them, by induction over `i`; a
  backtrace that is skipped is one that is there.
* `LockWrappersProofs`, `WrapperTypes`, `LocksetsAreHeld`, `HeldLocksAreSeen` and
  `LoadsInWindowsUnprotected`: the four invariants of `lock_wrappers`, for any
  threads, mutexes, try functions, nesting and failures. `WrapInv` says what is
  between the lockset and the locks: the lock `LockBefore` has recorded and the
  library has not granted, the one `UnlockBefore` has erased and the library has
  not taken back (`Between`), and nothing else but the failures; nesting matters
  because only try functions and acquire-release functions are around a call
  (`Nested`), so a thread in code of its own is in neither phase. `WindowInv` adds
  mutual exclusion (`Exclusion`) and that a lock common to a window and to now has
  been held exclusively since (`Window`): a step that records it again gives it a
  newer timestamp (`Kept`, `KeptKeeps`), one that loads does not hold it.
* `PersistTrackerProofs`, `ProtectionTrue`, `ProtectionKept` and `FlushesTold`:
  the three action properties of the run, for any threads, locks, bytes, lines and
  heuristic. They speak of the records a step adds, so the invariant `WindowInv`
  must say what those records will be made of: that the interned copy is void or
  current and timestamps have been given out (`LocksOK`), and that for every
  pending store a stamp it shares with the thread's lockset belongs to a lock held
  since, and conversely (`StoreOK`), in the map that its flush says (`DataOK`).
  `AcquireKeeps` is where the timestamps earn their place: below 2^32 acquisitions
  a new stamp is greater than every old one.
* `PersistTrackerProofs`, `NoStoreLost`: `Spec => []StoresAccounted`. The invariant
  `AccountsInv` adds that the two maps have no byte in common and that every
  written entry is older than `now`, so that a new store is none of the old ones.
* `PersistTrackerProofs`, `TrackerImplementsWindows`: `Spec => ImplementsWindows`,
  the refinement the run checks. The initial states map to initial states
  (`InitMaps`) and every handler to a step or a stutter of `PersistencyWindows`:
  a flush moves windows between its two states, a fence, an overwrite and an exit
  close them, a store opens one per byte after closing what it overwrites.
  `RefinementInv` is `WindowInv`, `AccountsInv` and `CountersOK`; the step proofs
  say what each routine does to the windows of a map (`StoreEffect`,
  `RegisterEffect`, `FenceEffect`). Its hypotheses are those under which nothing
  in the code is approximate: `N = 0` and `CheckUnpersisted`, or records are left
  out on purpose, and `MaxAcquisitions <= ClockModulus` and
  `MaxSegments <= IndexModulus`, or stamps and segment indices come back. The other
  theorems of this module say what remains true without them.
* `PersistTrackerProofs`, `TrackerTyped`: `Spec => []TypeOK`, without hypotheses.
* `PMAllocationProofs`, `AllocsTyped`, `UsableTracked` and `NothingElseTracked`:
  the three invariants of `pm_allocation`, for any threads, sizes, pages and
  calls. `PMTracked` and `OnlyPMTracked` need each other and more: `PMInv` adds
  that a page between the kernel and the application is in one call's hands
  (`HandsInv`), that while nothing is overtaken only the last entry can be
  without a start and it is that of the one `mmap` in progress (`PendingInv`), and
  that an entry no `munmap` has named covers persistent pages that no `munmap`
  in progress is about to take, or torn ones (`OnlyInv`).
* `IrhTrackerProofs`, `IrhTyped`, `BitsAreThreads`, `LoopAsksOnce` and
  `InitialisationIgnored`: the four invariants of `irh_loop`, for any finite set
  of threads (the tool has 1000 at most), any `N`, number of bits and width of
  access. `IrhOK` says that the indices given out are as many as the map's keys,
  so that a new one is nobody's (`BitsAreThreads` rests on it), `AskedInv` that a
  byte's bits are those of the threads asked about it, `BaseInv` what that means
  for bytes at the base of their accesses. `LoopAsksOnce` is an induction over the
  rounds of the loop: the first query leaves maps that the next ones leave alone,
  and its answer is theirs, also when it is the one that reaches the limit.
* `InterningProofs`, `MeetExact`, `EqualExact`, `WithMutexAdds`: the operations on
  words are those of sets of indices, for words of any width and locksets of any
  length. `Place` is the division of an index into word and bit. `ToLocksetExact`:
  `to_lockset` of a finite timed lockset has the indices of its locks, by induction
  over the sets the fold goes through.
* `InterningProofs`, `IndicesFixed`: `Spec => IndicesStay`, from `OwnIndices`: an
  index taken and not yet inserted is nobody's. `CopiesCurrent`:
  `Spec => []CachedIsCurrent`, from `CopyInv`: the copy is void throughout a lock
  function. `LocksetsHeld`: `Spec => []LocksetIsHeld`, from `HoldInv`: within a
  lock function only the lock of that call may be in the history and not in the
  lockset, or the other way round.
* `InterningProofs`, `InterningTyped`, `OneAddress` and `ProtectionFound`:
  `Spec => []TypeOK`, `[]InternedOnce` and `[]ProtectionExact`. `InternedOnce` is
  kept with `CacheInv` and `AddressInv`: an address that a store, a record or a
  load keeps is of the cache, and caches only grow. `MeaningInv` is what
  `ProtectionExact` needs: the timed lockset at a store's address has the stamps of
  the locks it was made under, and the words at a record's or a load's address are
  those of the locks it stands for. Indices stay where they are, so what an address
  means never changes (`StandsKept`, `NamesKept`); two locks never share an index,
  so a common bit is a common lock.

* `HawkSetProofs`, `ThreadsImplemented`: `Spec => TP!Spec`. Whatever the
  application does, a step of `HawkSet` is one of `ThreadClocks` or leaves its
  variables alone, so the theorems about threads hold in the tool as a whole
  (`ClocksHold`).
* `HawkSetProofs`, `FewFalseAlarms`, `NoRaceMissed` and `NoCatchMissed`:
  `Spec => []NoFalseAlarms`, `[]RacesReported` and `[]CaughtReported`, for any
  application, threads, locks, bytes, limit of the heuristic and value of
  `-unpersisted`; the only assumption is `HawkSetAssumption`, which gives the
  constants their types. The inductive invariant is `ToolInv` beside the invariant
  of the threads (`TP!ThreadsInv`), and has three parts.
  * `FactsInv` says what the tool's data has to do with what happened. A pending
    store stands for an open window, in the map that its flush says and with a lockset
    whose stamps agree with the current ones exactly on the window's locks (`MapsOK`,
    `Stands`); a record tells of a closed window, and every closed window that is
    looked for and not excused has one (`RecordsOK`); a load kept is a load that was
    made (`ReadsInv`); the bits of a byte are the threads that have accessed it
    (`HeuristicInv`); no two threads hold one mutex (`HolderInv`); what is excused has
    ended (`NotedInv`). Each handler has an `...Effect` lemma, which says what it does
    to the variables, and a `...Tracks` lemma, which says that the invariant is kept;
    `Moves` is what any step does to a thread's windows.
  * `CaughtInv` speaks of the loads that saw an open window: the two share no lock,
    neither is excused with N <= 1 (two threads have accessed the byte), and the
    segments are *apart* (`Apart` in `ThreadClocksProofs`): when the load was made its
    thread did not know the timestamp that the storing thread then had, nor the other
    way round unless a join has come in between. `SegmentInv` of `ThreadClocksProofs`
    shows that two running threads are always apart (`ApartNow`), and that they stay so
    as segments are added (`ApartKept`), also when creations are overtaken.
  * `VerdictInv`: once the analysis has run, the verdict is `CheckPMRaces` of the
    records. `AnalysisExact` turns it into the racing pairs (`VerdictMeans`).

  A report is then a record and a load with concurrent segments, so a window and a
  load that `NoConcurrencyInvented` tells unordered (`FalseAlarms`); and a window and
  a load that are unordered (`ClocksAreExact`) or apart (`ApartConcurrent`), without
  a lock in common, are a report (`PairReported`).

A recursive definition is proved about by induction over a set: the principles of
the library take an operator, which the provers cannot instantiate, so
`NatSetInduction` and `SetInduction` are stated for the set of the values for
which the claim holds, and follow from the well-foundedness of `<` and of strict
inclusion. The functions that recur (`Scan`, the loop of `HandleAccess`, the fold of
`to_lockset`) are exhibited first, to show that the `CHOOSE` behind them has a
value.

Only model-checked: liveness (`CreationCompletes`), which is out of the proof
system's reach. Every other property of the passing runs is stated by a theorem.

## 5. Findings

**Wider accesses** (`irh_wide`). `HandleAccess` (`hawkset.cpp:251`) asks
`IgnoreAccess(tid, address)` for every byte `i` of an access and never
`address + i`, although `CheckPMRaces` (703-705) reads bit `i` as the answer for
`address + i`. The trace has two accesses, with N = 1. `t1` accesses byte 1 by
itself and is ignored, as it should be. Then `t2` accesses the two bytes from
address 0, and the loop asks about address 0 twice. The first query finds it new
("first thread accessing the address, ignore access", line 190); the second, whose
answer stands for byte 1, finds the bit that the first has just set ("thread repeats
access, does not count as new thread", line 201). Neither is true of byte 1: `t2` is
the second thread to access it, past the limit, and its access is ignored all the
same. It leaves nothing in the bitset of byte 1, which still holds `t1` alone.
`OnlyInitialisationIgnored` shows that a byte at the base of all its accesses is
treated as the comments say, `LoopIsOneQuery` that the loop is equivalent to a
single query of the base address.

**Try-locks** (`lock_try`). `TryLockAfter` (`hawkset.cpp:978`) switches on an
argument `locktype` that `InstrumentLockRoutine` (`utils.hpp:697-703`) does not
pass; the type goes to `TryLockBefore`, which has no parameter for it
(`utils.hpp:692`). A successful try-lock is recorded only if the register
happens to hold a value of the enumeration. `HeldAreRecorded` shows that locks
are otherwise recorded. A lock that is missing invents races, it hides none.

**Overtaken `mmap`** (`pm_overtaken`). `SysAfter` (`utils.hpp:97`) takes the next
system call that returns, of whatever thread, for the `mmap` that set
`found_alloc`. The mapping gets the other call's result as its start and is never
recognised, against the comment at `utils.hpp:128`. `PMTracked` shows that this
is the only way a mapping is overlooked.

**Threads that initialise** (`threads_init`). The usage text of
`src/examples/n_threads_init.c:110` promises no report when the number of
initialising threads is at least `irh`. The heuristic ignores a byte's accesses
while at most `irh` threads have made them (`hawkset.cpp:209`), so it is the other
way round: with 2 initialising threads and `irh` 1 the reader is the third thread
and its load is reported, since the flag it waited for orders nothing for the tool.

## 6. Plan

What is left: accesses wider than a byte and creations that fail in `HawkSet`, with
the proofs that follow from them (an access would open one window per byte, as
`PersistencyWindows` has it already); `bug_fiesta.c` as an application; a flush by
another thread than the storing one, once it is said what the tool promises there.

## 7. Not modelled

* Backtraces: opaque values; `TraceRet` on an empty stack is up to the
  application's code.
* YAML and command-line configuration, instrumentation itself (which opcode gets
  which handler, which routine which wrapper), symbol lookup, report output,
  counters and the logger: sequential set-up and formatting, read by nothing.
* The operations of `Lockset` that nothing calls (`lock`, `unlock`, `clear`,
  `intersect`, `intersect_lockset`), and the hash functions.
* Threads created outside `pthread_create`, and the undefined behaviour of
  unsynchronised `std::map` and `std::vector` accesses beyond what section 2 says.
* `bug_fiesta.c` (a linked structure in persistent memory), `disjoint_access.c`
  (it locks a mutex it already holds and stops) and `test.cpp` (it opens a pool and
  takes one lock).
