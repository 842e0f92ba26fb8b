--------------------------- MODULE PersistTracker ---------------------------
(***************************************************************************)
(* The core of src/src/hawkset.cpp: per thread, the stores that are not    *)
(* persistent yet (mem_state, flushed_mem_state), the locks held with the  *)
(* time they were taken (current_timedlockset), and the records these      *)
(* leave behind for the race analysis (race_likely_stores,                 *)
(* race_likely_loads).                                                     *)
(*                                                                         *)
(* A store opens a window that the thread's own flush and fence close;     *)
(* the record of the window carries the locks that protect all of it.      *)
(* Every handler works on the ThreadData of its own thread and on irh,     *)
(* which it locks once per query, so a handler is one step here; the       *)
(* fence's queries for several bytes are independent of each other.        *)
(***************************************************************************)
EXTENDS Integers, FiniteSets, TimedLockset, Irh

CONSTANTS
  Thread, Lock,
  Byte,             \* addresses in persistent memory
  LineSize,         \* bytes in a cache line: 64 in the code
  MaxSize,          \* widest load or store, in bytes
  N,                \* use_init_removal_heuristic_n
  CheckUnpersisted, \* check_unpersisted_stores
  ClockModulus,     \* values of lock_clock: 2^32 in the code
  IndexModulus,     \* values of clock_i: 2^16 in the code
  MaxStores,        \* bound: stores of a thread
  MaxLoads,         \* bound: loads of a thread
  MaxAcquisitions,  \* bound: lock operations of a thread
  MaxDepth,         \* bound: times a recursive lock is held at once
  MaxSegments       \* bound: vector clocks of a thread

ASSUME PersistAssumption ==
  /\ Byte \subseteq Nat
  /\ LineSize \in Nat \ {0}
  /\ MaxSize \in Nat \ {0}
  /\ N \in Nat
  /\ CheckUnpersisted \in BOOLEAN
  /\ ClockModulus \in Nat \ {0}
  /\ IndexModulus \in Nat \ {0}
  /\ MaxStores \in Nat /\ MaxLoads \in Nat /\ MaxAcquisitions \in Nat
  /\ MaxDepth \in Nat \ {0} /\ MaxSegments \in Nat \ {0}

VARIABLES
  current_timedlockset,
  cached_timedlockset,  \* {its interned copy}, or {} for NULL
  lock_clock,
  mem_state,            \* byte -> its last store, not flushed
  flushed_mem_state,    \* byte -> its last store, flushed and not fenced
  race_likely_stores,
  race_likely_loads,
  irh,
  segments,             \* vector_clocks.size()
  exited

(* What really happened, for the properties only.  Time is counted per     *)
(* thread, in stores and acquisitions; the time of a store also stands for *)
(* its backtrace.                                                          *)
VARIABLES
  now, stores, loads, acquisitions,
  depth,       \* depth[t][l]: how often t holds l
  held_since,  \* held_since[t][l]: when t last came to hold l
  nested,      \* locks t has taken while it held them
  written,     \* <<store, byte>> of every store byte t has issued
  unflushed,   \* those whose cache line t has not flushed since
  dropped      \* those the heuristic made the tool ignore

locks  == <<current_timedlockset, cached_timedlockset, lock_clock>>
cache  == <<mem_state, flushed_mem_state>>
report == <<race_likely_stores, race_likely_loads, irh>>
time   == <<now, stores, loads, acquisitions>>
owned  == <<depth, held_since, nested>>
fate   == <<written, unflushed, dropped>>
vars   == <<locks, cache, report, segments, exited, time, owned, fate>>

NoStores == [b \in {} |-> 0]

\* CACHE_LINE
CacheLine(address) == address \div LineSize

\* The bytes of an access.
Bytes(address, size) == address .. address + size - 1

\* The last store of each byte, the ones of g before the ones of f.
Over(g, f) ==
  [b \in DOMAIN f \cup DOMAIN g |-> IF b \in DOMAIN g THEN g[b] ELSE f[b]]

Only(f, S)    == [b \in DOMAIN f \cap S |-> f[b]]
Without(f, S) == [b \in DOMAIN f \ S |-> f[b]]

-----------------------------------------------------------------------------
(* What the handlers read and change for thread t, as one record.          *)

Data(t) == [mem     |-> mem_state[t],
            flushed |-> flushed_mem_state[t],
            records |-> race_likely_stores[t],
            dropped |-> dropped[t],
            irh     |-> irh]

Become(t, d) ==
  /\ mem_state' = [mem_state EXCEPT ![t] = d.mem]
  /\ flushed_mem_state' = [flushed_mem_state EXCEPT ![t] = d.flushed]
  /\ race_likely_stores' = [race_likely_stores EXCEPT ![t] = d.records]
  /\ dropped' = [dropped EXCEPT ![t] = d.dropped]
  /\ irh' = d.irh

\* ThreadData::get_timedlockset: the interned copy if there is one, else
\* the current lockset, which is interned.
Timed(t) == IF cached_timedlockset[t] = {}
              THEN current_timedlockset[t]
              ELSE CHOOSE s \in cached_timedlockset[t] : TRUE

Intern(t) ==
  cached_timedlockset' = [cached_timedlockset EXCEPT ![t] = {Timed(t)}]

\* uint16_t clock_i = vector_clocks.size() - 1
ClockIndex(t) == (segments[t] - 1) % IndexModulus

\* A record that only knows the locks of the store.
RecordOfStore(t, b, data, end, persisted, was_flushed) ==
  [common_set  |-> DOMAIN data.timed_lockset,
   clock_i     |-> ClockIndex(t),
   write_trace |-> data.backtrace,
   fence_trace |-> end,
   address     |-> b,
   persisted   |-> persisted,
   was_flushed |-> was_flushed]

\* The StoreFenceData of the store `data` of byte b.
Record(t, b, data, end, persisted, was_flushed) ==
  [common_set  |-> CommonLocks(Timed(t), data.timed_lockset),
   clock_i     |-> ClockIndex(t),
   write_trace |-> data.backtrace,
   fence_trace |-> end,
   address     |-> b,
   persisted   |-> persisted,
   was_flushed |-> was_flushed]

\* Ask the heuristic about each byte of `asked`: a record for each byte it
\* reports, with the store f holds for the byte.
Register(d, t, f, asked, end, persisted, was_flushed) ==
  LET reported == ReportedBytes(d.irh, t, asked, N)
  IN  [d EXCEPT
         !.records = @ \cup {Record(t, b, f[b], end, persisted, was_flushed) :
                               b \in reported},
         !.dropped = @ \cup {<<f[b].backtrace, b>> : b \in asked \ reported},
         !.irh     = AfterBytes(@, t, asked, N)]

\* A CheckOverwrite that looks at mem_state only.
OverwrittenUnflushed(d, t, bytes) ==
  IF ~CheckUnpersisted THEN d
  ELSE Register(d, t, d.mem, bytes \cap DOMAIN d.mem, "store", FALSE, FALSE)

\* CheckOverwrite on both maps, when stores lost unpersisted are wanted:
\* each store overwritten is registered and forgotten.
Overwritten(d, t, bytes) ==
  IF ~CheckUnpersisted THEN d
  ELSE LET e == Register(d, t, d.mem, bytes \cap DOMAIN d.mem,
                         "store", FALSE, FALSE)
           g == Register(e, t, d.flushed, bytes \cap DOMAIN d.flushed,
                         "store", FALSE, TRUE)
       IN  [g EXCEPT !.flushed = Without(@, bytes)]

\* ProcessStore.
AfterStore(d, t, address, size) ==
  LET h == HandleAccess(d.irh, t, address, size, N)
      o == Overwritten([d EXCEPT !.irh = h.irh], t, Bytes(address, size))
      data == [timed_lockset |-> Timed(t), backtrace |-> now[t]]
  IN  [o EXCEPT !.mem = Over([b \in Bytes(address, size) |-> data], @)]

\* The bytes of the line of `address` that ProcessFlush moves.
InLine(f, address) == {b \in DOMAIN f : CacheLine(b) = CacheLine(address)}

\* A ProcessFlush that leaves the line in mem_state.
AfterFlushCopied(d, address) ==
  LET line == InLine(d.mem, address)
  IN  [d EXCEPT !.flushed = Over(Only(d.mem, line), @)]

\* ProcessFlush: the line's stores wait for the fence.
AfterFlush(d, address) ==
  LET line == InLine(d.mem, address)
  IN  [d EXCEPT !.flushed = Over(Only(d.mem, line), @),
                !.mem     = Without(@, line)]

\* ProcessFence: every flushed store is persistent now.
AfterFence(d, t) ==
  [Register(d, t, d.flushed, DOMAIN d.flushed, "fence", TRUE, TRUE)
     EXCEPT !.flushed = NoStores]

\* ProcessThreadExit, when stores never persisted are wanted.
AfterExit(d, t) ==
  IF ~CheckUnpersisted THEN d
  ELSE Register(Register(d, t, d.mem, DOMAIN d.mem, "exit", FALSE, FALSE),
                t, d.flushed, DOMAIN d.flushed, "exit", FALSE, TRUE)

-----------------------------------------------------------------------------
Init ==
  /\ current_timedlockset = [t \in Thread |-> NoLocks]
  /\ cached_timedlockset = [t \in Thread |-> {}]
  /\ lock_clock = [t \in Thread |-> 0]
  /\ mem_state = [t \in Thread |-> NoStores]
  /\ flushed_mem_state = [t \in Thread |-> NoStores]
  /\ race_likely_stores = [t \in Thread |-> {}]
  /\ race_likely_loads = [t \in Thread |-> {}]
  /\ irh = InitialIrh
  /\ segments = [t \in Thread |-> 1]
  /\ exited = [t \in Thread |-> FALSE]
  /\ now = [t \in Thread |-> 0]
  /\ stores = [t \in Thread |-> 0]
  /\ loads = [t \in Thread |-> 0]
  /\ acquisitions = [t \in Thread |-> 0]
  /\ depth = [t \in Thread |-> [l \in Lock |-> 0]]
  /\ held_since = [t \in Thread |-> [l \in Lock |-> 0]]
  /\ nested = [t \in Thread |-> {}]
  /\ written = [t \in Thread |-> {}]
  /\ unflushed = [t \in Thread |-> {}]
  /\ dropped = [t \in Thread |-> {}]

\* The history of a store.
NoteStore(t, address, size) ==
  LET new == {now[t]} \X Bytes(address, size)
  IN  /\ stores[t] < MaxStores
      /\ stores' = [stores EXCEPT ![t] = @ + 1]
      /\ now' = [now EXCEPT ![t] = @ + 1]
      /\ written' = [written EXCEPT ![t] = @ \cup new]
      /\ unflushed' = [unflushed EXCEPT ![t] = @ \cup new]
      /\ UNCHANGED <<loads, acquisitions>>

\* TraceWrite of a regular store.
Store(t, address, size) ==
  /\ ~exited[t]
  /\ Become(t, AfterStore(Data(t), t, address, size))
  /\ Intern(t)
  /\ NoteStore(t, address, size)
  /\ UNCHANGED <<current_timedlockset, lock_clock, race_likely_loads,
                 segments, exited, owned>>

\* TraceFlush, and TraceWrite of a non-temporal store: the latter flushes
\* the line and is not recorded as a store.
Flush(t, address) ==
  /\ ~exited[t]
  /\ Become(t, AfterFlush(Data(t), address))
  /\ unflushed' = [unflushed EXCEPT
                     ![t] = {w \in @ : CacheLine(w[2]) # CacheLine(address)}]
  /\ UNCHANGED <<locks, race_likely_loads, segments, exited, time, owned,
                 written>>

\* TraceFence, and TraceRMW outside persistent memory.
Fence(t) ==
  /\ ~exited[t]
  /\ Become(t, AfterFence(Data(t), t))
  /\ Intern(t)
  /\ UNCHANGED <<current_timedlockset, lock_clock, race_likely_loads,
                 segments, exited, time, owned, written, unflushed>>

\* TraceRMW in persistent memory: ProcessFence with a ProcessStore first.
RMW(t, address, size) ==
  /\ ~exited[t]
  /\ Become(t, AfterFence(AfterStore(Data(t), t, address, size), t))
  /\ Intern(t)
  /\ NoteStore(t, address, size)
  /\ UNCHANGED <<current_timedlockset, lock_clock, race_likely_loads,
                 segments, exited, owned>>

\* The stores u has pending on the bytes of an access.
Pending(u) ==
  {<<mem_state[u][b].backtrace, b>> : b \in DOMAIN mem_state[u]} \cup
  {<<flushed_mem_state[u][b].backtrace, b>> : b \in DOMAIN flushed_mem_state[u]}

\* ProcessRead: RegisterAccess.  The backtrace names the load.
Load(t, address, size, backtrace) ==
  /\ ~exited[t]
  /\ loads[t] < MaxLoads
  /\ loads' = [loads EXCEPT ![t] = @ + 1]
  /\ LET h == HandleAccess(irh, t, address, size, N)
     IN  /\ irh' = h.irh
         /\ IF h.mask = {}
              THEN UNCHANGED <<race_likely_loads, cached_timedlockset>>
              ELSE /\ race_likely_loads' =
                        [race_likely_loads EXCEPT ![t] = @ \cup
                           {[address |-> address, mask |-> h.mask,
                             backtrace |-> backtrace,
                             clock_i |-> ClockIndex(t),
                             lockset |-> DOMAIN Timed(t)]}]
                   /\ Intern(t)
  /\ UNCHANGED <<current_timedlockset, lock_clock, cache, race_likely_stores,
                 segments, exited, now, stores, acquisitions, owned, written,
                 unflushed, dropped>>

\* A ProcessLock that keeps the interned lockset.
AfterProcessLockStale(t) == cached_timedlockset

\* cached_timedlockset = NULL
AfterProcessLock(t) == [cached_timedlockset EXCEPT ![t] = {}]

\* A lock_clock that does not wrap at its width.
NextIdWide(c) == c + 1

\* get_next_id
NextId(c) == IF c + 1 = ClockModulus THEN 0 ELSE c + 1

\* ProcessLock of a lock: LOCK, WRLOCK, RDLOCK, a try lock that succeeded,
\* or an acquire operation.  The modes are not told apart.
AcquireLock(t, l) ==
  /\ ~exited[t]
  /\ acquisitions[t] < MaxAcquisitions /\ depth[t][l] < MaxDepth
  /\ cached_timedlockset' = AfterProcessLock(t)
  /\ current_timedlockset' =
       [current_timedlockset EXCEPT ![t] = TimedLock(@, l, lock_clock[t])]
  /\ lock_clock' = [lock_clock EXCEPT ![t] = NextId(@)]
  /\ acquisitions' = [acquisitions EXCEPT ![t] = @ + 1]
  /\ now' = [now EXCEPT ![t] = @ + 1]
  /\ depth' = [depth EXCEPT ![t][l] = @ + 1]
  /\ held_since' = [held_since EXCEPT
                      ![t][l] = IF depth[t][l] = 0 THEN now[t] ELSE @]
  /\ nested' = [nested EXCEPT ![t] = IF depth[t][l] > 0 THEN @ \cup {l} ELSE @]
  /\ UNCHANGED <<cache, report, segments, exited, stores, loads, fate>>

\* ProcessLock of an unlock, of any mode, or of a release operation.
ReleaseLock(t, l) ==
  /\ ~exited[t]
  /\ depth[t][l] > 0
  /\ cached_timedlockset' = AfterProcessLock(t)
  /\ current_timedlockset' =
       [current_timedlockset EXCEPT ![t] = TimedUnlock(@, l)]
  /\ depth' = [depth EXCEPT ![t][l] = @ - 1]
  /\ UNCHANGED <<lock_clock, cache, report, segments, exited, time,
                 held_since, nested, fate>>

\* The thread creates or joins another one and gets its next clock
\* (ThreadClocks).
NextSegment(t) ==
  /\ ~exited[t]
  /\ segments[t] < MaxSegments
  /\ segments' = [segments EXCEPT ![t] = @ + 1]
  /\ UNCHANGED <<locks, cache, report, exited, time, owned, fate>>

\* ProcessThreadExit.  The maps keep their stores, and nothing reads them.
Exit(t) ==
  /\ ~exited[t]
  /\ Become(t, AfterExit(Data(t), t))
  /\ exited' = [exited EXCEPT ![t] = TRUE]
  /\ segments' = [segments EXCEPT ![t] = @ + 1]
  /\ IF CheckUnpersisted /\ Pending(t) # {}
       THEN Intern(t) ELSE UNCHANGED cached_timedlockset
  /\ UNCHANGED <<current_timedlockset, lock_clock, race_likely_loads, time,
                 owned, written, unflushed>>

Finished == (\A t \in Thread : exited[t]) /\ UNCHANGED vars

\* Where an access can be.
Accesses == {a \in Byte \X (1 .. MaxSize) : Bytes(a[1], a[2]) \subseteq Byte}

Step(t) ==
  \/ \E a \in Accesses : Store(t, a[1], a[2])
  \/ \E a \in Accesses : RMW(t, a[1], a[2])
  \/ \E a \in Accesses : Load(t, a[1], a[2], loads[t])
  \/ \E address \in Byte : Flush(t, address)
  \/ Fence(t)
  \/ \E l \in Lock : AcquireLock(t, l)
  \/ \E l \in Lock : ReleaseLock(t, l)
  \/ NextSegment(t)
  \/ Exit(t)

Next == (\E t \in Thread : Step(t)) \/ Finished

Spec == Init /\ [][Next]_vars

-----------------------------------------------------------------------------
(* Properties *)

IsStoreMap(f) ==
  /\ DOMAIN f \subseteq Byte
  /\ \A b \in DOMAIN f :
       /\ f[b].backtrace \in Nat
       /\ IsTimedLockset(f[b].timed_lockset, Lock, 0 .. ClockModulus - 1)

StoreFenceData ==
  [common_set : SUBSET Lock, clock_i : 0 .. IndexModulus - 1,
   write_trace : Nat, fence_trace : {"store", "fence", "exit"},
   address : Byte, persisted : BOOLEAN, was_flushed : BOOLEAN]

\* The types of the tool's state; the interned lockset is never stale.
TypeOK ==
  \A t \in Thread :
    /\ IsTimedLockset(current_timedlockset[t], Lock, 0 .. ClockModulus - 1)
    /\ cached_timedlockset[t] \in {{}, {current_timedlockset[t]}}
    /\ lock_clock[t] \in 0 .. ClockModulus - 1
    /\ IsStoreMap(mem_state[t]) /\ IsStoreMap(flushed_mem_state[t])
    /\ race_likely_stores[t] \subseteq StoreFenceData
    /\ segments[t] \in Nat \ {0}
    /\ exited[t] \in BOOLEAN
    /\ now[t] \in Nat /\ acquisitions[t] \in Nat

\* The locks t has held without a break since before the time `since`.
HeldThroughout(t, since) ==
  {l \in Lock : depth[t][l] > 0 /\ held_since[t][l] < since}

NewRecords(t) == race_likely_stores'[t] \ race_likely_stores[t]

\* A record never claims the protection of a lock that was given up between
\* the store and the end of its window: releasing a lock and taking it
\* again, recursion, or a stale interned lockset cannot make two critical
\* sections look like one.  A race hidden this way would never be reported.
\* It takes a thread 2^32 acquisitions to break this (lock_clock wraps).
NoFalseProtection ==
  [][\A t \in Thread : acquisitions[t] <= ClockModulus =>
       \A r \in NewRecords(t) :
         r.common_set \subseteq HeldThroughout(t, r.write_trace)]_vars

\* A lock held from the store to the end of its window is in the record,
\* unless the thread has ever taken it recursively: the lockset does not
\* count, so the first unlock of two drops the lock.  A lock that is
\* missing here is a false alarm.
NoMissedProtection ==
  [][\A t \in Thread : \A r \in NewRecords(t) :
       HeldThroughout(t, r.write_trace) \ nested[t] \subseteq r.common_set]_vars

Recorded(t) ==
  {<<r.write_trace, r.address>> : r \in race_likely_stores[t]}

\* With -check_unpersisted no byte of a store gets lost: it is waiting for
\* its flush or fence, or it has its record, or the heuristic ignored it as
\* initialisation, whatever overwrites, partial flushes and exits happen.
\* And while its thread runs it is not in two of these at once.
StoresAccounted ==
  CheckUnpersisted =>
    \A t \in Thread :
      /\ written[t] = Pending(t) \cup Recorded(t) \cup dropped[t]
      /\ Recorded(t) \cap dropped[t] = {}
      /\ ~exited[t] => Pending(t) \cap (Recorded(t) \cup dropped[t]) = {}

\* A record says "flushed" exactly when the thread has flushed the line
\* after the store, and "persisted" only when it has also fenced: a flush
\* of the line before the store, or of another line, does not count.
FlushTracked ==
  [][\A t \in Thread : \A r \in NewRecords(t) :
       /\ r.was_flushed <=> <<r.write_trace, r.address>> \notin unflushed[t]
       /\ r.persisted <=> r.fence_trace = "fence"
       /\ r.persisted => r.was_flushed]_vars

-----------------------------------------------------------------------------
(* The abstract specification.  The windows are the stores in the two maps, *)
(* and a lock protects one when the thread's lockset and the store's agree *)
(* on when it was taken.                                                   *)

\* The window of the store `data` of byte b, which is in mem_state ("mem") or
\* in flushed_mem_state ("flushed").
OpenWindow(t, b, data, map) ==
  [store |-> data.backtrace, byte |-> b, flushed |-> map = "flushed",
   locks |-> CommonLocks(current_timedlockset[t], data.timed_lockset)]

OpenWindows(t) ==
  {OpenWindow(t, b, mem_state[t][b], "mem") : b \in DOMAIN mem_state[t]} \cup
  {OpenWindow(t, b, flushed_mem_state[t][b], "flushed") :
     b \in DOMAIN flushed_mem_state[t]}

ClosedWindow(r) ==
  [store |-> r.write_trace, byte |-> r.address, locks |-> r.common_set,
   flushed |-> r.was_flushed, how |-> r.fence_trace, segment |-> r.clock_i + 1]

ReadsOf(l) ==
  {[byte |-> l.address + i, locks |-> l.lockset, segment |-> l.clock_i + 1,
    id |-> l.backtrace] : i \in l.mask}

HeldLocks  == [t \in Thread |-> DOMAIN current_timedlockset[t]]
Open       == [t \in Thread |-> IF exited[t] THEN {} ELSE OpenWindows(t)]
ClosedOnes == [t \in Thread |-> {ClosedWindow(r) : r \in race_likely_stores[t]}]
Reads      == [t \in Thread |-> UNION {ReadsOf(l) : l \in race_likely_loads[t]}]

Windows == INSTANCE PersistencyWindows WITH
  held <- HeldLocks, time <- now, segment <- segments, open <- Open,
  closed <- ClosedOnes, reads <- Reads, ended <- exited

\* Without the heuristic, with unpersisted stores wanted, and before any
\* counter wraps, the tracker implements PersistencyWindows: caches,
\* timestamps and the interned copy are only a way to keep its windows.
ImplementsWindows == Windows!Spec
=============================================================================
