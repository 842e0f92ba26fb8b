------------------------------ MODULE Interning ------------------------------
(***************************************************************************)
(* How locks become addresses of locksets (src/src/lockset.cpp and         *)
(* src/src/cache.hpp).  A mutex gets an index when it is first taken or    *)
(* released; a thread's current_timedlockset maps the indices of its locks *)
(* to timestamps; stores keep the address of an interned copy of it, and   *)
(* records and loads the address of an interned Lockset.  Comparing and    *)
(* intersecting locksets relies on their addresses.                        *)
(*                                                                         *)
(* The two caches are only touched under their mutexes.  lock_index is     *)
(* written under lock_register_mutex and read without it, so registering   *)
(* and looking up are steps of their own.                                  *)
(***************************************************************************)
EXTENDS Lockset

CONSTANTS
  Thread, Mutex,
  Special,   \* the adquire-release lists: one for each image and configuration
  MaxCalls,  \* bound: calls of lock and unlock functions
  MaxStores, \* bound: stores of each thread
  MaxLoads   \* bound: loads of each thread

None == "none"

ASSUME InterningAssumption ==
  /\ MaxCalls \in Nat
  /\ MaxStores \in [Thread -> Nat] /\ MaxLoads \in [Thread -> Nat]
  /\ Mutex \cap Special = {}
  /\ None \notin Thread

Lock == Mutex \cup Special

VARIABLES
  lock_index,           \* mutex -> its index
  lock_counter,
  lock_register_mutex,  \* the thread that holds it, or None
  special_mutex,        \* adquire-release list -> its index
  pc,                   \* where each thread is in TimedLockset::lock or unlock
  call,                 \* with which arguments
  timestamps,           \* current_timedlockset
  cached_timedlockset,  \* an address, or 0 for NULL
  lock_clock,
  locksets_cache,       \* the Locksets allocated; an address is a position
  timedlocksets_cache,  \* the TimedLocksets allocated
  pending,              \* the StoreData of the stores that are not fenced
  race_likely_stores,   \* the common_set of each record
  race_likely_loads     \* the lockset of each load

(* What really happened, for the properties only. *)
VARIABLES
  held,    \* held[t]: lock -> the number of the acquisition that took it
  calls,
  stores, loads,
  missed   \* a lookup in lock_index has missed a key that was there

registry == <<lock_index, lock_counter, lock_register_mutex, special_mutex>>
own      == <<timestamps, cached_timedlockset, lock_clock>>
caches   == <<locksets_cache, timedlocksets_cache>>
records  == <<pending, race_likely_stores, race_likely_loads, stores, loads>>
vars     == <<registry, pc, call, own, caches, records, held, calls, missed>>

NoStamps == [i \in {} |-> 0]
NoCall   == [mutex |-> None, acquires |-> FALSE, stamp |-> 0, index |-> 0]

\* empty_lockset is allocated beside the cache, at address 1.
empty_lockset == 1

Init ==
  /\ lock_index = [m \in {} |-> 0]
  /\ lock_counter = 0
  /\ lock_register_mutex = None
  /\ special_mutex = [s \in {} |-> 0]
  /\ pc = [t \in Thread |-> "idle"]
  /\ call = [t \in Thread |-> NoCall]
  /\ timestamps = [t \in Thread |-> NoStamps]
  /\ cached_timedlockset = [t \in Thread |-> 0]
  /\ lock_clock = [t \in Thread |-> 0]
  /\ locksets_cache = << EmptyWords >>
  /\ timedlocksets_cache = <<>>
  /\ pending = [t \in Thread |-> {}]
  /\ race_likely_stores = [t \in Thread |-> {}]
  /\ race_likely_loads = [t \in Thread |-> {}]
  /\ held = [t \in Thread |-> [l \in {} |-> 0]]
  /\ calls = 0
  /\ stores = [t \in Thread |-> 0]
  /\ loads = [t \in Thread |-> 0]
  /\ missed = FALSE

-----------------------------------------------------------------------------
(* Taking and releasing locks *)

With(f, x, y)  == [z \in DOMAIN f \cup {x} |-> IF z = x THEN y ELSE f[z]]
Without(f, x)  == [z \in DOMAIN f \ {x} |-> f[z]]

\* The history of a lock or an unlock function.
NoteCall(t, l, acquires) ==
  /\ calls < MaxCalls
  /\ calls' = calls + 1
  /\ acquires \/ l \in DOMAIN held[t]
  /\ held' = [held EXCEPT ![t] =
                IF acquires THEN With(@, l, lock_clock[t]) ELSE Without(@, l)]

\* A ProcessLock that keeps the address of the interned copy.
CachedAfterCallKept(t) == cached_timedlockset[t]

\* cached_timedlockset = NULL
CachedAfterCall(t) == 0

\* ProcessLock up to TimedLockset::lock or unlock: the interned copy is void,
\* an acquisition takes its timestamp.
ProcessLock(t, m, acquires) ==
  /\ pc[t] = "idle"
  /\ NoteCall(t, m, acquires)
  /\ cached_timedlockset' =
       [cached_timedlockset EXCEPT ![t] = CachedAfterCall(t)]
  /\ lock_clock' = [lock_clock EXCEPT ![t] = IF acquires THEN @ + 1 ELSE @]
  /\ call' = [call EXCEPT ![t] = [mutex |-> m, acquires |-> acquires,
                                  stamp |-> lock_clock[t], index |-> 0]]
  /\ pc' = [pc EXCEPT ![t] = "registering"]
  /\ UNCHANGED <<registry, timestamps, caches, records, missed>>

\* A register_mutex that does not take lock_register_mutex.
CanRegisterAlways(t) == TRUE

\* PIN_MutexLock(&lock_register_mutex)
CanRegister(t) == lock_register_mutex = None

\* register_mutex finds the mutex.
RegisteredAlready(t) ==
  /\ pc[t] = "registering"
  /\ CanRegister(t)
  /\ call[t].mutex \in DOMAIN lock_index
  /\ pc' = [pc EXCEPT ![t] = "indexing"]
  /\ UNCHANGED <<registry, call, own, caches, records, held, calls, missed>>

\* register_mutex does not find it and takes the next index.
RegisterBegin(t) ==
  /\ pc[t] = "registering"
  /\ CanRegister(t)
  /\ call[t].mutex \notin DOMAIN lock_index
  /\ lock_register_mutex' = t
  /\ lock_counter' = lock_counter + 1
  /\ call' = [call EXCEPT ![t].index = lock_counter]
  /\ pc' = [pc EXCEPT ![t] = "inserting"]
  /\ UNCHANGED <<lock_index, special_mutex, own, caches, records, held, calls,
                 missed>>

RegisterEnd(t) ==
  /\ pc[t] = "inserting"
  /\ lock_index' = With(lock_index, call[t].mutex, call[t].index)
  /\ lock_register_mutex' = None
  /\ pc' = [pc EXCEPT ![t] = "indexing"]
  /\ UNCHANGED <<lock_counter, special_mutex, call, own, caches, records, held,
                 calls, missed>>

\* The stamps of a lock function that inserts instead of assigning.
StampedOnce(t, i) ==
  IF ~call[t].acquires THEN Without(timestamps[t], i)
  ELSE IF i \in DOMAIN timestamps[t] THEN timestamps[t]
  ELSE With(timestamps[t], i, call[t].stamp)

\* The stamps of t after its call, the mutex having the index i.
Stamped(t, i) ==
  IF call[t].acquires THEN With(timestamps[t], i, call[t].stamp)
                      ELSE Without(timestamps[t], i)

\* get_index, and the rest of TimedLockset::lock or unlock.
GetIndex(t) ==
  /\ pc[t] = "indexing"
  /\ timestamps' = [timestamps EXCEPT ![t] =
                      Stamped(t, lock_index[call[t].mutex])]
  /\ call' = [call EXCEPT ![t] = NoCall]
  /\ pc' = [pc EXCEPT ![t] = "idle"]
  /\ UNCHANGED <<registry, cached_timedlockset, lock_clock, caches, records,
                 held, calls, missed>>

\* get_index reads the map without the mutex: while another thread inserts a
\* key, operator[] may miss the one it looks for and insert it again, with 0.
GetIndexMissing(t) ==
  /\ pc[t] = "indexing"
  /\ \E u \in Thread : pc[u] = "inserting"
  /\ timestamps' = [timestamps EXCEPT ![t] = Stamped(t, 0)]
  /\ lock_index' = With(lock_index, call[t].mutex, 0)
  /\ missed' = TRUE
  /\ call' = [call EXCEPT ![t] = NoCall]
  /\ pc' = [pc EXCEPT ![t] = "idle"]
  /\ UNCHANGED <<lock_counter, lock_register_mutex, special_mutex,
                 cached_timedlockset, lock_clock, caches, records, held, calls>>

\* register_special_mutex, as ImageLoad calls it for each list of each image.
RegisterSpecial(s) ==
  /\ s \notin DOMAIN special_mutex
  /\ special_mutex' = With(special_mutex, s, lock_counter)
  /\ lock_counter' = lock_counter + 1
  /\ UNCHANGED <<lock_index, lock_register_mutex, pc, call, own, caches,
                 records, held, calls, missed>>

\* ProcessLock with special: lock_special and unlock_special use the index.
ProcessLockSpecial(t, s, acquires) ==
  /\ pc[t] = "idle"
  /\ s \in DOMAIN special_mutex
  /\ NoteCall(t, s, acquires)
  /\ cached_timedlockset' =
       [cached_timedlockset EXCEPT ![t] = CachedAfterCall(t)]
  /\ lock_clock' = [lock_clock EXCEPT ![t] = IF acquires THEN @ + 1 ELSE @]
  /\ timestamps' = [timestamps EXCEPT ![t] =
       IF acquires THEN With(@, special_mutex[s], lock_clock[t])
                   ELSE Without(@, special_mutex[s])]
  /\ UNCHANGED <<registry, pc, call, caches, records, missed>>

-----------------------------------------------------------------------------
(* Interning *)

\* A lookup in the cache of timed locksets that ignores the timestamps.
TimedEqualUntimed(f, g) == DOMAIN f = DOMAIN g

\* TimedLockset::operator==
TimedEqual(f, g) == f = g

\* timedlockset_cache_get: the address of a TimedLockset equal to f, in the
\* cache or appended to it.
TimedAddresses(f) ==
  {p \in DOMAIN timedlocksets_cache : TimedEqual(timedlocksets_cache[p], f)}

\* get_timedlockset, with the address p it returns.
GetTimedlockset(t, p) ==
  /\ IF cached_timedlockset[t] # 0
       THEN p = cached_timedlockset[t] /\ UNCHANGED timedlocksets_cache
       ELSE IF TimedAddresses(timestamps[t]) # {}
              THEN p \in TimedAddresses(timestamps[t])
                   /\ UNCHANGED timedlocksets_cache
              ELSE /\ p = Len(timedlocksets_cache) + 1
                   /\ timedlocksets_cache' =
                        Append(timedlocksets_cache, timestamps[t])
  /\ cached_timedlockset' = [cached_timedlockset EXCEPT ![t] = p]

\* A lookup that only sees the lockset interned last.
AddressesLast(words) ==
  {p \in {Len(locksets_cache)} \ {empty_lockset} :
     WordsEqual(locksets_cache[p], words)}

Addresses(words) ==
  {p \in DOMAIN locksets_cache \ {empty_lockset} :
     WordsEqual(locksets_cache[p], words)}

\* lockset_cache_get, with the address p it returns.
LocksetCacheGet(words, p) ==
  IF Addresses(words) # {}
    THEN p \in Addresses(words) /\ UNCHANGED locksets_cache
    ELSE /\ p = Len(locksets_cache) + 1
         /\ locksets_cache' = Append(locksets_cache, words)

\* The stamps of f that g has, too: TimedLockset::intersect.
Intersect(f, g) ==
  [i \in {j \in DOMAIN f \cap DOMAIN g : f[j] = g[j]} |-> f[i]]

\* intersect_timedlockset of the sets at a and b, with the address p it
\* returns.
IntersectTimedlockset(a, b, p) ==
  LET f == timedlocksets_cache'[a]
      g == timedlocksets_cache'[b]
  IN  IF DOMAIN f = {} \/ DOMAIN g = {}
        THEN p = empty_lockset /\ UNCHANGED locksets_cache
        ELSE LocksetCacheGet(ToLockset(IF a = b THEN f ELSE Intersect(f, g)), p)

\* An address is at most the next free one.
Pointers(cache) == 1 .. Len(cache) + 1

\* ProcessStore: the StoreData keeps the timed lockset's address.
Store(t) ==
  /\ pc[t] = "idle"
  /\ stores[t] < MaxStores[t]
  /\ stores' = [stores EXCEPT ![t] = @ + 1]
  /\ \E p \in Pointers(timedlocksets_cache) :
       /\ GetTimedlockset(t, p)
       /\ pending' = [pending EXCEPT ![t] =
                        @ \cup {[timed_lockset |-> p, held |-> held[t]]}]
  /\ UNCHANGED <<registry, pc, call, timestamps, lock_clock, locksets_cache,
                 race_likely_stores, race_likely_loads, loads, held, calls,
                 missed>>

\* The locks t has held since before the store `data` without a break.
HeldSince(t, data) ==
  {l \in DOMAIN held[t] \cap DOMAIN data.held : held[t][l] = data.held[l]}

\* ProcessFence: a record for a pending store.
Fence(t) ==
  /\ pc[t] = "idle"
  /\ \E data \in pending[t], p \in Pointers(timedlocksets_cache),
        q \in Pointers(locksets_cache) :
       /\ GetTimedlockset(t, p)
       /\ IntersectTimedlockset(p, data.timed_lockset, q)
       /\ pending' = [pending EXCEPT ![t] = @ \ {data}]
       /\ race_likely_stores' = [race_likely_stores EXCEPT ![t] =
            @ \cup {[common_set |-> q, held |-> HeldSince(t, data)]}]
  /\ UNCHANGED <<registry, pc, call, timestamps, lock_clock, race_likely_loads,
                 stores, loads, held, calls, missed>>

\* RegisterAccess: the lockset of a load.
Load(t) ==
  /\ pc[t] = "idle"
  /\ loads[t] < MaxLoads[t]
  /\ loads' = [loads EXCEPT ![t] = @ + 1]
  /\ \E p \in Pointers(timedlocksets_cache), q \in Pointers(locksets_cache) :
       /\ GetTimedlockset(t, p)
       /\ LocksetCacheGet(ToLockset(timedlocksets_cache'[p]), q)
       /\ race_likely_loads' = [race_likely_loads EXCEPT ![t] =
            @ \cup {[lockset |-> q, held |-> DOMAIN held[t]]}]
  /\ UNCHANGED <<registry, pc, call, timestamps, lock_clock, pending,
                 race_likely_stores, stores, held, calls, missed>>

\* short_intersect of the sets at p and q.
ShortIntersect(p, q) ==
  /\ ~IsEmpty(locksets_cache[p]) /\ ~IsEmpty(locksets_cache[q])
  /\ p = q \/ WordsMeet(locksets_cache[p], locksets_cache[q])

Step(t) ==
  \/ \E m \in Mutex, acquires \in BOOLEAN : ProcessLock(t, m, acquires)
  \/ RegisteredAlready(t) \/ RegisterBegin(t) \/ RegisterEnd(t)
  \/ GetIndex(t) \/ GetIndexMissing(t)
  \/ \E s \in Special, acquires \in BOOLEAN : ProcessLockSpecial(t, s, acquires)
  \/ Store(t) \/ Fence(t) \/ Load(t)

\* After a miss the map may have any shape: the model follows it no further.
Next ==
  /\ ~missed
  /\ (\E t \in Thread : Step(t)) \/ (\E s \in Special : RegisterSpecial(s))

Spec == Init /\ [][Next]_vars

-----------------------------------------------------------------------------
(* Properties *)

\* The types of the variables; indices and timestamps have been given out, and
\* addresses are those of interned sets.
TypeOK ==
  /\ lock_counter \in Nat
  /\ \A m \in DOMAIN lock_index :
       m \in Mutex /\ lock_index[m] \in 0 .. lock_counter - 1
  /\ \A s \in DOMAIN special_mutex :
       s \in Special /\ special_mutex[s] \in 0 .. lock_counter - 1
  /\ lock_register_mutex \in Thread \cup {None}
  /\ pc \in [Thread -> {"idle", "registering", "inserting", "indexing"}]
  /\ \A p \in DOMAIN locksets_cache : IsWords(locksets_cache[p])
  /\ \A t \in Thread :
       /\ \A i \in DOMAIN timestamps[t] :
            i < lock_counter /\ timestamps[t][i] < lock_clock[t]
       /\ cached_timedlockset[t] \in {0} \cup DOMAIN timedlocksets_cache
       /\ \A r \in race_likely_stores[t] : r.common_set \in DOMAIN locksets_cache
       /\ \A l \in race_likely_loads[t] : l.lockset \in DOMAIN locksets_cache

\* The interned copy a thread keeps between two accesses is that of the locks
\* it has now.
CachedIsCurrent ==
  \A t \in Thread : cached_timedlockset[t] # 0 =>
    timedlocksets_cache[cached_timedlockset[t]] = timestamps[t]

IndexOf(l) == IF l \in Special THEN special_mutex[l] ELSE lock_index[l]

\* A thread between two lock functions has exactly its locks in its lockset,
\* under indices no other lock has, although threads register mutexes at the
\* same time and images are loaded meanwhile; unless a lookup has missed its
\* key, which nothing prevents.
LocksetIsHeld ==
  ~missed => \A t \in Thread : pc[t] = "idle" =>
    /\ DOMAIN timestamps[t] = {IndexOf(l) : l \in DOMAIN held[t]}
    /\ \A l \in DOMAIN held[t] : timestamps[t][IndexOf(l)] = held[t][l]

\* The index of a lock is its own and stays: locksets that have it would
\* otherwise change their meaning.
IndicesStay ==
  [][~missed' =>
       /\ \A m \in DOMAIN lock_index :
            m \in DOMAIN lock_index' /\ lock_index'[m] = lock_index[m]
       /\ \A m, n \in DOMAIN lock_index' :
            lock_index'[m] = lock_index'[n] => m = n
       /\ \A m \in DOMAIN lock_index', s \in DOMAIN special_mutex' :
            lock_index'[m] # special_mutex'[s]]_vars

\* A lockset is known by its address: no two interned ones are equal.  Only
\* the empty one has two addresses, that of empty_lockset and one in the
\* cache; nothing compares these.
InternedOnce ==
  \A p, q \in DOMAIN locksets_cache \ {empty_lockset} :
    Indices(locksets_cache[p]) = Indices(locksets_cache[q]) => p = q

\* The analysis finds a common lock of a record and a load exactly if the
\* one thread held a lock from the store to the fence that the other held at
\* the load: timestamps, indices, words and addresses lose none on the way
\* and confuse none.
ProtectionExact ==
  ~missed => \A t, u \in Thread :
    \A r \in race_likely_stores[t], l \in race_likely_loads[u] :
      ShortIntersect(l.lockset, r.common_set) <=> r.held \cap l.held # {}
=============================================================================
