---------------------------- MODULE RaceAnalysis ----------------------------
(***************************************************************************)
(* The analysis at the end of a run: CheckPMRaces and                      *)
(* CheckPMRacesPerThread of src/src/hawkset.cpp.  It compares what every   *)
(* thread left behind:                                                     *)
(*   stores[t]: race_likely_stores, a set of StoreFenceData                *)
(*   loads[t]:  race_likely_loads, a set of [address, backtrace, clock_i,  *)
(*              mask, lockset] - the map's key with one of its locksets    *)
(*   clocks[t]: vector_clocks, a sequence (clock_i counts from 0).         *)
(* Pairs are grouped so that each question is asked once; a report is a    *)
(* record, where the code has a map from the store's part to the set of    *)
(* the loads' backtraces.                                                  *)
(***************************************************************************)
EXTENDS Integers, Sequences, FiniteSets, VectorClock

\* The keys of race_likely_loads_opt: a load counts for each byte its mask
\* has kept.
LoadKeys(loads_u) ==
  UNION {{<<l.address + i, l.backtrace, l.clock_i>> : i \in l.mask} :
           l \in loads_u}

\* race_likely_loads_opt of one thread: byte, backtrace and segment, and the
\* locksets they occurred with.
LoadsByByte(loads_u) ==
  [k \in LoadKeys(loads_u) |->
     {l.lockset : l \in {m \in loads_u : /\ k[1] - m.address \in m.mask
                                         /\ k[2] = m.backtrace
                                         /\ k[3] = m.clock_i}}]

\* Lockset::short_intersect.  The shortcuts for empty and for identical sets
\* give what the words give.
ShortIntersect(ls, write_set) == ls \cap write_set # {}

\* A test that is content with the protection of one of the locksets.
RacyAllLocksets(clock, locksets, write_set, write_clock) ==
  /\ IsConcurrent(clock, write_clock)
  /\ \A ls \in locksets : ~ShortIntersect(ls, write_set)

\* The body of the loop over the loads: concurrent, and unprotected with one
\* of the locksets.
Racy(clock, locksets, write_set, write_clock) ==
  /\ IsConcurrent(clock, write_clock)
  /\ \E ls \in locksets : ~ShortIntersect(ls, write_set)

\* What race_likely_loads_opt of the other threads has for an address.
Entries(tid, address, loads) ==
  UNION {{<<u, k>> : k \in {j \in LoadKeys(loads[u]) : j[1] = address}} :
           u \in DOMAIN loads \ {tid}}

RacyEntry(e, loads, clocks, write_set, write_clock) ==
  Racy(clocks[e[1]][e[2][3] + 1], LoadsByByte(loads[e[1]])[e[2]],
       write_set, write_clock)

\* CheckPMRacesPerThread: the backtraces of the racy loads.
CheckPMRacesPerThread(tid, address, write_set, write_clock, loads, clocks) ==
  {e[2][2] : e \in {f \in Entries(tid, address, loads) :
                      RacyEntry(f, loads, clocks, write_set, write_clock)}}

\* A scan that ends, instead of going on, at a load that does not race.
ScanToFirstHarmless(order, write_set, write_clock, loads, clocks) ==
  LET racy(i)  == RacyEntry(order[i], loads, clocks, write_set, write_clock)
      reached  == {i \in DOMAIN order : \A j \in 1 .. i - 1 : racy(j)}
  IN  {order[i][2][2] : i \in {j \in reached : racy(j)}}

\* The same loop as the code runs it, over the entries in some order: a load
\* whose backtrace is already known to be racy is not looked at again.
Scan(order, write_set, write_clock, loads, clocks) ==
  LET scan[i \in 0 .. Len(order)] ==
        IF i = 0 THEN {}
        ELSE LET racy_loads == scan[i - 1]
                 e          == order[i]
             IN  IF e[2][2] \notin racy_loads
                    /\ RacyEntry(e, loads, clocks, write_set, write_clock)
                   THEN racy_loads \cup {e[2][2]}
                   ELSE racy_loads
  IN  scan[Len(order)]

\* The keys of race_likely_stores_opt, its three levels as one.
Groups(stores_t) ==
  {[address |-> r.address, persisted |-> r.persisted,
    was_flushed |-> r.was_flushed, common_set |-> r.common_set,
    clock_i |-> r.clock_i] : r \in stores_t}

\* The backtraces of a group.
Traces(stores_t, g) ==
  {<<r.write_trace, r.fence_trace>> :
     r \in {q \in stores_t : /\ q.address = g.address
                             /\ q.persisted = g.persisted
                             /\ q.was_flushed = g.was_flushed
                             /\ q.common_set = g.common_set
                             /\ q.clock_i = g.clock_i}}

Report(write_trace, fence_trace, was_flushed, persisted, load_trace) ==
  [write_trace |-> write_trace, fence_trace |-> fence_trace,
   was_flushed |-> was_flushed, persisted |-> persisted,
   load_trace |-> load_trace]

\* What the groups of one thread add to races_per_rlp (persisted) and to
\* unpersisted_races_per_rlp.
ReportsOf(tid, stores, loads, clocks) ==
  UNION {{Report(tr[1], tr[2], g.was_flushed, g.persisted, load_trace) :
            tr \in Traces(stores[tid], g),
            load_trace \in CheckPMRacesPerThread(
              tid, g.address, g.common_set, clocks[tid][g.clock_i + 1],
              loads, clocks)} :
           g \in Groups(stores[tid])}

CheckPMRaces(stores, loads, clocks) ==
  UNION {ReportsOf(tid, stores, loads, clocks) : tid \in DOMAIN stores}

-----------------------------------------------------------------------------
(* Reference definition: a store's record and a load of another thread     *)
(* race when the load has the byte, neither of their segments happens      *)
(* before the other, and no lock protects both.                            *)

Race(r, l, store_clock, load_clock) ==
  /\ r.address - l.address \in l.mask
  /\ Incomparable(store_clock, load_clock)
  /\ r.common_set \cap l.lockset = {}

RacesOf(tid, u, stores, loads, clocks) ==
  {Report(p[1].write_trace, p[1].fence_trace, p[1].was_flushed,
          p[1].persisted, p[2].backtrace) :
     p \in {q \in stores[tid] \X loads[u] :
              Race(q[1], q[2], clocks[tid][q[1].clock_i + 1],
                               clocks[u][q[2].clock_i + 1])}}

Races(stores, loads, clocks) ==
  UNION {UNION {RacesOf(tid, u, stores, loads, clocks) :
                  u \in DOMAIN loads \ {tid}} : tid \in DOMAIN stores}
=============================================================================
