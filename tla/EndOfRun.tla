------------------------------ MODULE EndOfRun ------------------------------
(***************************************************************************)
(* What CheckPMRaces is given: the stores and the loads that the threads   *)
(* of a run have left behind, in whatever number and combination, and the  *)
(* clocks of their segments.  RaceAnalysis says what it makes of them.     *)
(***************************************************************************)
EXTENDS RaceAnalysis

CONSTANTS
  Tid,
  clocks,     \* vector_clocks of each thread
  StoreData,  \* the StoreFenceData each thread may leave
  LoadData,   \* the loads each thread may leave, with one lockset each
  MaxStores, MaxLoads  \* bounds: records of each kind

\* A record names a segment of its thread, and segments have clocks.
ASSUME EndOfRunAssumption ==
  /\ \A t \in Tid : \A r \in StoreData[t] :
       r.address \in Int /\ IsClock(clocks[t][r.clock_i + 1], Tid)
  /\ \A t \in Tid : \A l \in LoadData[t] :
       /\ l.address \in Int /\ l.mask \subseteq Int
       /\ IsClock(clocks[t][l.clock_i + 1], Tid)
  /\ MaxStores \in Nat /\ MaxLoads \in Nat

VARIABLES stores, loads  \* race_likely_stores and race_likely_loads

Count(records) == Cardinality(UNION {{t} \X records[t] : t \in Tid})

Init == /\ stores = [t \in Tid |-> {}]
        /\ loads = [t \in Tid |-> {}]

\* A store becomes a record, at a fence or at the end of its thread.
AddStore(t) ==
  /\ Count(stores) < MaxStores
  /\ \E r \in StoreData[t] : stores' = [stores EXCEPT ![t] = @ \cup {r}]
  /\ UNCHANGED loads

\* RegisterAccess.
AddLoad(t) ==
  /\ Count(loads) < MaxLoads
  /\ \E l \in LoadData[t] : loads' = [loads EXCEPT ![t] = @ \cup {l}]
  /\ UNCHANGED stores

Next == \E t \in Tid : AddStore(t) \/ AddLoad(t)

Spec == Init /\ [][Next]_<<stores, loads>>

-----------------------------------------------------------------------------
(* Properties *)

\* CheckPMRaces reports exactly the pairs of a store and a load that race:
\* splitting loads by byte and grouping stores by lockset and segment loses
\* none and mixes none up, although the group's other members differ in
\* everything that is not part of its key.
ReportsAreRaces ==
  CheckPMRaces(stores, loads, clocks) = Races(stores, loads, clocks)

\* The orders in which a hash map may give the entries S, of which there are
\* no more than loads.
Orders(S) ==
  {f \in UNION {[1 .. n -> S] : n \in 0 .. MaxLoads} :
     /\ \A e \in S : \E i \in DOMAIN f : f[i] = e
     /\ \A i, j \in DOMAIN f : f[i] = f[j] => i = j}

\* CheckPMRacesPerThread, which visits hash maps and skips loads whose
\* backtrace is known to be racy, finds the same loads in every order.
OrderDoesNotMatter ==
  \A t \in Tid : \A g \in Groups(stores[t]) :
    LET clock == clocks[t][g.clock_i + 1]
    IN  \A order \in Orders(Entries(t, g.address, loads)) :
          Scan(order, g.common_set, clock, loads, clocks) =
            CheckPMRacesPerThread(t, g.address, g.common_set, clock, loads,
                                  clocks)
=============================================================================
