-------------------------- MODULE MCPersistTracker --------------------------
(***************************************************************************)
(* PersistTracker for TLC.  Locks, cache lines and segments multiply each  *)
(* other's states, so a behaviour has a focus: it bounds the operations of *)
(* the other kinds more tightly than the constants do.                     *)
(***************************************************************************)
EXTENDS PersistTracker

ASSUME Thread # {} /\ Byte # {} /\ IsFiniteSet(Byte)

VARIABLE focus

Focus(bytes, most_stores, most_loads, most_acquisitions, most_segments) ==
  [bytes |-> bytes, stores |-> most_stores, loads |-> most_loads,
   acquisitions |-> most_acquisitions, segments |-> most_segments]

\* Two stores of one byte under recursive locks, until lock_clock is back at 0.
OnLocks == Focus({0}, 2, 0, MaxAcquisitions, 1)

\* Stores that overlap each other and the end of a line.
OnLines == Focus(Byte, MaxStores, 0, 0, 1)

\* Windows that overlap in part, under locks taken and released inside them.
OnBoth == Focus({0, 1}, 2, 0, 2, 1)

\* A load and a store of a byte around a creation or join, under locks.
OnSegments == Focus({0}, 2, MaxLoads, 1, MaxSegments)

Within ==
  \A t \in Thread :
    /\ \A w \in written[t] : w[2] \in focus.bytes
    /\ stores[t] <= focus.stores
    /\ loads[t] <= focus.loads
    /\ acquisitions[t] <= focus.acquisitions
    /\ segments[t] <= focus.segments \/ exited[t]

MCInit == Init /\ focus \in {OnLocks, OnLines, OnBoth, OnSegments}
MCNext == Next /\ UNCHANGED focus /\ Within'
MCSpec == MCInit /\ [][MCNext]_<<vars, focus>>
=============================================================================
