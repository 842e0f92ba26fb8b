----------------------------- MODULE VectorClock -----------------------------
(***************************************************************************)
(* The vector clocks of src/src/vector_clock.hpp.  A VectorClock wraps a   *)
(* std::map from thread id to timestamp; here it is a function whose       *)
(* domain is the set of keys present in the map.  Timestamps are 64 bits   *)
(* wide and one is consumed per thread creation, join or exit, so they are *)
(* natural numbers here.                                                   *)
(***************************************************************************)
EXTENDS Naturals

\* VectorClock clock;  the default constructed, empty map.
EmptyClock == [t \in {} |-> 0]

\* c is a clock over the thread ids T.  A key enters the map only through
\* update(), which stores at least 1, so no timestamp present is 0.
IsClock(c, T) == DOMAIN c \subseteq T /\ c \in [DOMAIN c -> Nat \ {0}]

\* The timestamp of t, 0 standing for "not in the map".
At(c, t) == IF t \in DOMAIN c THEN c[t] ELSE 0

-----------------------------------------------------------------------------
\* void update(uint64_t tid): creates the key at 0 if missing, then ++.
Tick(c, tid) ==
  [t \in DOMAIN c \cup {tid} |-> IF t = tid THEN At(c, t) + 1 ELSE c[t]]

\* A Merge that overwrites whatever the other clock knows.
MergeOverwriting(c, d) ==
  [t \in DOMAIN c \cup DOMAIN d |-> IF t \in DOMAIN d THEN d[t] ELSE c[t]]

\* void update(const VectorClock& vc): for every key of vc, take its
\* timestamp when the key is missing here or holds a smaller one.
Merge(c, vc) ==
  [t \in DOMAIN c \cup DOMAIN vc |->
     IF t \in DOMAIN vc /\ (t \notin DOMAIN c \/ c[t] < vc[t])
       THEN vc[t]
       ELSE c[t]]

\* An IsConcurrent that only scans the keys of its argument, as the first
\* loop of is_concurrent does, and forgets the second loop.
IsConcurrentOneScan(c, vc) ==
  /\ \E t \in DOMAIN vc : t \notin DOMAIN c \/ c[t] < vc[t]
  /\ \E t \in DOMAIN vc : t \in DOMAIN c /\ c[t] > vc[t]

\* bool is_concurrent(const VectorClock& vc) const: `lesser` and `greater`
\* as the first loop leaves them, the two early returns, and the second
\* loop that looks for a key of this clock that vc lacks.
IsConcurrent(c, vc) ==
  LET lesser  == \E t \in DOMAIN vc : t \notin DOMAIN c \/ c[t] < vc[t]
      greater == \E t \in DOMAIN vc : t \in DOMAIN c /\ c[t] > vc[t]
  IN  lesser /\ (greater \/ \E t \in DOMAIN c : t \notin DOMAIN vc)

-----------------------------------------------------------------------------
\* Reference definitions: the partial order of vector clocks.
Leq(c, d) == \A t \in DOMAIN c : At(c, t) <= At(d, t)

Incomparable(c, d) == ~Leq(c, d) /\ ~Leq(d, c)
=============================================================================
