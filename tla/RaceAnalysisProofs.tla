------------------------- MODULE RaceAnalysisProofs -------------------------
(***************************************************************************)
(* CheckPMRaces reports exactly the racing pairs, whatever the threads,    *)
(* stores, loads and clocks, and in whatever order it meets them.          *)
(***************************************************************************)
EXTENDS EndOfRun, TLAPS, FiniteSetTheorems, WellFoundedInduction

\* What a run leaves behind: integer addresses and offsets, and a clock for
\* every segment a record names.
LeftBehind(stored, loaded, times) ==
  /\ DOMAIN loaded = DOMAIN stored
  /\ \A t \in DOMAIN stored :
       /\ \A r \in stored[t] :
            /\ IsClock(times[t][r.clock_i + 1], DOMAIN stored)
            /\ r.address \in Int
       /\ \A l \in loaded[t] :
            /\ IsClock(times[t][l.clock_i + 1], DOMAIN stored)
            /\ l.address \in Int /\ l.mask \subseteq Int

\* is_concurrent, with its two early returns and its two loops, decides
\* exactly whether the clocks are incomparable: no timestamp is 0, so a
\* missing key and a smaller timestamp mean the same.
LEMMA IsConcurrentCorrect ==
  ASSUME NEW T, NEW c, NEW d, IsClock(c, T), IsClock(d, T)
  PROVE  IsConcurrent(c, d) <=> Incomparable(c, d)
<1>1. ~Leq(d, c) <=> \E t \in DOMAIN d : t \notin DOMAIN c \/ c[t] < d[t]
  BY DEF IsClock, Leq, At
<1>2. ~Leq(c, d) <=> \/ \E t \in DOMAIN d : t \in DOMAIN c /\ c[t] > d[t]
                     \/ \E t \in DOMAIN c : t \notin DOMAIN d
  BY DEF IsClock, Leq, At
<1> QED
  BY <1>1, <1>2 DEF IsConcurrent, Incomparable

\* A load is found under a byte exactly when its mask has kept the byte.
LEMMA KeyOfLoad ==
  ASSUME NEW loads_u, NEW address \in Int, NEW trace, NEW clock_i,
         \A l \in loads_u : l.address \in Int /\ l.mask \subseteq Int
  PROVE  <<address, trace, clock_i>> \in LoadKeys(loads_u)
           <=> \E l \in loads_u : /\ address - l.address \in l.mask
                                  /\ trace = l.backtrace
                                  /\ clock_i = l.clock_i
<1>1. ASSUME NEW l \in loads_u
      PROVE  (\E i \in l.mask : address = l.address + i)
               <=> address - l.address \in l.mask
  <2>1. l.address \in Int /\ \A i \in l.mask : i \in Int
    OBVIOUS
  <2>2. \A i \in Int : address = l.address + i <=> i = address - l.address
    BY <2>1
  <2> QED
    BY <2>1, <2>2
<1>2. <<address, trace, clock_i>> \in LoadKeys(loads_u)
        <=> \E l \in loads_u : \E i \in l.mask :
              <<address, trace, clock_i>> =
                <<l.address + i, l.backtrace, l.clock_i>>
  BY DEF LoadKeys
<1> QED
  BY <1>1, <1>2

\* The test of an entry is the definition of a race with one of the loads
\* that share the entry.
LEMMA EntryRaces ==
  ASSUME NEW T, NEW loads_u, NEW address \in Int, NEW trace, NEW clock_i,
         NEW load_clock, NEW write_set, NEW write_clock,
         IsClock(load_clock, T), IsClock(write_clock, T),
         <<address, trace, clock_i>> \in LoadKeys(loads_u)
  PROVE  Racy(load_clock, LoadsByByte(loads_u)[<<address, trace, clock_i>>],
              write_set, write_clock)
           <=> \E l \in loads_u : /\ address - l.address \in l.mask
                                  /\ trace = l.backtrace
                                  /\ clock_i = l.clock_i
                                  /\ Incomparable(write_clock, load_clock)
                                  /\ write_set \cap l.lockset = {}
<1>1. IsConcurrent(load_clock, write_clock)
        <=> Incomparable(write_clock, load_clock)
  BY IsConcurrentCorrect DEF Incomparable
<1>2. LoadsByByte(loads_u)[<<address, trace, clock_i>>] =
        {l.lockset : l \in {m \in loads_u : /\ address - m.address \in m.mask
                                            /\ trace = m.backtrace
                                            /\ clock_i = m.clock_i}}
  BY DEF LoadsByByte
<1>3. \A ls : ~ShortIntersect(ls, write_set) <=> write_set \cap ls = {}
  BY DEF ShortIntersect
<1> QED
  BY <1>1, <1>2, <1>3 DEF Racy

LEMMA KeyIsTriple ==
  ASSUME NEW loads_u, NEW k \in LoadKeys(loads_u)
  PROVE  k = <<k[1], k[2], k[3]>>
  BY DEF LoadKeys

\* The backtraces found for one group of stores are those of the loads that
\* race with it.
LEMMA PerThread ==
  ASSUME NEW stored, NEW loaded, NEW times, LeftBehind(stored, loaded, times),
         NEW tid \in DOMAIN stored, NEW address \in Int, NEW write_set,
         NEW write_clock, IsClock(write_clock, DOMAIN stored), NEW trace
  PROVE  trace \in CheckPMRacesPerThread(tid, address, write_set, write_clock,
                                         loaded, times)
           <=> \E u \in DOMAIN loaded \ {tid} : \E l \in loaded[u] :
                 /\ address - l.address \in l.mask
                 /\ trace = l.backtrace
                 /\ Incomparable(write_clock, times[u][l.clock_i + 1])
                 /\ write_set \cap l.lockset = {}
<1> DEFINE Answer == CheckPMRacesPerThread(tid, address, write_set,
                                           write_clock, loaded, times)
           Racing(u, l) ==
             /\ address - l.address \in l.mask
             /\ trace = l.backtrace
             /\ Incomparable(write_clock, times[u][l.clock_i + 1])
             /\ write_set \cap l.lockset = {}
<1>1. trace \in Answer
        <=> \E u \in DOMAIN loaded \ {tid} : \E k \in LoadKeys(loaded[u]) :
              /\ k[1] = address /\ k[2] = trace
              /\ Racy(times[u][k[3] + 1], LoadsByByte(loaded[u])[k],
                      write_set, write_clock)
  <2> DEFINE Hit(e) == /\ e[2][2] = trace
                       /\ RacyEntry(e, loaded, times, write_set, write_clock)
  <2>1. trace \in Answer <=> \E e \in Entries(tid, address, loaded) : Hit(e)
    BY DEF CheckPMRacesPerThread
  <2>2. \A e : e \in Entries(tid, address, loaded)
          <=> \E u \in DOMAIN loaded \ {tid} : \E k \in LoadKeys(loaded[u]) :
                k[1] = address /\ e = <<u, k>>
    BY DEF Entries
  <2>3. \A u, k : Hit(<<u, k>>)
          <=> /\ k[2] = trace
              /\ Racy(times[u][k[3] + 1], LoadsByByte(loaded[u])[k],
                      write_set, write_clock)
    BY DEF RacyEntry
  <2> HIDE DEF Answer, Hit
  <2>4. trace \in Answer
        <=> \E u \in DOMAIN loaded \ {tid} : \E k \in LoadKeys(loaded[u]) :
              k[1] = address /\ Hit(<<u, k>>)
    <3>1. ASSUME NEW u \in DOMAIN loaded \ {tid}, NEW k \in LoadKeys(loaded[u]),
                 k[1] = address, Hit(<<u, k>>)
          PROVE  trace \in Answer
      <4>1. <<u, k>> \in Entries(tid, address, loaded)
        BY <2>2, <3>1
      <4> QED
        BY <2>1, <3>1, <4>1
    <3>2. ASSUME trace \in Answer
          PROVE  \E u \in DOMAIN loaded \ {tid} : \E k \in LoadKeys(loaded[u]) :
                   k[1] = address /\ Hit(<<u, k>>)
      <4>1. PICK e \in Entries(tid, address, loaded) : Hit(e)
        BY <2>1, <3>2
      <4>2. PICK u \in DOMAIN loaded \ {tid} : \E k \in LoadKeys(loaded[u]) :
              k[1] = address /\ e = <<u, k>>
        BY <2>2, <4>1
      <4> QED
        BY <4>1, <4>2
    <3> QED
      BY <3>1, <3>2
  <2> QED
    BY <2>3, <2>4
<1>2. ASSUME NEW u \in DOMAIN loaded \ {tid}
      PROVE  \A l \in loaded[u] :
               /\ IsClock(times[u][l.clock_i + 1], DOMAIN stored)
               /\ l.address \in Int /\ l.mask \subseteq Int
  BY DEF LeftBehind
<1>e. ASSUME NEW u, NEW i, NEW c, IsClock(c, DOMAIN stored),
             <<address, trace, i>> \in LoadKeys(loaded[u])
      PROVE  Racy(c, LoadsByByte(loaded[u])[<<address, trace, i>>],
                  write_set, write_clock)
               <=> \E l \in loaded[u] : /\ address - l.address \in l.mask
                                      /\ trace = l.backtrace
                                      /\ i = l.clock_i
                                      /\ Incomparable(write_clock, c)
                                      /\ write_set \cap l.lockset = {}
  <2> DEFINE L == loaded[u]
             T == DOMAIN stored
  <2>1. <<address, trace, i>> \in LoadKeys(L)
    BY <1>e
  <2>2. IsClock(c, T) /\ IsClock(write_clock, T)
    BY <1>e
  <2> HIDE DEF L, T
  <2>3. Racy(c, LoadsByByte(L)[<<address, trace, i>>], write_set, write_clock)
          <=> \E l \in L : /\ address - l.address \in l.mask
                          /\ trace = l.backtrace
                          /\ i = l.clock_i
                          /\ Incomparable(write_clock, c)
                          /\ write_set \cap l.lockset = {}
    BY address \in Int, <2>1, <2>2, EntryRaces
  <2> QED
    BY <2>3 DEF L
<1>3. ASSUME NEW u \in DOMAIN loaded \ {tid}, NEW k \in LoadKeys(loaded[u]),
             k[1] = address, k[2] = trace,
             Racy(times[u][k[3] + 1], LoadsByByte(loaded[u])[k],
                  write_set, write_clock)
      PROVE  \E l \in loaded[u] : Racing(u, l)
  <2> DEFINE i == k[3]
             c == times[u][i + 1]
  <2>1. k = <<address, trace, i>>
    BY <1>3, KeyIsTriple
  <2>2. IsClock(c, DOMAIN stored)
    BY <1>2, <2>1, KeyOfLoad
  <2>3. <<address, trace, i>> \in LoadKeys(loaded[u])
    BY <2>1
  <2>4. Racy(c, LoadsByByte(loaded[u])[<<address, trace, i>>],
             write_set, write_clock)
    BY <1>3, <2>1
  <2> HIDE DEF c, i
  <2> QED
    BY <1>e, <2>2, <2>3, <2>4 DEF c, i
<1>4. ASSUME NEW u \in DOMAIN loaded \ {tid}, NEW l \in loaded[u], Racing(u, l)
      PROVE  trace \in Answer
  <2> DEFINE k == <<address, trace, l.clock_i>>
             c == times[u][l.clock_i + 1]
  <2>1. k \in LoadKeys(loaded[u])
    BY <1>2, <1>4, KeyOfLoad
  <2>2. /\ IsClock(c, DOMAIN stored)
        /\ Incomparable(write_clock, c)
        /\ address - l.address \in l.mask
        /\ trace = l.backtrace
        /\ write_set \cap l.lockset = {}
    BY <1>2, <1>4
  <2> HIDE DEF c
  <2>3. Racy(c, LoadsByByte(loaded[u])[k], write_set, write_clock)
    BY <2>1, <2>2, EntryRaces
  <2> QED
    BY <1>1, <2>1, <2>3 DEF c
<1> QED
  BY <1>1, <1>3, <1>4

\* The reports of CheckPMRaces, with its splitting by byte and its grouping,
\* are the races of the definition: the pairs of a store's record and
\* another thread's load of the byte that are unordered and share no lock.
THEOREM AnalysisExact ==
  ASSUME NEW stored, NEW loaded, NEW times, LeftBehind(stored, loaded, times)
  PROVE  CheckPMRaces(stored, loaded, times) = Races(stored, loaded, times)
<1> DEFINE Found == CheckPMRaces(stored, loaded, times)
           Clock(tid, r) == times[tid][r.clock_i + 1]
           PerGroup(tid, g) ==
             CheckPMRacesPerThread(tid, g.address, g.common_set, Clock(tid, g),
                                   loaded, times)
           Of(r, trace) == Report(r.write_trace, r.fence_trace, r.was_flushed,
                                  r.persisted, trace)
\* A report comes from a record, a load's backtrace and its group's answer.
<1>1. ASSUME NEW x
      PROVE  x \in Found <=> \E tid \in DOMAIN stored : \E r \in stored[tid] :
                               \E trace \in PerGroup(tid, r) : x = Of(r, trace)
  <2> DEFINE OfGroup(tid, g) ==
               {Report(tr[1], tr[2], g.was_flushed, g.persisted, trace) :
                  tr \in Traces(stored[tid], g), trace \in PerGroup(tid, g)}
  <2>a. x \in Found <=> \E tid \in DOMAIN stored :
                           \E g \in Groups(stored[tid]) : x \in OfGroup(tid, g)
    <3>1. x \in Found <=> \E tid \in DOMAIN stored :
                             x \in ReportsOf(tid, stored, loaded, times)
      BY DEF CheckPMRaces
    <3>2. \A tid : ReportsOf(tid, stored, loaded, times) =
                     UNION {OfGroup(tid, g) : g \in Groups(stored[tid])}
      BY DEF ReportsOf
    <3> HIDE DEF Found, OfGroup
    <3> QED
      BY <3>1, <3>2
  <2>b. \A tid, g : x \in OfGroup(tid, g)
          <=> \E tr \in Traces(stored[tid], g), trace \in PerGroup(tid, g) :
                x = Report(tr[1], tr[2], g.was_flushed, g.persisted, trace)
    OBVIOUS
  <2>1. x \in Found
        <=> \E tid \in DOMAIN stored : \E g \in Groups(stored[tid]) :
              \E tr \in Traces(stored[tid], g), trace \in PerGroup(tid, g) :
                x = Report(tr[1], tr[2], g.was_flushed, g.persisted, trace)
    <3> HIDE DEF Found, OfGroup, PerGroup
    <3> QED
      BY <2>a, <2>b
  <2>2. ASSUME NEW tid \in DOMAIN stored, NEW g \in Groups(stored[tid]),
               NEW tr \in Traces(stored[tid], g), NEW trace \in PerGroup(tid, g),
               x = Report(tr[1], tr[2], g.was_flushed, g.persisted, trace)
        PROVE  \E r \in stored[tid] : trace \in PerGroup(tid, r)
                                      /\ x = Of(r, trace)
    <3>1. PICK r \in stored[tid] :
            /\ tr = <<r.write_trace, r.fence_trace>>
            /\ r.address = g.address /\ r.persisted = g.persisted
            /\ r.was_flushed = g.was_flushed
            /\ r.common_set = g.common_set /\ r.clock_i = g.clock_i
      BY DEF Traces
    <3>2. tr[1] = r.write_trace /\ tr[2] = r.fence_trace
      BY <3>1
    <3>3. PerGroup(tid, r) = PerGroup(tid, g)
      BY <3>1
    <3> HIDE DEF PerGroup
    <3> QED
      BY <2>2, <3>1, <3>2, <3>3
  <2>3. ASSUME NEW tid \in DOMAIN stored, NEW r \in stored[tid],
               NEW trace \in PerGroup(tid, r), x = Of(r, trace)
        PROVE  x \in Found
    <3> DEFINE g == [address |-> r.address, persisted |-> r.persisted,
                     was_flushed |-> r.was_flushed,
                     common_set |-> r.common_set, clock_i |-> r.clock_i]
               tr == <<r.write_trace, r.fence_trace>>
    <3>1. g \in Groups(stored[tid])
      BY DEF Groups
    <3>2. tr \in Traces(stored[tid], g)
      BY DEF Traces
    <3>3. /\ PerGroup(tid, g) = PerGroup(tid, r)
          /\ g.was_flushed = r.was_flushed /\ g.persisted = r.persisted
          /\ tr[1] = r.write_trace /\ tr[2] = r.fence_trace
      OBVIOUS
    <3>4. x = Report(tr[1], tr[2], g.was_flushed, g.persisted, trace)
      BY <2>3, <3>3
    <3>5. trace \in PerGroup(tid, g)
      BY <3>3
    <3> HIDE DEF g, tr, PerGroup, Found
    <3> QED
      BY <2>1, <3>1, <3>2, <3>4, <3>5
  <2> HIDE DEF Found, PerGroup
  <2> QED
    BY <2>1, <2>2, <2>3
<1>2. ASSUME NEW tid \in DOMAIN stored, NEW r \in stored[tid], NEW trace
      PROVE  trace \in PerGroup(tid, r)
               <=> \E u \in DOMAIN loaded \ {tid} : \E l \in loaded[u] :
                     Race(r, l, Clock(tid, r), Clock(u, l))
                       /\ trace = l.backtrace
  <2>1. IsClock(Clock(tid, r), DOMAIN stored) /\ r.address \in Int
    BY DEF LeftBehind
  <2> QED
    BY <2>1, PerThread DEF Race
<1>3. ASSUME NEW x
      PROVE  x \in Races(stored, loaded, times)
               <=> \E tid \in DOMAIN stored : \E u \in DOMAIN loaded \ {tid} :
                     \E r \in stored[tid], l \in loaded[u] :
                       /\ Race(r, l, Clock(tid, r), Clock(u, l))
                       /\ x = Of(r, l.backtrace)
  <2>1. x \in Races(stored, loaded, times)
        <=> \E tid \in DOMAIN stored : \E u \in DOMAIN loaded \ {tid} :
              x \in RacesOf(tid, u, stored, loaded, times)
    BY DEF Races
  <2>2. ASSUME NEW tid, NEW u
        PROVE  x \in RacesOf(tid, u, stored, loaded, times)
                 <=> \E r \in stored[tid], l \in loaded[u] :
                       /\ Race(r, l, Clock(tid, r), Clock(u, l))
                       /\ x = Of(r, l.backtrace)
    <3> DEFINE Pair(q) == Race(q[1], q[2], Clock(tid, q[1]), Clock(u, q[2]))
               Out(q)  == Of(q[1], q[2].backtrace)
    <3>1. x \in RacesOf(tid, u, stored, loaded, times)
          <=> \E q \in stored[tid] \X loaded[u] : Pair(q) /\ x = Out(q)
      BY DEF RacesOf
    <3>2. \A r, l : /\ Pair(<<r, l>>) <=> Race(r, l, Clock(tid, r), Clock(u, l))
                    /\ Out(<<r, l>>) = Of(r, l.backtrace)
      OBVIOUS
    <3> HIDE DEF Pair, Out, Clock, Of
    <3>3. (\E q \in stored[tid] \X loaded[u] : Pair(q) /\ x = Out(q))
          <=> \E r \in stored[tid], l \in loaded[u] :
                Pair(<<r, l>>) /\ x = Out(<<r, l>>)
      <4>1. \A q \in stored[tid] \X loaded[u] :
              \E r \in stored[tid], l \in loaded[u] : q = <<r, l>>
        OBVIOUS
      <4>2. \A r \in stored[tid], l \in loaded[u] :
              <<r, l>> \in stored[tid] \X loaded[u]
        OBVIOUS
      <4>3. ASSUME NEW q \in stored[tid] \X loaded[u], Pair(q), x = Out(q)
            PROVE  \E r \in stored[tid], l \in loaded[u] :
                     Pair(<<r, l>>) /\ x = Out(<<r, l>>)
        BY <4>1, <4>3
      <4> QED
        BY <4>2, <4>3
    <3> QED
      BY <3>1, <3>2, <3>3
  <2> QED
    BY <2>1, <2>2
<1> HIDE DEF Found, PerGroup, Clock, Of
<1>4. \A x : x \in Found <=> x \in Races(stored, loaded, times)
  BY <1>1, <1>2, <1>3
<1> QED
  BY <1>4 DEF Found

-----------------------------------------------------------------------------
(* The loop over the entries, in the order of a hash map.                  *)

\* Induction over the naturals in terms of the set S of the numbers a fact
\* holds of, by a least number that is missing in it.
LEMMA NatSetInduction ==
  ASSUME NEW S, 0 \in S, \A n \in Nat : n \in S => n + 1 \in S
  PROVE  Nat \subseteq S
<1> SUFFICES ASSUME NEW k \in Nat, k \notin S
             PROVE  FALSE
  OBVIOUS
<1> DEFINE Missing == {n \in Nat : n \notin S}
           Below == {0 .. n : n \in Missing}
<1>1. Below \subseteq FiniteSubsetsOf(Nat)
  <2>1. \A n \in Nat : IsFiniteSet(0 .. n) /\ 0 .. n \subseteq Nat
    BY FS_Interval
  <2>2. QED BY <2>1 DEF FiniteSubsetsOf
<1>2. Below # {}
  OBVIOUS
<1>3. PICK m \in Below :
        \A w \in Below : ~(<<w, m>> \in StrictSubsetOrdering(Nat))
  BY <1>1, <1>2, FS_StrictSubsetOrderingWellFounded, WFMin
<1>4. PICK n \in Missing : m = 0 .. n
  BY <1>3
<1>5. n # 0 /\ n - 1 \in Nat
  OBVIOUS
<1>6. n - 1 \notin S
  BY <1>5
<1>7. 0 .. n - 1 \in Below
  BY <1>5, <1>6
<1>8. <<0 .. n - 1, 0 .. n>> \in StrictSubsetOrdering(Nat)
  <2>1. 0 .. n - 1 \subseteq 0 .. n /\ n \in 0 .. n /\ n \notin 0 .. n - 1
    BY <1>5
  <2>2. QED BY <1>5, <2>1 DEF StrictSubsetOrdering
<1>9. QED BY <1>3, <1>4, <1>7, <1>8

\* One round, when `found` are the backtraces found before.
After(found, e, racy) ==
  IF e[2][2] \notin found /\ racy THEN found \cup {e[2][2]} ELSE found

IsScan(scan, order, write_set, write_clock, loaded, times) ==
  scan = [i \in 0 .. Len(order) |->
            IF i = 0 THEN {}
            ELSE After(scan[i - 1], order[i],
                       RacyEntry(order[i], loaded, times, write_set, write_clock))]

\* What is found among the first i entries.
FoundIn(i, order, write_set, write_clock, loaded, times) ==
  {order[j][2][2] :
     j \in {k \in 1 .. i :
              RacyEntry(order[k], loaded, times, write_set, write_clock)}}

LEMMA ScanDefined ==
  ASSUME NEW order, NEW write_set, NEW write_clock, NEW loaded, NEW times
  PROVE  Scan(order, write_set, write_clock, loaded, times) =
           (CHOOSE scan : IsScan(scan, order, write_set, write_clock, loaded,
                                 times))[Len(order)]
BY DEF Scan, IsScan, After

LEMMA FoundAfter ==
  ASSUME NEW order, NEW write_set, NEW write_clock, NEW loaded, NEW times,
         NEW i \in Nat \ {0}
  PROVE  FoundIn(i, order, write_set, write_clock, loaded, times) =
           After(FoundIn(i - 1, order, write_set, write_clock, loaded, times),
                 order[i],
                 RacyEntry(order[i], loaded, times, write_set, write_clock))
<1> DEFINE R == {k \in Nat : RacyEntry(order[k], loaded, times, write_set, write_clock)}
           new == FoundIn(i, order, write_set, write_clock, loaded, times)
           old == FoundIn(i - 1, order, write_set, write_clock, loaded, times)
           x == order[i][2][2]
<1>1. /\ new = {order[j][2][2] : j \in {k \in 1 .. i : k \in R}}
      /\ old = {order[j][2][2] : j \in {k \in 1 .. i - 1 : k \in R}}
      /\ i \in R <=> RacyEntry(order[i], loaded, times, write_set, write_clock)
  BY DEF FoundIn
<1> HIDE DEF R, new, old
<1>2. 1 .. i = (1 .. i - 1) \cup {i}
  OBVIOUS
<1>3. new = IF i \in R THEN old \cup {x} ELSE old
  <2>1. CASE i \in R
    <3>1. {k \in 1 .. i : k \in R} = {k \in 1 .. i - 1 : k \in R} \cup {i}
      BY <1>2, <2>1
    <3>2. QED BY <1>1, <2>1, <3>1
  <2>2. CASE i \notin R
    <3>1. {k \in 1 .. i : k \in R} = {k \in 1 .. i - 1 : k \in R}
      BY <1>2, <2>2
    <3>2. QED BY <1>1, <2>2, <3>1
  <2>3. QED BY <2>1, <2>2
<1>4. new = IF x \notin old /\ i \in R THEN old \cup {x} ELSE old
  BY <1>3
<1>5. new = After(old, order[i],
                  RacyEntry(order[i], loaded, times, write_set, write_clock))
  BY <1>1, <1>4 DEF After
<1>6. QED BY <1>5 DEF new, old

LEMMA ScanExists ==
  ASSUME NEW order, Len(order) \in Nat, NEW write_set, NEW write_clock,
         NEW loaded, NEW times
  PROVE  \E scan : IsScan(scan, order, write_set, write_clock, loaded, times)
<1> DEFINE g == [i \in 0 .. Len(order) |->
                   FoundIn(i, order, write_set, write_clock, loaded, times)]
<1>1. ASSUME NEW i \in 0 .. Len(order)
      PROVE  g[i] = IF i = 0 THEN {}
                    ELSE After(g[i - 1], order[i],
                               RacyEntry(order[i], loaded, times, write_set, write_clock))
  <2>1. CASE i = 0
    BY <2>1 DEF FoundIn
  <2>2. CASE i # 0
    <3>1. i \in Nat \ {0} /\ i - 1 \in 0 .. Len(order)
      BY <2>2
    <3>2. /\ g[i - 1] = FoundIn(i - 1, order, write_set, write_clock, loaded, times)
          /\ g[i] = FoundIn(i, order, write_set, write_clock, loaded, times)
      BY <3>1
    <3> HIDE DEF g
    <3>3. QED BY <2>2, <3>1, <3>2, FoundAfter
  <2>3. QED BY <2>1, <2>2
<1>2. g = [i \in 0 .. Len(order) |-> g[i]]
  OBVIOUS
<1> HIDE DEF g
<1>3. IsScan(g, order, write_set, write_clock, loaded, times)
  BY <1>1, <1>2 DEF IsScan
<1>4. QED BY <1>3

\* The loop finds the backtraces of the racy entries, whatever it skips.
LEMMA ScanFinds ==
  ASSUME NEW order, Len(order) \in Nat, NEW write_set, NEW write_clock,
         NEW loaded, NEW times
  PROVE  Scan(order, write_set, write_clock, loaded, times) =
           FoundIn(Len(order), order, write_set, write_clock, loaded, times)
<1> DEFINE Found(i) == FoundIn(i, order, write_set, write_clock, loaded, times)
           Racing(i) == RacyEntry(order[i], loaded, times, write_set, write_clock)
<1>1. PICK scan : /\ IsScan(scan, order, write_set, write_clock, loaded, times)
                  /\ Scan(order, write_set, write_clock, loaded, times) =
                       scan[Len(order)]
  BY ScanDefined, ScanExists
<1> DEFINE S == {i \in Nat : i \in 0 .. Len(order) => scan[i] = Found(i)}
<1>2. \A i \in 0 .. Len(order) :
        scan[i] = IF i = 0 THEN {} ELSE After(scan[i - 1], order[i], Racing(i))
  BY <1>1 DEF IsScan
<1>3. Found(0) = {}
  BY DEF FoundIn
<1>4. \A i \in Nat \ {0} : Found(i) = After(Found(i - 1), order[i], Racing(i))
  BY FoundAfter
<1> HIDE DEF Found, Racing
<1>5. 0 \in S
  BY <1>2, <1>3
<1>6. ASSUME NEW n \in Nat, n \in S
      PROVE  n + 1 \in S
  <2>1. SUFFICES ASSUME n + 1 \in 0 .. Len(order)
                 PROVE  scan[n + 1] = Found(n + 1)
    OBVIOUS
  <2>2. scan[n] = Found(n)
    BY <1>6, <2>1
  <2>3. n + 1 # 0 /\ (n + 1) - 1 = n /\ n + 1 \in Nat \ {0}
    OBVIOUS
  <2>4. scan[n + 1] = After(scan[n], order[n + 1], Racing(n + 1))
    BY <1>2, <2>1, <2>3
  <2>5. Found(n + 1) = After(Found(n), order[n + 1], Racing(n + 1))
    BY <1>4, <2>3
  <2>6. QED BY <2>2, <2>4, <2>5
<1>7. Len(order) \in S
  <2> HIDE DEF S
  <2>1. Nat \subseteq S
    BY <1>5, <1>6, NatSetInduction
  <2>2. QED BY <2>1
<1>8. QED BY <1>1, <1>7 DEF Found

\* In whatever order the hash maps give the entries of the other threads, the
\* loop of CheckPMRacesPerThread, which skips a load whose backtrace it has,
\* finds the backtraces of the racy loads.
THEOREM ScanExact ==
  ASSUME NEW loaded, NEW times, NEW tid, NEW address, NEW write_set,
         NEW write_clock, NEW n \in Nat,
         NEW order \in [1 .. n -> Entries(tid, address, loaded)],
         \A e \in Entries(tid, address, loaded) : \E i \in 1 .. n : order[i] = e
  PROVE  Scan(order, write_set, write_clock, loaded, times) =
           CheckPMRacesPerThread(tid, address, write_set, write_clock, loaded,
                                 times)
<1> DEFINE E == Entries(tid, address, loaded)
           Racing == {e \in E : RacyEntry(e, loaded, times, write_set, write_clock)}
<1>1. Len(order) = n
  OBVIOUS
<1>2. Scan(order, write_set, write_clock, loaded, times) =
        {order[j][2][2] : j \in {k \in 1 .. n : order[k] \in Racing}}
  <2>1. Scan(order, write_set, write_clock, loaded, times) =
          FoundIn(n, order, write_set, write_clock, loaded, times)
    BY <1>1, ScanFinds
  <2>2. {k \in 1 .. n : order[k] \in Racing} =
          {k \in 1 .. n : RacyEntry(order[k], loaded, times, write_set, write_clock)}
    OBVIOUS
  <2>3. QED BY <2>1, <2>2 DEF FoundIn
<1>3. CheckPMRacesPerThread(tid, address, write_set, write_clock, loaded, times) =
        {e[2][2] : e \in Racing}
  BY DEF CheckPMRacesPerThread
<1>4. Racing \subseteq E
  OBVIOUS
<1> HIDE DEF E, Racing
<1>5. order \in [1 .. n -> E] /\ \A e \in E : \E i \in 1 .. n : order[i] = e
  BY DEF E
<1>6. {order[j][2][2] : j \in {k \in 1 .. n : order[k] \in Racing}} =
        {e[2][2] : e \in Racing}
  BY <1>4, <1>5
<1>7. QED BY <1>2, <1>3, <1>6

-----------------------------------------------------------------------------
(* The end of a run                                                        *)

RecordsInv ==
  /\ DOMAIN stores = Tid /\ DOMAIN loads = Tid
  /\ \A t \in Tid : stores[t] \subseteq StoreData[t] /\ loads[t] \subseteq LoadData[t]

LEMMA RecordsInvariant == Spec => []RecordsInv
<1>1. Init => RecordsInv
  BY DEF Init, RecordsInv
<1>2. RecordsInv /\ [Next]_<<stores, loads>> => RecordsInv'
  BY DEF RecordsInv, Next, AddStore, AddLoad
<1>3. QED BY <1>1, <1>2, PTL DEF Spec

LEMMA RecordsLeft == RecordsInv => LeftBehind(stores, loads, clocks)
BY EndOfRunAssumption DEF RecordsInv, LeftBehind

\* Whatever a run leaves behind, of any number of threads with any clocks:
\* what is reported is a race and every race is reported.
THEOREM ReportsExact == Spec => []ReportsAreRaces
<1>1. RecordsInv => ReportsAreRaces
  BY RecordsLeft, AnalysisExact DEF ReportsAreRaces
<1>2. QED BY <1>1, RecordsInvariant, PTL

\* The order of the hash maps changes no report.
THEOREM OrderIrrelevant == Spec => []OrderDoesNotMatter
<1>1. OrderDoesNotMatter
  <2> SUFFICES ASSUME NEW t \in Tid, NEW g \in Groups(stores[t]),
                      NEW order \in Orders(Entries(t, g.address, loads))
               PROVE  Scan(order, g.common_set, clocks[t][g.clock_i + 1], loads, clocks)
                        = CheckPMRacesPerThread(t, g.address, g.common_set,
                            clocks[t][g.clock_i + 1], loads, clocks)
    BY DEF OrderDoesNotMatter
  <2>1. PICK n \in 0 .. MaxLoads : order \in [1 .. n -> Entries(t, g.address, loads)]
    BY DEF Orders
  <2>2. \A e \in Entries(t, g.address, loads) : \E i \in 1 .. n : order[i] = e
    BY <2>1 DEF Orders
  <2>3. n \in Nat
    BY EndOfRunAssumption
  <2>4. QED BY <2>1, <2>2, <2>3, ScanExact
<1>2. QED BY <1>1, PTL
=============================================================================
