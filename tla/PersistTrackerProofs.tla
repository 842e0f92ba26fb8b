------------------------ MODULE PersistTrackerProofs ------------------------
(***************************************************************************)
(* What the records of the tracker say about locks, flushes and fences is  *)
(* true, for any threads, locks, bytes, lines and heuristic.               *)
(***************************************************************************)
EXTENDS PersistTracker, TLAPS

Typed ==
  /\ DOMAIN current_timedlockset = Thread
  /\ DOMAIN cached_timedlockset = Thread
  /\ DOMAIN mem_state = Thread /\ DOMAIN flushed_mem_state = Thread
  /\ DOMAIN race_likely_stores = Thread
  /\ lock_clock \in [Thread -> Nat]
  /\ now \in [Thread -> Nat]
  /\ acquisitions \in [Thread -> Nat]
  /\ depth \in [Thread -> [Lock -> Nat]]
  /\ held_since \in [Thread -> [Lock -> Nat]]
  /\ nested \in [Thread -> SUBSET Lock]
  /\ DOMAIN unflushed = Thread

(* The locks of t and their timestamps.  Below 2^32 acquisitions a lock     *)
(* taken anew has a timestamp no older lockset has.                        *)
LocksOK(t) ==
  /\ cached_timedlockset[t] \in {{}, {current_timedlockset[t]}}
  /\ acquisitions[t] < ClockModulus => lock_clock[t] = acquisitions[t]
  /\ \A l \in DOMAIN current_timedlockset[t] :
       /\ l \in Lock /\ depth[t][l] > 0
       /\ current_timedlockset[t][l] \in Nat
       /\ acquisitions[t] <= ClockModulus =>
            current_timedlockset[t][l] < acquisitions[t]
  /\ \A l \in Lock : depth[t][l] > 0 => held_since[t][l] < now[t]
  /\ \A l \in Lock \ nested[t] :
       /\ depth[t][l] \in {0, 1}
       /\ depth[t][l] = 1 => l \in DOMAIN current_timedlockset[t]

(* The stamps that a store of t, made before the time n, shares with the    *)
(* locks of t now belong to locks it has held since, and conversely.        *)
StoreOK(t, data, n) ==
  /\ data.backtrace \in Nat /\ data.backtrace < n
  /\ acquisitions[t] <= ClockModulus =>
       \A l \in DOMAIN data.timed_lockset :
         /\ data.timed_lockset[l] \in Nat
         /\ data.timed_lockset[l] < acquisitions[t]
         /\ l \in CommonLocks(current_timedlockset[t], data.timed_lockset) =>
              held_since[t][l] < data.backtrace
  /\ HeldThroughout(t, data.backtrace) \ nested[t]
       \subseteq CommonLocks(current_timedlockset[t], data.timed_lockset)

(* What the three properties below ask of a new record.                    *)
RecordOK(t, r) ==
  /\ acquisitions[t] <= ClockModulus =>
       r.common_set \subseteq HeldThroughout(t, r.write_trace)
  /\ HeldThroughout(t, r.write_trace) \ nested[t] \subseteq r.common_set
  /\ r.was_flushed <=> <<r.write_trace, r.address>> \notin unflushed[t]
  /\ r.persisted <=> r.fence_trace = "fence"
  /\ r.persisted => r.was_flushed

IsData(d) ==
  d = [mem |-> d.mem, flushed |-> d.flushed, records |-> d.records,
       dropped |-> d.dropped, irh |-> d.irh]

(* The data of a handler of t at the time n, with the stores U unflushed.   *)
DataOK(t, d, U, n) ==
  /\ IsData(d)
  /\ \A b \in DOMAIN d.mem :
       StoreOK(t, d.mem[b], n) /\ <<d.mem[b].backtrace, b>> \in U
  /\ \A b \in DOMAIN d.flushed :
       StoreOK(t, d.flushed[b], n) /\ <<d.flushed[b].backtrace, b>> \notin U
  /\ \A r \in d.records \ race_likely_stores[t] : RecordOK(t, r)

WindowInv ==
  /\ Typed
  /\ \A t \in Thread : LocksOK(t) /\ DataOK(t, Data(t), unflushed[t], now[t])

-----------------------------------------------------------------------------
(* The handlers *)

LEMMA TimedIsCurrent ==
  ASSUME NEW t \in Thread, LocksOK(t)
  PROVE  Timed(t) = current_timedlockset[t]
  BY DEF LocksOK, Timed

LEMMA Registering ==
  ASSUME NEW d, IsData(d), NEW R, NEW D, NEW I
  PROVE  [d EXCEPT !.records = R, !.dropped = D, !.irh = I] =
           [mem |-> d.mem, flushed |-> d.flushed, records |-> R, dropped |-> D,
            irh |-> I]
<1> DEFINE d1 == [d EXCEPT !.records = R]
           d2 == [d1 EXCEPT !.dropped = D]
           d3 == [d2 EXCEPT !.irh = I]
<1>1. d1 = [mem |-> d.mem, flushed |-> d.flushed, records |-> R,
            dropped |-> d.dropped, irh |-> d.irh]
  BY DEF IsData
<1> HIDE DEF d1
<1>2. d2 = [mem |-> d.mem, flushed |-> d.flushed, records |-> R, dropped |-> D,
            irh |-> d.irh]
  BY <1>1
<1> HIDE DEF d2
<1>3. d3 = [mem |-> d.mem, flushed |-> d.flushed, records |-> R, dropped |-> D,
            irh |-> I]
  BY <1>2
<1>4. QED BY <1>3, Zenon DEF d1, d2

LEMMA Setting ==
  ASSUME NEW d, IsData(d), NEW V
  PROVE  /\ [d EXCEPT !.mem = V] =
              [mem |-> V, flushed |-> d.flushed, records |-> d.records,
               dropped |-> d.dropped, irh |-> d.irh]
         /\ [d EXCEPT !.flushed = V] =
              [mem |-> d.mem, flushed |-> V, records |-> d.records,
               dropped |-> d.dropped, irh |-> d.irh]
         /\ [d EXCEPT !.irh = V] =
              [mem |-> d.mem, flushed |-> d.flushed, records |-> d.records,
               dropped |-> d.dropped, irh |-> V]
  BY DEF IsData

LEMMA RegisterIs ==
  ASSUME NEW d, IsData(d), NEW t, NEW f, NEW asked, NEW end,
         NEW persisted, NEW was_flushed, NEW reported,
         reported = ReportedBytes(d.irh, t, asked, N)
  PROVE  Register(d, t, f, asked, end, persisted, was_flushed) =
           [mem |-> d.mem, flushed |-> d.flushed,
            records |-> d.records \cup
              {Record(t, b, f[b], end, persisted, was_flushed) : b \in reported},
            dropped |-> d.dropped \cup
              {<<f[b].backtrace, b>> : b \in asked \ reported},
            irh |-> AfterBytes(d.irh, t, asked, N)]
<1> DEFINE R == d.records \cup
              {Record(t, b, f[b], end, persisted, was_flushed) : b \in reported}
           D == d.dropped \cup {<<f[b].backtrace, b>> : b \in asked \ reported}
           I == AfterBytes(d.irh, t, asked, N)
<1>1. Register(d, t, f, asked, end, persisted, was_flushed) =
        [d EXCEPT !.records = R, !.dropped = D, !.irh = I]
  BY Zenon DEF Register
<1>2. IsData(d)
  OBVIOUS
<1> HIDE DEF R, D, I
<1>3. [d EXCEPT !.records = R, !.dropped = D, !.irh = I] =
        [mem |-> d.mem, flushed |-> d.flushed, records |-> R, dropped |-> D,
         irh |-> I]
  BY <1>2, Registering
<1>4. QED BY <1>1, <1>3, Zenon DEF R, D, I

KeepsMaps(e, d) == e.mem = d.mem /\ e.flushed = d.flushed

LEMMA RegisterOK ==
  ASSUME Typed, NEW t \in Thread, LocksOK(t), NEW d, NEW U, NEW n, DataOK(t, d, U, n),
         NEW f, NEW asked, NEW end,
         NEW persisted \in BOOLEAN, NEW was_flushed \in BOOLEAN,
         \A b \in asked :
           /\ StoreOK(t, f[b], n)
           /\ was_flushed <=> <<f[b].backtrace, b>> \notin unflushed[t],
         persisted <=> end = "fence", persisted => was_flushed
  PROVE  /\ DataOK(t, Register(d, t, f, asked, end, persisted, was_flushed), U, n)
         /\ KeepsMaps(Register(d, t, f, asked, end, persisted, was_flushed), d)
<1> DEFINE e == Register(d, t, f, asked, end, persisted, was_flushed)
           reported == ReportedBytes(d.irh, t, asked, N)
           records == {Record(t, b, f[b], end, persisted, was_flushed) : b \in reported}
<1>1. /\ IsData(e)
      /\ e.mem = d.mem /\ e.flushed = d.flushed
      /\ e.records = d.records \cup records
  <2> DEFINE D == d.dropped \cup {<<f[b].backtrace, b>> : b \in asked \ reported}
             I == AfterBytes(d.irh, t, asked, N)
  <2>3. e = [mem |-> d.mem, flushed |-> d.flushed,
             records |-> d.records \cup records, dropped |-> D, irh |-> I]
    BY RegisterIs DEF DataOK
  <2> HIDE DEF e, D, I
  <2>4. QED BY <2>3 DEF IsData
<1>2. reported \subseteq asked
  BY DEF ReportedBytes
<1>3. ASSUME NEW b \in reported
      PROVE  RecordOK(t, Record(t, b, f[b], end, persisted, was_flushed))
  <2> DEFINE r == Record(t, b, f[b], end, persisted, was_flushed)
  <2>1. /\ r.common_set = CommonLocks(current_timedlockset[t], f[b].timed_lockset)
        /\ r.write_trace = f[b].backtrace /\ r.address = b
        /\ r.fence_trace = end
        /\ r.persisted = persisted /\ r.was_flushed = was_flushed
    BY TimedIsCurrent DEF Record
  <2>2. StoreOK(t, f[b], n) /\ (was_flushed <=> <<f[b].backtrace, b>> \notin unflushed[t])
    BY <1>2, <1>3
  <2>3. acquisitions[t] <= ClockModulus =>
          r.common_set \subseteq HeldThroughout(t, r.write_trace)
    <3> SUFFICES ASSUME acquisitions[t] <= ClockModulus, NEW l \in r.common_set
                 PROVE  l \in HeldThroughout(t, r.write_trace)
      OBVIOUS
    <3>1. l \in DOMAIN current_timedlockset[t] /\ l \in DOMAIN f[b].timed_lockset
      BY <2>1 DEF CommonLocks
    <3>2. QED BY <2>1, <2>2, <3>1 DEF StoreOK, LocksOK, HeldThroughout
  <2>4. HeldThroughout(t, r.write_trace) \ nested[t] \subseteq r.common_set
    BY <2>1, <2>2 DEF StoreOK
  <2>5. r.was_flushed <=> <<r.write_trace, r.address>> \notin unflushed[t]
    BY <2>1, <2>2
  <2>6. (r.persisted <=> r.fence_trace = "fence") /\ (r.persisted => r.was_flushed)
    BY <2>1
  <2>7. QED BY <2>3, <2>4, <2>5, <2>6 DEF RecordOK
<1> HIDE DEF e, reported
<1>4. \A r \in e.records \ race_likely_stores[t] : RecordOK(t, r)
  BY <1>1, <1>3 DEF DataOK
<1>5. DataOK(t, e, U, n)
  BY <1>1, <1>4 DEF DataOK
<1>6. QED BY <1>1, <1>5 DEF e, KeepsMaps

LEMMA OverwrittenOK ==
  ASSUME Typed, NEW t \in Thread, LocksOK(t), NEW d, NEW n,
         DataOK(t, d, unflushed[t], n), NEW bytes
  PROVE  DataOK(t, Overwritten(d, t, bytes), unflushed[t], n)
<1>1. CASE ~CheckUnpersisted
  BY <1>1 DEF Overwritten
<1>2. CASE CheckUnpersisted
  <2> DEFINE e == Register(d, t, d.mem, bytes \cap DOMAIN d.mem, "store", FALSE, FALSE)
             g == Register(e, t, d.flushed, bytes \cap DOMAIN d.flushed,
                           "store", FALSE, TRUE)
             w == [g EXCEPT !.flushed = Without(g.flushed, bytes)]
  <2>5. Overwritten(d, t, bytes) = w
    BY <1>2 DEF Overwritten
  <2>1. \A b \in bytes \cap DOMAIN d.mem :
          /\ StoreOK(t, d.mem[b], n)
          /\ FALSE <=> <<d.mem[b].backtrace, b>> \notin unflushed[t]
    BY DEF DataOK
  <2>2. DataOK(t, e, unflushed[t], n) /\ KeepsMaps(e, d)
    BY <2>1, RegisterOK
  <2>3. \A b \in bytes \cap DOMAIN d.flushed :
          /\ StoreOK(t, d.flushed[b], n)
          /\ TRUE <=> <<d.flushed[b].backtrace, b>> \notin unflushed[t]
    BY DEF DataOK
  <2> HIDE DEF e
  <2>4. DataOK(t, g, unflushed[t], n)
    BY <2>2, <2>3, RegisterOK
  <2> HIDE DEF g
  <2>6. w = [mem |-> g.mem, flushed |-> Without(g.flushed, bytes),
             records |-> g.records, dropped |-> g.dropped, irh |-> g.irh]
    BY <2>4, Setting DEF DataOK
  <2> HIDE DEF w
  <2>7. DataOK(t, w, unflushed[t], n)
    BY <2>4, <2>6 DEF DataOK, IsData, Without
  <2>8. QED BY <2>5, <2>7
<1>3. QED BY <1>1, <1>2

(* The new store of each byte, and the older ones.                         *)
LEMMA StoreKeeps ==
  ASSUME Typed, NEW t \in Thread, LocksOK(t), DataOK(t, Data(t), unflushed[t], now[t]),
         NEW address, NEW size
  PROVE  DataOK(t, AfterStore(Data(t), t, address, size),
                unflushed[t] \cup ({now[t]} \X Bytes(address, size)), now[t] + 1)
<1> DEFINE h == HandleAccess(irh, t, address, size, N)
           d == [Data(t) EXCEPT !.irh = h.irh]
           o == Overwritten(d, t, Bytes(address, size))
           data == [timed_lockset |-> Timed(t), backtrace |-> now[t]]
           new == [b \in Bytes(address, size) |-> data]
           U == unflushed[t] \cup ({now[t]} \X Bytes(address, size))
           s == [o EXCEPT !.mem = Over(new, o.mem)]
<1>1. AfterStore(Data(t), t, address, size) = s
  BY DEF AfterStore, Data
<1>2. d = [mem |-> Data(t).mem, flushed |-> Data(t).flushed,
           records |-> Data(t).records, dropped |-> Data(t).dropped, irh |-> h.irh]
  BY Setting DEF DataOK
<1> HIDE DEF h, d
<1>3. DataOK(t, d, unflushed[t], now[t])
  BY <1>2 DEF DataOK, IsData
<1>4. DataOK(t, o, unflushed[t], now[t])
  BY <1>3, OverwrittenOK
<1> HIDE DEF o
<1>5. s = [mem |-> Over(new, o.mem), flushed |-> o.flushed, records |-> o.records,
           dropped |-> o.dropped, irh |-> o.irh]
  BY <1>4, Setting DEF DataOK
<1> HIDE DEF s
<1>6. StoreOK(t, data, now[t] + 1)
  <2>1. data.timed_lockset = current_timedlockset[t] /\ data.backtrace = now[t]
    BY TimedIsCurrent
  <2>2. now[t] \in Nat
    BY DEF Typed
  <2>3. acquisitions[t] <= ClockModulus =>
         \A l \in DOMAIN data.timed_lockset :
         /\ data.timed_lockset[l] \in Nat
         /\ data.timed_lockset[l] < acquisitions[t]
         /\ l \in CommonLocks(current_timedlockset[t], data.timed_lockset) =>
              held_since[t][l] < data.backtrace
    BY <2>1 DEF LocksOK
  <2>4. HeldThroughout(t, data.backtrace) \ nested[t] \subseteq
          CommonLocks(current_timedlockset[t], data.timed_lockset)
    BY <2>1 DEF LocksOK, HeldThroughout, CommonLocks
  <2>5. QED BY <2>1, <2>2, <2>3, <2>4 DEF StoreOK
<1>7. data.backtrace = now[t] /\ now[t] \in Nat
  BY DEF Typed
<1> HIDE DEF data
<1>8. \A old : StoreOK(t, old, now[t]) => StoreOK(t, old, now[t] + 1)
  BY <1>7 DEF StoreOK
<1>9. \A b \in DOMAIN s.mem : StoreOK(t, s.mem[b], now[t] + 1) /\ <<s.mem[b].backtrace, b>> \in U
  <2> SUFFICES ASSUME NEW b \in DOMAIN s.mem
               PROVE  StoreOK(t, s.mem[b], now[t] + 1) /\ <<s.mem[b].backtrace, b>> \in U
    OBVIOUS
  <2>1. CASE b \in Bytes(address, size)
    <3>1. s.mem[b] = data
      BY <1>5, <2>1 DEF Over
    <3>2. <<now[t], b>> \in U
      BY <2>1
    <3>3. QED BY <1>6, <1>7, <3>1, <3>2
  <2>2. CASE b \notin Bytes(address, size)
    <3>1. b \in DOMAIN o.mem /\ s.mem[b] = o.mem[b]
      BY <1>5, <2>2 DEF Over
    <3>2. QED BY <1>4, <1>8, <3>1 DEF DataOK
  <2>3. QED BY <2>1, <2>2
<1>10. \A b \in DOMAIN s.flushed :
         StoreOK(t, s.flushed[b], now[t] + 1) /\ <<s.flushed[b].backtrace, b>> \notin U
  <2> SUFFICES ASSUME NEW b \in DOMAIN o.flushed
               PROVE  /\ StoreOK(t, o.flushed[b], now[t] + 1)
                      /\ <<o.flushed[b].backtrace, b>> \notin U
    BY <1>5
  <2>1. StoreOK(t, o.flushed[b], now[t]) /\ <<o.flushed[b].backtrace, b>> \notin unflushed[t]
    BY <1>4 DEF DataOK
  <2>2. o.flushed[b].backtrace # now[t]
    BY <1>7, <2>1 DEF StoreOK
  <2>3. QED BY <1>8, <2>1, <2>2
<1>11. IsData(s) /\ s.records = o.records
  BY <1>5 DEF IsData
<1>12. DataOK(t, s, U, now[t] + 1)
  BY <1>4, <1>9, <1>10, <1>11 DEF DataOK
<1>13. QED BY <1>1, <1>12

LEMMA FlushKeeps ==
  ASSUME Typed, NEW t \in Thread, DataOK(t, Data(t), unflushed[t], now[t]), NEW address
  PROVE  DataOK(t, AfterFlush(Data(t), address),
                {w \in unflushed[t] : CacheLine(w[2]) # CacheLine(address)}, now[t])
<1> DEFINE d == Data(t)
           line == InLine(d.mem, address)
           U == {w \in unflushed[t] : CacheLine(w[2]) # CacheLine(address)}
           moved == Over(Only(d.mem, line), d.flushed)
           e == [d EXCEPT !.flushed = moved]
           f == [e EXCEPT !.mem = Without(e.mem, line)]
<1>1. AfterFlush(d, address) = f
  <2>1. e = [mem |-> d.mem, flushed |-> moved, records |-> d.records,
             dropped |-> d.dropped, irh |-> d.irh]
    BY Setting DEF DataOK
  <2>2. e.mem = d.mem
    <3> HIDE DEF e
    <3>1. QED BY <2>1
  <2>3. QED BY <2>2 DEF AfterFlush
<1> HIDE DEF d, moved
<1>2. e = [mem |-> d.mem, flushed |-> moved, records |-> d.records,
           dropped |-> d.dropped, irh |-> d.irh]
  BY Setting DEF DataOK, d
<1> HIDE DEF e
<1>3. IsData(e) /\ e.mem = d.mem
  BY <1>2 DEF IsData
<1>4. f = [mem |-> Without(d.mem, line), flushed |-> moved, records |-> d.records,
           dropped |-> d.dropped, irh |-> d.irh]
  BY <1>2, <1>3, Setting
<1> HIDE DEF f
<1>5. \A b \in DOMAIN d.mem :
        StoreOK(t, d.mem[b], now[t]) /\ <<d.mem[b].backtrace, b>> \in unflushed[t]
  BY DEF DataOK, d
<1>6. \A b \in DOMAIN d.flushed :
        StoreOK(t, d.flushed[b], now[t]) /\ <<d.flushed[b].backtrace, b>> \notin unflushed[t]
  BY DEF DataOK, d
<1>7. \A b \in DOMAIN f.mem :
        StoreOK(t, f.mem[b], now[t]) /\ <<f.mem[b].backtrace, b>> \in U
  <2>1. \A b \in DOMAIN f.mem :
          b \in DOMAIN d.mem /\ CacheLine(b) # CacheLine(address) /\ f.mem[b] = d.mem[b]
    BY <1>4 DEF Without, InLine
  <2>2. QED BY <1>5, <2>1
<1>8. \A b \in DOMAIN f.flushed :
        StoreOK(t, f.flushed[b], now[t]) /\ <<f.flushed[b].backtrace, b>> \notin U
  <2> SUFFICES ASSUME NEW b \in DOMAIN moved
               PROVE  StoreOK(t, moved[b], now[t]) /\ <<moved[b].backtrace, b>> \notin U
    BY <1>4
  <2>1. CASE b \in line
    <3>1. b \in DOMAIN d.mem /\ CacheLine(b) = CacheLine(address) /\ moved[b] = d.mem[b]
      BY <2>1 DEF InLine, moved, Over, Only
    <3>2. QED BY <1>5, <3>1
  <2>2. CASE b \notin line
    <3>1. b \in DOMAIN d.flushed /\ moved[b] = d.flushed[b]
      BY <2>2 DEF moved, Over, Only
    <3>2. QED BY <1>6, <3>1
  <2>3. QED BY <2>1, <2>2
<1>9. IsData(f) /\ f.records = d.records
  BY <1>4 DEF IsData
<1>10. \A r \in d.records \ race_likely_stores[t] : RecordOK(t, r)
  BY DEF DataOK, d
<1>11. DataOK(t, f, U, now[t])
  BY <1>7, <1>8, <1>9, <1>10 DEF DataOK
<1>12. QED BY <1>1, <1>11 DEF d

LEMMA FenceKeeps ==
  ASSUME Typed, NEW t \in Thread, LocksOK(t), NEW d, NEW U, NEW n, DataOK(t, d, U, n),
         unflushed[t] \subseteq U
  PROVE  DataOK(t, AfterFence(d, t), U, n)
<1> DEFINE e == Register(d, t, d.flushed, DOMAIN d.flushed, "fence", TRUE, TRUE)
           f == [e EXCEPT !.flushed = NoStores]
<1>1. AfterFence(d, t) = f
  BY DEF AfterFence
<1>2. \A b \in DOMAIN d.flushed :
        /\ StoreOK(t, d.flushed[b], n)
        /\ TRUE <=> <<d.flushed[b].backtrace, b>> \notin unflushed[t]
  BY DEF DataOK
<1>3. DataOK(t, e, U, n)
  BY <1>2, RegisterOK
<1> HIDE DEF e
<1>4. f = [mem |-> e.mem, flushed |-> NoStores, records |-> e.records,
           dropped |-> e.dropped, irh |-> e.irh]
  BY <1>3, Setting DEF DataOK
<1> HIDE DEF f
<1>5. DataOK(t, f, U, n)
  BY <1>3, <1>4 DEF DataOK, IsData, NoStores
<1>6. QED BY <1>1, <1>5

LEMMA ExitKeeps ==
  ASSUME Typed, NEW t \in Thread, LocksOK(t), DataOK(t, Data(t), unflushed[t], now[t])
  PROVE  DataOK(t, AfterExit(Data(t), t), unflushed[t], now[t])
<1> DEFINE d == Data(t)
           e == Register(d, t, d.mem, DOMAIN d.mem, "exit", FALSE, FALSE)
           f == Register(e, t, d.flushed, DOMAIN d.flushed, "exit", FALSE, TRUE)
<1>1. \A b \in DOMAIN d.mem :
        /\ StoreOK(t, d.mem[b], now[t])
        /\ FALSE <=> <<d.mem[b].backtrace, b>> \notin unflushed[t]
  BY DEF DataOK
<1>2. \A b \in DOMAIN d.flushed :
        /\ StoreOK(t, d.flushed[b], now[t])
        /\ TRUE <=> <<d.flushed[b].backtrace, b>> \notin unflushed[t]
  BY DEF DataOK
<1>3. AfterExit(d, t) = IF ~CheckUnpersisted THEN d ELSE f
  BY DEF AfterExit
<1> HIDE DEF d
<1>4. DataOK(t, e, unflushed[t], now[t])
  BY <1>1, RegisterOK DEF d
<1> HIDE DEF e
<1>5. DataOK(t, f, unflushed[t], now[t])
  BY <1>2, <1>4, RegisterOK
<1>6. QED BY <1>3, <1>5 DEF d

-----------------------------------------------------------------------------
(* The steps *)

LEMMA TypedStep == Typed /\ [Next]_vars => Typed'
<1> SUFFICES ASSUME Typed, [Next]_vars PROVE Typed'
  OBVIOUS
<1> USE DEF Typed
<1>1. ASSUME NEW t \in Thread, NEW address, NEW size,
             Store(t, address, size) \/ RMW(t, address, size)
      PROVE  Typed'
  <2>1. \E d : Become(t, d)
    BY <1>1 DEF Store, RMW
  <2>2. Intern(t) /\ UNCHANGED <<current_timedlockset, lock_clock, owned>>
    BY <1>1 DEF Store, RMW
  <2>3. NoteStore(t, address, size)
    BY <1>1 DEF Store, RMW
  <2>4. QED BY <2>1, <2>2, <2>3 DEF Become, Intern, NoteStore, owned
<1>2. ASSUME NEW t \in Thread, NEW address, Flush(t, address)
      PROVE  Typed'
  BY <1>2 DEF Flush, Become, locks, time, owned
<1>3. ASSUME NEW t \in Thread, Fence(t)
      PROVE  Typed'
  BY <1>3 DEF Fence, Become, Intern, time, owned
<1>4. ASSUME NEW t \in Thread, NEW address, NEW size, NEW backtrace,
             Load(t, address, size, backtrace)
      PROVE  Typed'
  BY <1>4 DEF Load, Intern, cache, owned
<1>5. ASSUME NEW t \in Thread, NEW l \in Lock, AcquireLock(t, l)
      PROVE  Typed'
  <2>1. NextId(lock_clock[t]) \in Nat
    BY DEF NextId
  <2>2. lock_clock' \in [Thread -> Nat] /\ now' \in [Thread -> Nat]
        /\ acquisitions' \in [Thread -> Nat]
    BY <1>5, <2>1 DEF AcquireLock
  <2>3. depth' \in [Thread -> [Lock -> Nat]] /\ held_since' \in [Thread -> [Lock -> Nat]]
    BY <1>5 DEF AcquireLock
  <2>4. nested' \in [Thread -> SUBSET Lock]
    BY <1>5 DEF AcquireLock
  <2>5. QED BY <1>5, <2>2, <2>3, <2>4
            DEF AcquireLock, AfterProcessLock, cache, report, fate
<1>6. ASSUME NEW t \in Thread, NEW l \in Lock, ReleaseLock(t, l)
      PROVE  Typed'
  BY <1>6 DEF ReleaseLock, AfterProcessLock, cache, report, time, fate
<1>7. ASSUME NEW t \in Thread, NextSegment(t)
      PROVE  Typed'
  BY <1>7 DEF NextSegment, locks, cache, report, time, owned, fate
<1>8. ASSUME NEW t \in Thread, Exit(t)
      PROVE  Typed'
  BY <1>8 DEF Exit, Become, Intern, time, owned
<1>9. CASE UNCHANGED vars
  BY <1>9 DEF vars, locks, cache, report, time, owned, fate
<1>10. QED BY <1>1, <1>2, <1>3, <1>4, <1>5, <1>6, <1>7, <1>8, <1>9
           DEF Next, Step, Finished

NewOK == \A t \in Thread : \A r \in NewRecords(t) : RecordOK(t, r)

(* A handler that leaves the locks alone.                                  *)
LEMMA Became ==
  ASSUME WindowInv, Typed', NEW t \in Thread, NEW d, Become(t, d),
         DataOK(t, d, unflushed'[t], now'[t]),
         UNCHANGED <<current_timedlockset, lock_clock, acquisitions, depth,
                     held_since, nested>>,
         now'[t] >= now[t],
         \A u \in Thread \ {t} : now'[u] = now[u] /\ unflushed'[u] = unflushed[u],
         UNCHANGED cached_timedlockset \/ Intern(t)
  PROVE  WindowInv' /\ NewOK
<1>1. /\ \A data, n, u : StoreOK(u, data, n)' <=> StoreOK(u, data, n)
      /\ Typed
  BY DEF StoreOK, HeldThroughout, WindowInv
<1>2. ASSUME NEW u \in Thread PROVE LocksOK(u)'
  <2>1. LocksOK(u) /\ LocksOK(t)
    BY DEF WindowInv
  <2>2. cached_timedlockset'[u] \in {{}, {current_timedlockset[u]}}
    <3>1. Timed(t) = current_timedlockset[t]
      BY <2>1, TimedIsCurrent
    <3>2. cached_timedlockset[u] \in {{}, {current_timedlockset[u]}}
      BY <2>1 DEF LocksOK
    <3>3. CASE Intern(t)
      BY <1>1, <3>1, <3>2, <3>3 DEF Intern, Typed
    <3>4. QED BY <3>2, <3>3
  <2>3. now'[u] >= now[u] /\ now'[u] \in Nat /\ now[u] \in Nat
        /\ held_since[u] \in [Lock -> Nat]
    <3>1. now'[u] \in Nat /\ now[u] \in Nat /\ held_since[u] \in [Lock -> Nat]
      BY <1>1 DEF Typed
    <3>2. CASE u = t
      BY <3>1, <3>2
    <3>3. CASE u # t
      BY <3>1, <3>3
    <3>4. QED BY <3>1, <3>2, <3>3
  <2>4. \A l \in Lock : depth[u][l] > 0 => held_since[u][l] < now'[u]
    BY <2>1, <2>3 DEF LocksOK
  <2>5. QED BY <2>1, <2>2, <2>4 DEF LocksOK
<1>3. ASSUME NEW u \in Thread
      PROVE  /\ DataOK(u, Data(u), unflushed[u], now[u])'
             /\ \A r \in NewRecords(u) : RecordOK(u, r)
  <2> DEFINE e == [mem |-> mem_state'[u], flushed |-> flushed_mem_state'[u],
                   records |-> race_likely_stores'[u], dropped |-> dropped'[u],
                   irh |-> irh']
  <2>1. Data(u)' = e
    BY DEF Data
  <2>2. /\ \A b \in DOMAIN e.mem :
              StoreOK(u, e.mem[b], now'[u]) /\ <<e.mem[b].backtrace, b>> \in unflushed'[u]
        /\ \A b \in DOMAIN e.flushed :
              /\ StoreOK(u, e.flushed[b], now'[u])
              /\ <<e.flushed[b].backtrace, b>> \notin unflushed'[u]
        /\ \A r \in e.records \ race_likely_stores[u] : RecordOK(u, r)
    <3>1. CASE u = t
      <4>1. e.mem = d.mem /\ e.flushed = d.flushed /\ e.records = d.records
        BY <1>1, <3>1 DEF Become, Typed
      <4>2. QED BY <3>1, <4>1 DEF DataOK
    <3>2. CASE u # t
      <4>1. /\ e.mem = mem_state[u] /\ e.flushed = flushed_mem_state[u]
            /\ e.records = race_likely_stores[u]
        BY <1>1, <3>2 DEF Become, Typed
      <4>2. DataOK(u, Data(u), unflushed[u], now[u])
        BY DEF WindowInv
      <4>3. QED BY <3>2, <4>1, <4>2 DEF DataOK, Data
    <3>3. QED BY <3>1, <3>2
  <2>3. IsData(e)
    BY DEF IsData
  <2>4. e.records = race_likely_stores'[u]
    OBVIOUS
  <2> HIDE DEF e
  <2>5. DataOK(u, Data(u), unflushed[u], now[u])'
    BY <1>1, <2>1, <2>2, <2>3, <2>4 DEF DataOK
  <2>6. QED BY <2>2, <2>4, <2>5 DEF NewRecords
<1>4. QED BY <1>2, <1>3 DEF WindowInv, NewOK

(* A step that leaves the maps of u alone and spoils none of its stores.    *)
LEMMA DataKept ==
  ASSUME NEW u \in Thread, DataOK(u, Data(u), unflushed[u], now[u]),
         mem_state'[u] = mem_state[u], flushed_mem_state'[u] = flushed_mem_state[u],
         race_likely_stores'[u] = race_likely_stores[u], unflushed'[u] = unflushed[u],
         \A data : StoreOK(u, data, now[u]) => StoreOK(u, data, now[u])'
  PROVE  /\ DataOK(u, Data(u), unflushed[u], now[u])'
         /\ \A r \in NewRecords(u) : RecordOK(u, r)
<1> DEFINE e == [mem |-> mem_state'[u], flushed |-> flushed_mem_state'[u],
                 records |-> race_likely_stores'[u], dropped |-> dropped'[u],
                 irh |-> irh']
<1>1. Data(u)' = e
  BY DEF Data
<1>2. /\ IsData(e) /\ e.mem = mem_state[u] /\ e.flushed = flushed_mem_state[u]
      /\ e.records = race_likely_stores'[u]
  BY DEF IsData
<1>3. /\ \A b \in DOMAIN mem_state[u] :
            /\ StoreOK(u, mem_state[u][b], now[u])
            /\ <<mem_state[u][b].backtrace, b>> \in unflushed[u]
      /\ \A b \in DOMAIN flushed_mem_state[u] :
            /\ StoreOK(u, flushed_mem_state[u][b], now[u])
            /\ <<flushed_mem_state[u][b].backtrace, b>> \notin unflushed[u]
  BY DEF DataOK, Data
<1> HIDE DEF e
<1>4. /\ \A b \in DOMAIN Data(u)'.mem :
            /\ StoreOK(u, Data(u).mem[b], now[u])'
            /\ <<Data(u)'.mem[b].backtrace, b>> \in unflushed'[u]
      /\ \A b \in DOMAIN Data(u)'.flushed :
            /\ StoreOK(u, Data(u).flushed[b], now[u])'
            /\ <<Data(u)'.flushed[b].backtrace, b>> \notin unflushed'[u]
  BY <1>1, <1>2, <1>3
<1>5. DataOK(u, Data(u), unflushed[u], now[u])'
  BY <1>1, <1>2, <1>4 DEF DataOK
<1>6. QED BY <1>5 DEF NewRecords

LEMMA OthersKept ==
  ASSUME NEW u \in Thread, LocksOK(u), DataOK(u, Data(u), unflushed[u], now[u]),
         mem_state'[u] = mem_state[u], flushed_mem_state'[u] = flushed_mem_state[u],
         race_likely_stores'[u] = race_likely_stores[u], unflushed'[u] = unflushed[u],
         current_timedlockset'[u] = current_timedlockset[u],
         cached_timedlockset'[u] \in {{}, {current_timedlockset[u]}},
         lock_clock'[u] = lock_clock[u], acquisitions'[u] = acquisitions[u],
         depth'[u] = depth[u], held_since'[u] = held_since[u], nested'[u] = nested[u],
         now'[u] = now[u]
  PROVE  /\ LocksOK(u)' /\ DataOK(u, Data(u), unflushed[u], now[u])'
         /\ \A r \in NewRecords(u) : RecordOK(u, r)
<1>1. LocksOK(u)'
  BY DEF LocksOK
<1>2. \A data : StoreOK(u, data, now[u]) => StoreOK(u, data, now[u])'
  BY DEF StoreOK, HeldThroughout
<1>3. QED BY <1>1, <1>2, DataKept

LEMMA AcquireKeeps ==
  ASSUME WindowInv, Typed', NEW t \in Thread, NEW l \in Lock, AcquireLock(t, l)
  PROVE  WindowInv' /\ NewOK
<1>1. /\ UNCHANGED <<mem_state, flushed_mem_state, race_likely_stores, unflushed>>
      /\ current_timedlockset'[t] = TimedLock(current_timedlockset[t], l, lock_clock[t])
      /\ cached_timedlockset'[t] = {}
      /\ lock_clock'[t] = NextId(lock_clock[t])
      /\ acquisitions'[t] = acquisitions[t] + 1
      /\ now'[t] = now[t] + 1
      /\ depth'[t][l] = depth[t][l] + 1
      /\ held_since'[t][l] = IF depth[t][l] = 0 THEN now[t] ELSE held_since[t][l]
      /\ \A k \in Lock \ {l} :
           depth'[t][k] = depth[t][k] /\ held_since'[t][k] = held_since[t][k]
      /\ nested'[t] = IF depth[t][l] > 0 THEN nested[t] \cup {l} ELSE nested[t]
  BY DEF AcquireLock, AfterProcessLock, cache, report, fate, WindowInv, Typed
<1>2. ASSUME NEW u \in Thread \ {t}
      PROVE  /\ LocksOK(u)' /\ DataOK(u, Data(u), unflushed[u], now[u])'
             /\ \A r \in NewRecords(u) : RecordOK(u, r)
  <2>1. LocksOK(u) /\ DataOK(u, Data(u), unflushed[u], now[u])
    BY DEF WindowInv
  <2>2. /\ current_timedlockset'[u] = current_timedlockset[u]
        /\ cached_timedlockset'[u] = cached_timedlockset[u]
        /\ lock_clock'[u] = lock_clock[u] /\ acquisitions'[u] = acquisitions[u]
        /\ depth'[u] = depth[u] /\ held_since'[u] = held_since[u]
        /\ nested'[u] = nested[u] /\ now'[u] = now[u]
    BY DEF AcquireLock, AfterProcessLock, WindowInv, Typed
  <2>3. cached_timedlockset'[u] \in {{}, {current_timedlockset[u]}}
    BY <2>1, <2>2 DEF LocksOK
  <2>4. QED BY <1>1, <2>1, <2>2, <2>3, OthersKept
<1>3. LocksOK(t) /\ DataOK(t, Data(t), unflushed[t], now[t])
  BY DEF WindowInv
<1>4. /\ lock_clock[t] \in Nat /\ now[t] \in Nat /\ acquisitions[t] \in Nat
      /\ ClockModulus \in Nat
      /\ depth[t] \in [Lock -> Nat] /\ held_since[t] \in [Lock -> Nat]
  BY PersistAssumption DEF WindowInv, Typed
<1>5. /\ DOMAIN current_timedlockset'[t] = DOMAIN current_timedlockset[t] \cup {l}
      /\ current_timedlockset'[t][l] = lock_clock[t]
      /\ \A k \in DOMAIN current_timedlockset[t] \ {l} :
           current_timedlockset'[t][k] = current_timedlockset[t][k]
  BY <1>1 DEF TimedLock
<1>6. LocksOK(t)'
  <2>1. acquisitions'[t] < ClockModulus => lock_clock'[t] = acquisitions'[t]
    BY <1>1, <1>3, <1>4 DEF LocksOK, NextId
  <2>2. ASSUME NEW k \in DOMAIN current_timedlockset'[t]
        PROVE  /\ k \in Lock /\ depth'[t][k] > 0
               /\ current_timedlockset'[t][k] \in Nat
               /\ acquisitions'[t] <= ClockModulus =>
                    current_timedlockset'[t][k] < acquisitions'[t]
    <3>1. CASE k = l
      BY <1>1, <1>3, <1>4, <1>5, <3>1 DEF LocksOK
    <3>2. CASE k # l
      BY <1>1, <1>3, <1>4, <1>5, <3>2 DEF LocksOK
    <3>3. QED BY <3>1, <3>2
  <2>5. ASSUME NEW k \in Lock, depth'[t][k] > 0
        PROVE  held_since'[t][k] < now'[t]
    <3>1. CASE k = l
      BY <1>1, <1>3, <1>4, <3>1 DEF LocksOK
    <3>2. CASE k # l
      BY <1>1, <1>3, <1>4, <2>5, <3>2 DEF LocksOK
    <3>3. QED BY <3>1, <3>2
  <2>3. ASSUME NEW k \in Lock \ nested'[t]
        PROVE  /\ depth'[t][k] \in {0, 1}
               /\ depth'[t][k] = 1 => k \in DOMAIN current_timedlockset'[t]
    BY <1>1, <1>3, <1>4, <1>5 DEF LocksOK
  <2>4. QED BY <1>1, <2>1, <2>2, <2>3, <2>5 DEF LocksOK
<1>7. ASSUME NEW data, StoreOK(t, data, now[t])
      PROVE  StoreOK(t, data, now[t])'
  <2>1. data.backtrace \in Nat /\ data.backtrace < now'[t]
    BY <1>1, <1>4, <1>7 DEF StoreOK
  <2>2. ASSUME acquisitions'[t] <= ClockModulus, NEW k \in DOMAIN data.timed_lockset
        PROVE  /\ data.timed_lockset[k] \in Nat
               /\ data.timed_lockset[k] < acquisitions'[t]
               /\ k \in CommonLocks(current_timedlockset'[t], data.timed_lockset) =>
                    held_since'[t][k] < data.backtrace
    <3>1. /\ data.timed_lockset[k] \in Nat
          /\ data.timed_lockset[k] < acquisitions[t]
          /\ k \in CommonLocks(current_timedlockset[t], data.timed_lockset) =>
               held_since[t][k] < data.backtrace
      BY <1>1, <1>4, <1>7, <2>2 DEF StoreOK
    <3>2. lock_clock[t] = acquisitions[t]
      BY <1>1, <1>3, <1>4, <2>2 DEF LocksOK
    <3>3. CASE k = l
      BY <1>1, <1>4, <1>5, <3>1, <3>2, <3>3 DEF CommonLocks
    <3>4. CASE k # l
      <4>1. k \in CommonLocks(current_timedlockset'[t], data.timed_lockset) =>
              k \in CommonLocks(current_timedlockset[t], data.timed_lockset) /\ k \in Lock
        BY <1>3, <1>5, <3>4 DEF CommonLocks, LocksOK
      <4>2. QED BY <1>1, <1>4, <3>1, <3>4, <4>1
    <3>5. QED BY <3>3, <3>4
  <2>3. ASSUME NEW k \in HeldThroughout(t, data.backtrace)' \ nested'[t]
        PROVE  k \in CommonLocks(current_timedlockset'[t], data.timed_lockset)
    <3>1. k \in Lock /\ depth'[t][k] > 0 /\ held_since'[t][k] < data.backtrace
      BY <2>3 DEF HeldThroughout
    <3>2. k # l
      BY <1>1, <1>4, <1>7, <2>3, <3>1 DEF StoreOK
    <3>3. k \in HeldThroughout(t, data.backtrace) \ nested[t]
      BY <1>1, <2>3, <3>1, <3>2 DEF HeldThroughout
    <3>4. k \in CommonLocks(current_timedlockset[t], data.timed_lockset)
      BY <1>7, <3>3 DEF StoreOK
    <3>5. QED BY <1>5, <3>2, <3>4 DEF CommonLocks
  <2>4. QED BY <2>1, <2>2, <2>3 DEF StoreOK
<1>8. /\ DataOK(t, Data(t), unflushed[t], now[t])'
      /\ \A r \in NewRecords(t) : RecordOK(t, r)
  BY <1>1, <1>3, <1>7, DataKept
<1>9. QED BY <1>2, <1>6, <1>8 DEF WindowInv, NewOK

LEMMA ReleaseKeeps ==
  ASSUME WindowInv, Typed', NEW t \in Thread, NEW l \in Lock, ReleaseLock(t, l)
  PROVE  WindowInv' /\ NewOK
<1>1. /\ UNCHANGED <<mem_state, flushed_mem_state, race_likely_stores, unflushed,
                     lock_clock, acquisitions, now, held_since, nested>>
      /\ current_timedlockset'[t] = TimedUnlock(current_timedlockset[t], l)
      /\ cached_timedlockset'[t] = {}
      /\ depth[t][l] > 0 /\ depth'[t][l] = depth[t][l] - 1
      /\ \A k \in Lock \ {l} : depth'[t][k] = depth[t][k]
  BY DEF ReleaseLock, AfterProcessLock, cache, report, time, fate, WindowInv, Typed
<1>2. ASSUME NEW u \in Thread \ {t}
      PROVE  /\ LocksOK(u)' /\ DataOK(u, Data(u), unflushed[u], now[u])'
             /\ \A r \in NewRecords(u) : RecordOK(u, r)
  <2>1. LocksOK(u) /\ DataOK(u, Data(u), unflushed[u], now[u])
    BY DEF WindowInv
  <2>2. /\ current_timedlockset'[u] = current_timedlockset[u]
        /\ cached_timedlockset'[u] = cached_timedlockset[u]
        /\ depth'[u] = depth[u]
    BY DEF ReleaseLock, AfterProcessLock, WindowInv, Typed
  <2>3. cached_timedlockset'[u] \in {{}, {current_timedlockset[u]}}
    BY <2>1, <2>2 DEF LocksOK
  <2>4. QED BY <1>1, <2>1, <2>2, <2>3, OthersKept
<1>3. /\ LocksOK(t) /\ DataOK(t, Data(t), unflushed[t], now[t])
      /\ depth[t] \in [Lock -> Nat]
  BY DEF WindowInv, Typed
<1>4. /\ DOMAIN current_timedlockset'[t] = DOMAIN current_timedlockset[t] \ {l}
      /\ \A k \in DOMAIN current_timedlockset[t] \ {l} :
           current_timedlockset'[t][k] = current_timedlockset[t][k]
  BY <1>1 DEF TimedUnlock
<1>5. LocksOK(t)'
  BY <1>1, <1>3, <1>4 DEF LocksOK
<1>6. ASSUME NEW data, StoreOK(t, data, now[t])
      PROVE  StoreOK(t, data, now[t])'
  <2>1. CommonLocks(current_timedlockset'[t], data.timed_lockset) =
          CommonLocks(current_timedlockset[t], data.timed_lockset) \ {l}
    BY <1>4 DEF CommonLocks
  <2>2. ASSUME NEW k \in HeldThroughout(t, data.backtrace)' \ nested'[t]
        PROVE  k \in CommonLocks(current_timedlockset'[t], data.timed_lockset)
    <3>1. /\ k \in Lock \ nested[t] /\ depth'[t][k] > 0
          /\ held_since[t][k] < data.backtrace
      BY <1>1, <2>2 DEF HeldThroughout
    <3>2. k # l
      BY <1>1, <1>3, <3>1 DEF LocksOK
    <3>3. k \in HeldThroughout(t, data.backtrace) \ nested[t]
      BY <1>1, <3>1, <3>2 DEF HeldThroughout
    <3>4. QED BY <1>6, <2>1, <3>2, <3>3 DEF StoreOK
  <2>3. QED BY <1>1, <1>6, <2>1, <2>2 DEF StoreOK
<1>7. /\ DataOK(t, Data(t), unflushed[t], now[t])'
      /\ \A r \in NewRecords(t) : RecordOK(t, r)
  BY <1>1, <1>3, <1>6, DataKept
<1>8. QED BY <1>2, <1>5, <1>7 DEF WindowInv, NewOK

LEMMA WindowInit == Init => WindowInv
<1> SUFFICES ASSUME Init PROVE WindowInv
  OBVIOUS
<1>1. Typed
  BY DEF Init, Typed
<1>2. ASSUME NEW t \in Thread
      PROVE  LocksOK(t)
  BY <1>2 DEF Init, LocksOK, NoLocks
<1>3. ASSUME NEW t \in Thread
      PROVE  DataOK(t, Data(t), unflushed[t], now[t])
  <2>1. /\ IsData(Data(t)) /\ Data(t).mem = NoStores /\ Data(t).flushed = NoStores
        /\ Data(t).records = {}
    BY DEF Init, Data, IsData
  <2>2. QED BY <2>1 DEF DataOK, NoStores
<1>4. QED BY <1>1, <1>2, <1>3 DEF WindowInv

LEMMA WindowStep == WindowInv /\ [Next]_vars => WindowInv' /\ NewOK
<1> SUFFICES ASSUME WindowInv, [Next]_vars PROVE WindowInv' /\ NewOK
  OBVIOUS
<1>1. Typed /\ Typed'
  BY TypedStep DEF WindowInv
<1>2. \A t \in Thread :
        /\ LocksOK(t) /\ DataOK(t, Data(t), unflushed[t], now[t])
        /\ now[t] \in Nat /\ now[t] + 1 >= now[t]
  BY <1>1 DEF WindowInv, Typed
<1>3. ASSUME NEW t \in Thread, NEW address, NEW size,
             Store(t, address, size) \/ RMW(t, address, size)
      PROVE  WindowInv' /\ NewOK
  <2> DEFINE U == unflushed[t] \cup ({now[t]} \X Bytes(address, size))
             s == AfterStore(Data(t), t, address, size)
  <2>1. DataOK(t, s, U, now[t] + 1)
    BY <1>1, <1>2, StoreKeeps
  <2>2. DataOK(t, AfterFence(s, t), U, now[t] + 1)
    <3> HIDE DEF s
    <3>1. QED BY <1>1, <1>2, <2>1, FenceKeeps
  <2>3. /\ unflushed'[t] = U /\ now'[t] = now[t] + 1
        /\ \A u \in Thread \ {t} : now'[u] = now[u] /\ unflushed'[u] = unflushed[u]
        /\ UNCHANGED <<acquisitions>> /\ Intern(t)
        /\ UNCHANGED <<current_timedlockset, lock_clock, depth, held_since, nested>>
    BY <1>1, <1>3 DEF Store, RMW, NoteStore, owned, Typed
  <2>4. \E d : Become(t, d) /\ DataOK(t, d, unflushed'[t], now'[t])
    BY <1>3, <2>1, <2>2, <2>3 DEF Store, RMW
  <2>5. QED BY <1>1, <1>2, <2>3, <2>4, Became
<1>4. ASSUME NEW t \in Thread, NEW address, Flush(t, address)
      PROVE  WindowInv' /\ NewOK
  <2>1. /\ unflushed'[t] = {w \in unflushed[t] : CacheLine(w[2]) # CacheLine(address)}
        /\ now'[t] = now[t] /\ now'[t] >= now[t]
        /\ \A u \in Thread \ {t} : now'[u] = now[u] /\ unflushed'[u] = unflushed[u]
        /\ UNCHANGED cached_timedlockset
        /\ UNCHANGED <<current_timedlockset, lock_clock, acquisitions, depth, held_since, nested>>
    BY <1>1, <1>4 DEF Flush, locks, time, owned, Typed
  <2>2. DataOK(t, AfterFlush(Data(t), address),
               {w \in unflushed[t] : CacheLine(w[2]) # CacheLine(address)}, now[t])
    BY <1>1, <1>2, FlushKeeps
  <2>3. Become(t, AfterFlush(Data(t), address))
    BY <1>4 DEF Flush
  <2>4. \E d : Become(t, d) /\ DataOK(t, d, unflushed'[t], now'[t])
    BY <2>1, <2>2, <2>3
  <2>5. QED BY <1>1, <1>2, <2>1, <2>4, Became
<1>5. ASSUME NEW t \in Thread, Fence(t) \/ Exit(t)
      PROVE  WindowInv' /\ NewOK
  <2>1. /\ unflushed' = unflushed /\ now' = now
        /\ UNCHANGED cached_timedlockset \/ Intern(t)
        /\ UNCHANGED <<current_timedlockset, lock_clock, acquisitions, depth, held_since, nested>>
    BY <1>5 DEF Fence, Exit, time, owned
  <2>2. DataOK(t, AfterFence(Data(t), t), unflushed[t], now[t])
    BY <1>1, <1>2, FenceKeeps
  <2>3. DataOK(t, AfterExit(Data(t), t), unflushed[t], now[t])
    BY <1>1, <1>2, ExitKeeps
  <2>4. \E d : Become(t, d) /\ DataOK(t, d, unflushed'[t], now'[t])
    BY <1>5, <2>1, <2>2, <2>3 DEF Fence, Exit
  <2>5. QED BY <1>1, <1>2, <2>1, <2>4, Became
<1>6. ASSUME UNCHANGED <<current_timedlockset, lock_clock, cache, race_likely_stores,
                         now, acquisitions, owned, unflushed>>,
             UNCHANGED cached_timedlockset \/ \E t \in Thread : Intern(t)
      PROVE  WindowInv' /\ NewOK
  <2>1. ASSUME NEW u \in Thread
        PROVE  cached_timedlockset'[u] \in {{}, {current_timedlockset[u]}}
    <3>1. \A t \in Thread : Timed(t) = current_timedlockset[t]
      BY <1>2, TimedIsCurrent
    <3>2. cached_timedlockset[u] \in {{}, {current_timedlockset[u]}}
      BY <1>2 DEF LocksOK
    <3>3. CASE UNCHANGED cached_timedlockset
      BY <3>2, <3>3
    <3>4. ASSUME NEW t \in Thread, Intern(t)
          PROVE  cached_timedlockset'[u] \in {{}, {current_timedlockset[u]}}
      BY <1>1, <3>1, <3>2, <3>4 DEF Intern, Typed
    <3>5. QED BY <1>6, <3>3, <3>4
  <2>2. ASSUME NEW u \in Thread
        PROVE  /\ LocksOK(u)' /\ DataOK(u, Data(u), unflushed[u], now[u])'
               /\ \A r \in NewRecords(u) : RecordOK(u, r)
    BY <1>2, <1>6, <2>1, OthersKept DEF cache, owned
  <2>3. QED BY <1>1, <2>2 DEF WindowInv, NewOK
<1>7. ASSUME NEW t \in Thread, NEW address, NEW size, NEW backtrace,
             Load(t, address, size, backtrace)
      PROVE  WindowInv' /\ NewOK
  <2>1. UNCHANGED cached_timedlockset \/ Intern(t)
    BY <1>7 DEF Load
  <2>2. QED BY <1>6, <1>7, <2>1 DEF Load
<1>8. ASSUME NEW t \in Thread, NextSegment(t)
      PROVE  WindowInv' /\ NewOK
  BY <1>6, <1>8 DEF NextSegment, locks, report, time, fate
<1>9. CASE UNCHANGED vars
  BY <1>6, <1>9 DEF vars, locks, report, time, fate
<1>10. ASSUME NEW t \in Thread, NEW l \in Lock, AcquireLock(t, l) \/ ReleaseLock(t, l)
       PROVE  WindowInv' /\ NewOK
  BY <1>1, <1>10, AcquireKeeps, ReleaseKeeps
<1>11. QED BY <1>3, <1>4, <1>5, <1>7, <1>8, <1>9, <1>10 DEF Next, Step, Finished

-----------------------------------------------------------------------------
LEMMA RecordsOK == Spec => [][NewOK]_vars
<1>1. WindowInv /\ [Next]_vars => [NewOK]_vars
  BY WindowStep
<1>2. WindowInv /\ [Next]_vars => WindowInv'
  BY WindowStep
<1>3. QED BY <1>1, <1>2, WindowInit, PTL DEF Spec

(* A record never claims a lock that its thread gave up in the window,      *)
(* within the first ClockModulus acquisitions of the thread.               *)
THEOREM ProtectionTrue == Spec => NoFalseProtection
<1>1. [NewOK]_vars =>
        [\A t \in Thread : acquisitions[t] <= ClockModulus =>
           \A r \in NewRecords(t) :
             r.common_set \subseteq HeldThroughout(t, r.write_trace)]_vars
  BY DEF NewOK, RecordOK
<1>2. QED BY <1>1, RecordsOK, PTL DEF NoFalseProtection

(* A record names every lock held over the whole window that its thread     *)
(* never took recursively, whatever timestamps wrap.                       *)
THEOREM ProtectionKept == Spec => NoMissedProtection
<1>1. [NewOK]_vars =>
        [\A t \in Thread : \A r \in NewRecords(t) :
           HeldThroughout(t, r.write_trace) \ nested[t] \subseteq r.common_set]_vars
  BY DEF NewOK, RecordOK
<1>2. QED BY <1>1, RecordsOK, PTL DEF NoMissedProtection

(* A record says of its store what its thread has done: flushed its line    *)
(* after it, and fenced.                                                   *)
THEOREM FlushesTold == Spec => FlushTracked
<1>1. [NewOK]_vars =>
        [\A t \in Thread : \A r \in NewRecords(t) :
           /\ r.was_flushed <=> <<r.write_trace, r.address>> \notin unflushed[t]
           /\ r.persisted <=> r.fence_trace = "fence"
           /\ r.persisted => r.was_flushed]_vars
  BY DEF NewOK, RecordOK
<1>2. QED BY <1>1, RecordsOK, PTL DEF FlushTracked

-----------------------------------------------------------------------------
(* No store is lost *)

Entries(f, asked) == {<<f[b].backtrace, b>> : b \in asked}

RecordedIn(records) == {<<r.write_trace, r.address>> : r \in records}

(* The store bytes W, made before the time n, are divided among the pending *)
(* ones P, the records and the ignored ones.                               *)
Divided(d, P, W) ==
  /\ IsData(d)
  /\ W = P \cup RecordedIn(d.records) \cup d.dropped
  /\ RecordedIn(d.records) \cap d.dropped = {}
  /\ P \cap (RecordedIn(d.records) \cup d.dropped) = {}

PendingIn(d) == Entries(d.mem, DOMAIN d.mem) \cup Entries(d.flushed, DOMAIN d.flushed)

Apart(d) == DOMAIN d.mem \cap DOMAIN d.flushed = {}

AccountsInv ==
  /\ Typed
  /\ DOMAIN written = Thread /\ DOMAIN dropped = Thread /\ DOMAIN exited = Thread
  /\ \A t \in Thread :
       /\ \A w \in written[t] : w[1] \in Nat /\ w[1] < now[t]
       /\ written[t] = Pending(t) \cup Recorded(t) \cup dropped[t]
       /\ Recorded(t) \cap dropped[t] = {}
       /\ ~exited[t] =>
            /\ Pending(t) \cap (Recorded(t) \cup dropped[t]) = {}
            /\ Apart(Data(t))

(* Asking about pending bytes moves them to the records or the ignored ones. *)
LEMMA RegisterDivides ==
  ASSUME NEW d, NEW P, NEW W, Divided(d, P, W), NEW t, NEW f, NEW asked, NEW end,
         NEW persisted \in BOOLEAN, NEW was_flushed \in BOOLEAN,
         Entries(f, asked) \subseteq P
  PROVE  /\ Divided(Register(d, t, f, asked, end, persisted, was_flushed),
                    P \ Entries(f, asked), W)
         /\ KeepsMaps(Register(d, t, f, asked, end, persisted, was_flushed), d)
<1> DEFINE e == Register(d, t, f, asked, end, persisted, was_flushed)
           reported == ReportedBytes(d.irh, t, asked, N)
           records == {Record(t, b, f[b], end, persisted, was_flushed) : b \in reported}
           D == d.dropped \cup Entries(f, asked \ reported)
           I == AfterBytes(d.irh, t, asked, N)
<1>1. e = [mem |-> d.mem, flushed |-> d.flushed, records |-> d.records \cup records,
           dropped |-> D, irh |-> I]
  BY RegisterIs DEF Divided, Entries
<1>2. reported \subseteq asked
  BY DEF ReportedBytes
<1> DEFINE Made(b) == Record(t, b, f[b], end, persisted, was_flushed)
<1>3. RecordedIn(records) = Entries(f, reported)
  <2>1. \A b : Made(b).write_trace = f[b].backtrace /\ Made(b).address = b
    BY DEF Record
  <2>2. records = {Made(b) : b \in reported}
    OBVIOUS
  <2> HIDE DEF Made, records, reported
  <2>3. QED BY <2>1, <2>2 DEF RecordedIn, Entries
<1> HIDE DEF e, records, D, I, reported
<1>4. /\ IsData(e) /\ e.mem = d.mem /\ e.flushed = d.flushed
      /\ e.records = d.records \cup records /\ e.dropped = D
  BY <1>1 DEF IsData
<1>5. RecordedIn(e.records) = RecordedIn(d.records) \cup Entries(f, reported)
  BY <1>3, <1>4 DEF RecordedIn
<1>6. /\ Entries(f, asked) = Entries(f, reported) \cup Entries(f, asked \ reported)
      /\ Entries(f, reported) \cap Entries(f, asked \ reported) = {}
  BY <1>2 DEF Entries
<1>7. Divided(e, P \ Entries(f, asked), W)
  BY <1>4, <1>5, <1>6 DEF Divided, D
<1>8. QED BY <1>4, <1>7 DEF e, KeepsMaps

LEMMA StoreDivides ==
  ASSUME CheckUnpersisted, NEW t, NEW address, NEW size, NEW W, NEW n \in Nat, now[t] = n,
         Divided(Data(t), PendingIn(Data(t)), W), Apart(Data(t)),
         \A w \in W : w[1] \in Nat /\ w[1] < n
  PROVE  LET s == AfterStore(Data(t), t, address, size)
         IN  /\ Divided(s, PendingIn(s), W \cup ({n} \X Bytes(address, size)))
             /\ Apart(s)
<1> DEFINE bytes == Bytes(address, size)
           h == HandleAccess(irh, t, address, size, N)
           d == [Data(t) EXCEPT !.irh = h.irh]
           P == PendingIn(Data(t))
           e == Register(d, t, d.mem, bytes \cap DOMAIN d.mem, "store", FALSE, FALSE)
           g == Register(e, t, d.flushed, bytes \cap DOMAIN d.flushed,
                         "store", FALSE, TRUE)
           w == [g EXCEPT !.flushed = Without(g.flushed, bytes)]
           data == [timed_lockset |-> Timed(t), backtrace |-> n]
           new == [b \in bytes |-> data]
           s == [w EXCEPT !.mem = Over(new, w.mem)]
           P1 == P \ Entries(d.mem, bytes \cap DOMAIN d.mem)
           P2 == P1 \ Entries(d.flushed, bytes \cap DOMAIN d.flushed)
<1>1. AfterStore(Data(t), t, address, size) = s
  BY DEF AfterStore, Overwritten, Data
<1>2. d = [mem |-> Data(t).mem, flushed |-> Data(t).flushed,
           records |-> Data(t).records, dropped |-> Data(t).dropped, irh |-> h.irh]
  BY Setting DEF Divided
<1> HIDE DEF h, d
<1>3. Divided(d, P, W) /\ Apart(d) /\ P = PendingIn(d)
  BY <1>2 DEF Divided, Apart, PendingIn, IsData
<1>4. Divided(e, P1, W) /\ KeepsMaps(e, d)
  <2>1. Entries(d.mem, bytes \cap DOMAIN d.mem) \subseteq P
    BY <1>3 DEF PendingIn, Entries
  <2>2. QED BY <1>3, <2>1, RegisterDivides
<1> HIDE DEF e
<1>5. Divided(g, P2, W) /\ KeepsMaps(g, e)
  <2>1. Entries(d.flushed, bytes \cap DOMAIN d.flushed) \subseteq P1
    BY <1>3 DEF PendingIn, Entries, Apart
  <2>2. QED BY <1>4, <2>1, RegisterDivides
<1> HIDE DEF g
<1>6. w = [mem |-> g.mem, flushed |-> Without(g.flushed, bytes),
           records |-> g.records, dropped |-> g.dropped, irh |-> g.irh]
  BY <1>5, Setting DEF Divided
<1> HIDE DEF w
<1>7. IsData(w)
  BY <1>6 DEF IsData
<1>8. s = [mem |-> Over(new, w.mem), flushed |-> w.flushed, records |-> w.records,
           dropped |-> w.dropped, irh |-> w.irh]
  BY <1>7, Setting
<1> HIDE DEF s
<1>9. /\ IsData(s) /\ s.mem = Over(new, d.mem)
      /\ s.flushed = Without(d.flushed, bytes)
      /\ s.records = g.records /\ s.dropped = g.dropped
  BY <1>4, <1>5, <1>6, <1>8 DEF KeepsMaps, IsData
<1>10. Apart(s)
  BY <1>3, <1>9 DEF Apart, Over, Without
<1>11. PendingIn(s) = P2 \cup ({n} \X bytes)
  <2>1. /\ DOMAIN s.mem = DOMAIN d.mem \cup bytes
        /\ \A b \in bytes : s.mem[b].backtrace = n
        /\ \A b \in DOMAIN d.mem \ bytes : s.mem[b] = d.mem[b]
        /\ DOMAIN s.flushed = DOMAIN d.flushed \ bytes
        /\ \A b \in DOMAIN s.flushed : s.flushed[b] = d.flushed[b]
    BY <1>9 DEF Over, Without
  <2>2. P2 = Entries(d.mem, DOMAIN d.mem \ bytes)
               \cup Entries(d.flushed, DOMAIN d.flushed \ bytes)
    BY <1>3 DEF PendingIn, Entries, Apart
  <2>3. Entries(s.mem, DOMAIN s.mem) =
          Entries(d.mem, DOMAIN d.mem \ bytes) \cup ({n} \X bytes)
    BY <2>1 DEF Entries
  <2>4. Entries(s.flushed, DOMAIN s.flushed) =
          Entries(d.flushed, DOMAIN d.flushed \ bytes)
    BY <2>1 DEF Entries
  <2>5. QED BY <2>2, <2>3, <2>4 DEF PendingIn
<1>12. \A x \in {n} \X bytes : x \notin W
  OBVIOUS
<1> HIDE DEF P2
<1>13. Divided(s, PendingIn(s), W \cup ({n} \X bytes))
  BY <1>5, <1>9, <1>11, <1>12 DEF Divided
<1>14. QED BY <1>1, <1>10, <1>13

LEMMA FlushDivides ==
  ASSUME NEW d, NEW W, NEW address, Divided(d, PendingIn(d), W), Apart(d)
  PROVE  LET f == AfterFlush(d, address) IN Divided(f, PendingIn(f), W) /\ Apart(f)
<1> DEFINE line == InLine(d.mem, address)
           moved == Over(Only(d.mem, line), d.flushed)
           e == [d EXCEPT !.flushed = moved]
           f == [e EXCEPT !.mem = Without(e.mem, line)]
<1>1. e = [mem |-> d.mem, flushed |-> moved, records |-> d.records,
           dropped |-> d.dropped, irh |-> d.irh]
  BY Setting DEF Divided
<1>2. AfterFlush(d, address) = f
  <2>1. e.mem = d.mem
    <3> HIDE DEF e
    <3>1. QED BY <1>1
  <2>2. QED BY <2>1 DEF AfterFlush
<1> HIDE DEF e, moved
<1>3. IsData(e) /\ e.mem = d.mem
  BY <1>1 DEF IsData
<1>4. f = [mem |-> Without(d.mem, line), flushed |-> moved, records |-> d.records,
           dropped |-> d.dropped, irh |-> d.irh]
  BY <1>1, <1>3, Setting, SMTT(30)
<1> HIDE DEF f
<1>5. line \subseteq DOMAIN d.mem
  BY DEF InLine
<1> HIDE DEF line
<1>6. /\ IsData(f) /\ f.records = d.records /\ f.dropped = d.dropped
      /\ DOMAIN f.mem = DOMAIN d.mem \ line
      /\ \A b \in DOMAIN f.mem : f.mem[b] = d.mem[b]
      /\ DOMAIN f.flushed = DOMAIN d.flushed \cup line
      /\ \A b \in line : f.flushed[b] = d.mem[b]
      /\ \A b \in DOMAIN d.flushed \ line : f.flushed[b] = d.flushed[b]
  BY <1>4, <1>5 DEF IsData, moved, Over, Only, Without
<1>7. Apart(f)
  BY <1>5, <1>6 DEF Apart
<1>8. PendingIn(f) = PendingIn(d)
  BY <1>5, <1>6 DEF PendingIn, Entries, Apart
<1>9. Divided(f, PendingIn(f), W)
  BY <1>6, <1>8 DEF Divided
<1>10. QED BY <1>2, <1>7, <1>9

LEMMA FenceDivides ==
  ASSUME NEW d, NEW W, NEW t, Divided(d, PendingIn(d), W), Apart(d)
  PROVE  LET f == AfterFence(d, t) IN Divided(f, PendingIn(f), W) /\ Apart(f)
<1> DEFINE e == Register(d, t, d.flushed, DOMAIN d.flushed, "fence", TRUE, TRUE)
           f == [e EXCEPT !.flushed = NoStores]
           P == PendingIn(d) \ Entries(d.flushed, DOMAIN d.flushed)
<1>1. AfterFence(d, t) = f
  BY DEF AfterFence
<1>2. Divided(e, P, W) /\ KeepsMaps(e, d)
  <2>1. Entries(d.flushed, DOMAIN d.flushed) \subseteq PendingIn(d)
    BY DEF PendingIn
  <2>2. QED BY <2>1, RegisterDivides
<1> HIDE DEF e
<1>3. f = [mem |-> e.mem, flushed |-> NoStores, records |-> e.records,
           dropped |-> e.dropped, irh |-> e.irh]
  BY <1>2, Setting DEF Divided
<1> HIDE DEF f
<1>4. /\ IsData(f) /\ f.mem = d.mem /\ f.flushed = NoStores
      /\ f.records = e.records /\ f.dropped = e.dropped
  BY <1>2, <1>3 DEF KeepsMaps, IsData
<1>5. Apart(f)
  BY <1>4 DEF Apart, NoStores
<1>6. PendingIn(f) = P
  BY <1>4 DEF PendingIn, Entries, Apart, NoStores
<1> HIDE DEF P
<1>7. Divided(f, PendingIn(f), W)
  BY <1>2, <1>4, <1>6 DEF Divided
<1>8. QED BY <1>1, <1>5, <1>7

LEMMA ExitDivides ==
  ASSUME CheckUnpersisted, NEW d, NEW W, NEW t, Divided(d, PendingIn(d), W), Apart(d)
  PROVE  LET f == AfterExit(d, t)
         IN  /\ W = PendingIn(f) \cup RecordedIn(f.records) \cup f.dropped
             /\ RecordedIn(f.records) \cap f.dropped = {}
<1> DEFINE e == Register(d, t, d.mem, DOMAIN d.mem, "exit", FALSE, FALSE)
           f == Register(e, t, d.flushed, DOMAIN d.flushed, "exit", FALSE, TRUE)
           P == PendingIn(d) \ Entries(d.mem, DOMAIN d.mem)
           Q == P \ Entries(d.flushed, DOMAIN d.flushed)
<1>1. AfterExit(d, t) = f
  BY DEF AfterExit
<1>2. Divided(e, P, W) /\ KeepsMaps(e, d)
  <2>1. Entries(d.mem, DOMAIN d.mem) \subseteq PendingIn(d)
    BY DEF PendingIn
  <2>2. QED BY <2>1, RegisterDivides
<1> HIDE DEF e
<1>3. Divided(f, Q, W) /\ KeepsMaps(f, e)
  <2>1. Entries(d.flushed, DOMAIN d.flushed) \subseteq P
    BY DEF PendingIn, Entries, Apart
  <2>2. QED BY <1>2, <2>1, RegisterDivides
<1> HIDE DEF f
<1>4. PendingIn(f) = PendingIn(d)
  BY <1>2, <1>3 DEF PendingIn, KeepsMaps
<1>5. PendingIn(d) \subseteq W
  BY DEF Divided
<1>6. Q = {}
  BY DEF PendingIn
<1>7. QED BY <1>1, <1>3, <1>4, <1>5, <1>6 DEF Divided

(* A handler of t whose data accounts for the stores of t.                  *)
LEMMA Accounted ==
  ASSUME AccountsInv, Typed', NEW t \in Thread, NEW d, Become(t, d),
         \A w \in written'[t] : w[1] \in Nat /\ w[1] < now'[t],
         written'[t] = PendingIn(d) \cup RecordedIn(d.records) \cup d.dropped,
         RecordedIn(d.records) \cap d.dropped = {},
         ~exited'[t] => /\ PendingIn(d) \cap (RecordedIn(d.records) \cup d.dropped) = {}
                        /\ Apart(d),
         DOMAIN written' = Thread, DOMAIN exited' = Thread,
         \A u \in Thread \ {t} :
           written'[u] = written[u] /\ now'[u] = now[u] /\ exited'[u] = exited[u]
  PROVE  AccountsInv'
<1>1. /\ mem_state'[t] = d.mem /\ flushed_mem_state'[t] = d.flushed
      /\ race_likely_stores'[t] = d.records /\ dropped'[t] = d.dropped
      /\ DOMAIN dropped' = Thread
      /\ \A u \in Thread \ {t} :
           /\ mem_state'[u] = mem_state[u] /\ flushed_mem_state'[u] = flushed_mem_state[u]
           /\ race_likely_stores'[u] = race_likely_stores[u] /\ dropped'[u] = dropped[u]
  BY DEF Become, AccountsInv, Typed
<1>2. Pending(t)' = PendingIn(d) /\ Recorded(t)' = RecordedIn(d.records)
  BY <1>1 DEF Pending, PendingIn, Entries, Recorded, RecordedIn
<1>3. Apart(Data(t))' <=> Apart(d)
  BY <1>1 DEF Apart, Data
<1>4. \A u \in Thread \ {t} :
        /\ Pending(u)' = Pending(u) /\ Recorded(u)' = Recorded(u)
        /\ Apart(Data(u))' <=> Apart(Data(u))
  BY <1>1 DEF Pending, Recorded, Apart, Data
<1>5. QED BY <1>1, <1>2, <1>3, <1>4 DEF AccountsInv

LEMMA AccountsKept ==
  ASSUME AccountsInv, Typed',
         UNCHANGED <<cache, race_likely_stores, exited, written, dropped>>,
         \A t \in Thread : now'[t] >= now[t]
  PROVE  AccountsInv'
<1>1. \A t \in Thread :
        /\ Pending(t)' = Pending(t) /\ Recorded(t)' = Recorded(t)
        /\ Apart(Data(t))' <=> Apart(Data(t))
        /\ written'[t] = written[t] /\ exited'[t] = exited[t] /\ dropped'[t] = dropped[t]
        /\ now'[t] \in Nat /\ now[t] \in Nat /\ now'[t] >= now[t]
  BY DEF Pending, Recorded, Apart, Data, cache, AccountsInv, Typed
<1>2. \A t \in Thread : \A w \in written[t] : w[1] \in Nat /\ w[1] < now'[t]
  BY <1>1 DEF AccountsInv
<1>3. DOMAIN written' = Thread /\ DOMAIN dropped' = Thread /\ DOMAIN exited' = Thread
  BY DEF AccountsInv
<1>4. QED BY <1>1, <1>2, <1>3 DEF AccountsInv

LEMMA AccountsInit == Init => AccountsInv
<1> SUFFICES ASSUME Init PROVE AccountsInv
  OBVIOUS
<1>1. Typed
  BY WindowInit DEF WindowInv
<1>2. ASSUME NEW t \in Thread
      PROVE  /\ Pending(t) = {} /\ Recorded(t) = {} /\ written[t] = {} /\ dropped[t] = {}
             /\ Apart(Data(t))
  BY DEF Init, Pending, Recorded, Apart, Data, NoStores
<1>3. QED BY <1>1, <1>2 DEF Init, AccountsInv

LEMMA AccountsStep ==
  ASSUME CheckUnpersisted, AccountsInv, [Next]_vars
  PROVE  AccountsInv'
<1>1. Typed /\ Typed'
  BY TypedStep DEF AccountsInv
<1>2. ASSUME NEW t \in Thread, ~exited[t]
      PROVE  /\ Divided(Data(t), PendingIn(Data(t)), written[t]) /\ Apart(Data(t))
             /\ \A w \in written[t] : w[1] \in Nat /\ w[1] < now[t]
             /\ now[t] \in Nat
  <2>1. /\ IsData(Data(t)) /\ PendingIn(Data(t)) = Pending(t)
        /\ RecordedIn(Data(t).records) = Recorded(t) /\ Data(t).dropped = dropped[t]
    BY DEF IsData, Data, PendingIn, Entries, Pending, RecordedIn, Recorded
  <2>2. QED BY <1>1, <1>2, <2>1 DEF AccountsInv, Divided, Typed
<1>3. ASSUME NEW t \in Thread, NEW address, NEW size,
             Store(t, address, size) \/ RMW(t, address, size)
      PROVE  AccountsInv'
  <2> DEFINE W == written[t] \cup ({now[t]} \X Bytes(address, size))
             s == AfterStore(Data(t), t, address, size)
             f == AfterFence(s, t)
  <2>1. ~exited[t]
    BY <1>3 DEF Store, RMW
  <2>2. Divided(s, PendingIn(s), W) /\ Apart(s)
    BY <1>2, <2>1, StoreDivides
  <2>3. Divided(f, PendingIn(f), W) /\ Apart(f)
    <3> HIDE DEF s, W
    <3>1. QED BY <2>2, FenceDivides
  <2>4. /\ written'[t] = W /\ now'[t] = now[t] + 1 /\ DOMAIN written' = Thread
        /\ DOMAIN exited' = Thread
        /\ \A u \in Thread \ {t} :
             written'[u] = written[u] /\ now'[u] = now[u] /\ exited'[u] = exited[u]
    BY <1>1, <1>3 DEF Store, RMW, NoteStore, AccountsInv, Typed
  <2>5. \A w \in W : w[1] \in Nat /\ w[1] < now[t] + 1
    BY <1>2, <2>1
  <2> HIDE DEF W, s
  <2>6. \E d : Become(t, d) /\ Divided(d, PendingIn(d), W) /\ Apart(d)
    BY <1>3, <2>2, <2>3 DEF Store, RMW, s
  <2>7. QED BY <1>1, <2>4, <2>5, <2>6, Accounted DEF Divided
<1>4. ASSUME NEW t \in Thread, NEW address, Flush(t, address) \/ Fence(t)
      PROVE  AccountsInv'
  <2>1. /\ ~exited[t] /\ UNCHANGED <<written, now, exited>>
    BY <1>4 DEF Flush, Fence, time
  <2>2. \E d : Become(t, d) /\ Divided(d, PendingIn(d), written[t]) /\ Apart(d)
    BY <1>2, <1>4, <2>1, FlushDivides, FenceDivides DEF Flush, Fence
  <2>3. DOMAIN written' = Thread /\ DOMAIN exited' = Thread
    BY <2>1 DEF AccountsInv
  <2>4. QED BY <1>1, <1>2, <2>1, <2>2, <2>3, Accounted DEF Divided
<1>5. ASSUME NEW t \in Thread, Exit(t)
      PROVE  AccountsInv'
  <2> DEFINE f == AfterExit(Data(t), t)
  <2>1. /\ ~exited[t] /\ UNCHANGED <<written, now>> /\ Become(t, f)
        /\ exited' = [exited EXCEPT ![t] = TRUE]
    BY <1>5 DEF Exit, time
  <2>2. /\ written[t] = PendingIn(f) \cup RecordedIn(f.records) \cup f.dropped
        /\ RecordedIn(f.records) \cap f.dropped = {}
    BY <1>2, <2>1, ExitDivides
  <2>3. /\ exited'[t] /\ DOMAIN exited' = Thread /\ DOMAIN written' = Thread
        /\ \A u \in Thread \ {t} : exited'[u] = exited[u]
    BY <2>1 DEF AccountsInv
  <2> HIDE DEF f
  <2>4. QED BY <1>1, <1>2, <2>1, <2>2, <2>3, Accounted
<1>6. ASSUME UNCHANGED <<cache, race_likely_stores, exited, written, dropped>>,
             \A t \in Thread : now'[t] >= now[t]
      PROVE  AccountsInv'
  BY <1>1, <1>6, AccountsKept
<1>7. \A t \in Thread : now[t] \in Nat /\ now[t] >= now[t]
  BY <1>1 DEF Typed
<1>8. ASSUME NEW t \in Thread, NEW address, NEW size, NEW backtrace,
             Load(t, address, size, backtrace)
      PROVE  AccountsInv'
  BY <1>6, <1>7, <1>8 DEF Load
<1>9. ASSUME NEW t \in Thread, NEW l \in Lock, AcquireLock(t, l)
      PROVE  AccountsInv'
  <2>1. \A u \in Thread : now'[u] >= now[u]
    BY <1>1, <1>7, <1>9 DEF AcquireLock, Typed
  <2>2. QED BY <1>6, <1>9, <2>1 DEF AcquireLock, report, fate
<1>10. ASSUME NEW t \in Thread, NEW l \in Lock, ReleaseLock(t, l)
       PROVE  AccountsInv'
  BY <1>6, <1>7, <1>10 DEF ReleaseLock, report, time, fate
<1>11. CASE UNCHANGED vars
  BY <1>6, <1>7, <1>11 DEF vars, report, time, fate
<1>12. ASSUME NEW t \in Thread, NextSegment(t)
       PROVE  AccountsInv'
  BY <1>6, <1>7, <1>12 DEF NextSegment, report, time, fate
<1>13. QED BY <1>3, <1>4, <1>5, <1>8, <1>9, <1>10, <1>11, <1>12
           DEF Next, Step, Finished

(* With -check_unpersisted every byte of every store is pending, recorded   *)
(* or ignored as initialisation, whatever is overwritten, flushed in part,  *)
(* fenced and left by exits; while its thread runs, only one of these.      *)
THEOREM NoStoreLost == Spec => []StoresAccounted
<1> DEFINE Inv == CheckUnpersisted => AccountsInv
<1>1. Init => Inv
  BY AccountsInit
<1>2. Inv /\ [Next]_vars => Inv'
  BY AccountsStep
<1>3. Inv => StoresAccounted
  BY DEF StoresAccounted, AccountsInv
<1>4. QED BY <1>1, <1>2, <1>3, PTL DEF Spec

-----------------------------------------------------------------------------
(* The tracker implements PersistencyWindows *)

\* The windows of the bytes `asked`, whose stores the map f holds: "mem" for
\* mem_state and "flushed" for flushed_mem_state.
WindowsOf(t, f, asked, map) ==
  {OpenWindow(t, b, f[b], map) : b \in asked}

(* The windows that the data of a handler of t leave open, and the ones it  *)
(* has closed.                                                             *)
WindowsIn(t, d) ==
  WindowsOf(t, d.mem, DOMAIN d.mem, "mem") \cup
  WindowsOf(t, d.flushed, DOMAIN d.flushed, "flushed")

ClosedIn(d) == {ClosedWindow(r) : r \in d.records}

OnBytes(W, bytes)  == {w \in W : w.byte \in bytes}
OffBytes(W, bytes) == {w \in W : w.byte \notin bytes}

ClosedAll(t, W, how) == {Windows!Closed(t, w, how) : w \in W}

\* Before a counter wraps: what a record of t says of locks and segment.
Exact(t) ==
  /\ Timed(t) = current_timedlockset[t]
  /\ ClockIndex(t) + 1 = segments[t]

LEMMA WindowCloses ==
  ASSUME NEW t, Exact(t), NEW b, NEW data, NEW end, NEW persisted,
         NEW was_flushed \in BOOLEAN, NEW map, was_flushed <=> map = "flushed"
  PROVE  ClosedWindow(Record(t, b, data, end, persisted, was_flushed)) =
           Windows!Closed(t, OpenWindow(t, b, data, map), end)
<1>1. CASE was_flushed = TRUE
  BY <1>1 DEF ClosedWindow, Record, Windows!Closed, OpenWindow, Exact
<1>2. CASE was_flushed = FALSE
  BY <1>2 DEF ClosedWindow, Record, Windows!Closed, OpenWindow, Exact
<1>3. QED BY <1>1, <1>2

LEMMA WindowFields ==
  ASSUME NEW t, NEW b, NEW data
  PROVE  /\ \A map : OpenWindow(t, b, data, map).byte = b
         /\ OpenWindow(t, b, data, "flushed").flushed
         /\ ~OpenWindow(t, b, data, "mem").flushed
  BY DEF OpenWindow

LEMMA OnBytesOf ==
  ASSUME NEW t, NEW f, NEW asked, NEW map, NEW bytes, NEW inside,
         inside = bytes \cap asked
  PROVE  OnBytes(WindowsOf(t, f, asked, map), bytes) = WindowsOf(t, f, inside, map)
<1>1. ASSUME NEW w \in WindowsOf(t, f, asked, map), w.byte \in bytes
      PROVE  w \in WindowsOf(t, f, inside, map)
  <2>1. PICK b \in asked : w = OpenWindow(t, b, f[b], map)
    BY DEF WindowsOf
  <2>2. b \in inside
    BY <1>1, <2>1 DEF OpenWindow
  <2>3. QED BY <2>1, <2>2 DEF WindowsOf
<1>2. ASSUME NEW w \in WindowsOf(t, f, inside, map)
      PROVE  w \in WindowsOf(t, f, asked, map) /\ w.byte \in bytes
  <2>1. PICK b \in inside : w = OpenWindow(t, b, f[b], map)
    BY DEF WindowsOf
  <2>2. w.byte = b
    BY <2>1 DEF OpenWindow
  <2>3. QED BY <2>1, <2>2 DEF WindowsOf
<1>3. QED BY <1>1, <1>2 DEF OnBytes

LEMMA OffBytesOf ==
  ASSUME NEW t, NEW f, NEW asked, NEW map, NEW bytes, NEW outside,
         outside = asked \ bytes
  PROVE  OffBytes(WindowsOf(t, f, asked, map), bytes) = WindowsOf(t, f, outside, map)
<1>1. ASSUME NEW w \in WindowsOf(t, f, asked, map), w.byte \notin bytes
      PROVE  w \in WindowsOf(t, f, outside, map)
  <2>1. PICK b \in asked : w = OpenWindow(t, b, f[b], map)
    BY DEF WindowsOf
  <2>2. b \in outside
    BY <1>1, <2>1 DEF OpenWindow
  <2>3. QED BY <2>1, <2>2 DEF WindowsOf
<1>2. ASSUME NEW w \in WindowsOf(t, f, outside, map)
      PROVE  w \in WindowsOf(t, f, asked, map) /\ w.byte \notin bytes
  <2>1. PICK b \in outside : w = OpenWindow(t, b, f[b], map)
    BY DEF WindowsOf
  <2>2. w.byte = b
    BY <2>1 DEF OpenWindow
  <2>3. QED BY <2>1, <2>2 DEF WindowsOf
<1>3. QED BY <1>1, <1>2 DEF OffBytes

LEMMA WindowsSame ==
  ASSUME NEW t, NEW f, NEW g, NEW S, NEW map, \A b \in S : f[b] = g[b]
  PROVE  WindowsOf(t, f, S, map) = WindowsOf(t, g, S, map)
  BY DEF WindowsOf

LEMMA WindowsUnion ==
  ASSUME NEW t, NEW f, NEW R, NEW S, NEW T, R = S \cup T,
         NEW map
  PROVE  WindowsOf(t, f, R, map) =
           WindowsOf(t, f, S, map) \cup WindowsOf(t, f, T, map)
  BY DEF WindowsOf

\* The windows W of t close, and the maps stay.
RegisterEffect(t, e, d, W, how) ==
  /\ IsData(e) /\ KeepsMaps(e, d)
  /\ ClosedIn(e) = ClosedIn(d) \cup ClosedAll(t, W, how)

LEMMA RegisterCloses ==
  ASSUME N = 0, NEW t, Exact(t), NEW d, IsData(d), NEW f, NEW asked, NEW end,
         NEW persisted, NEW was_flushed \in BOOLEAN,
         NEW map, was_flushed <=> map = "flushed"
  PROVE  RegisterEffect(t, Register(d, t, f, asked, end, persisted, was_flushed), d,
                        WindowsOf(t, f, asked, map), end)
<1> DEFINE e == Register(d, t, f, asked, end, persisted, was_flushed)
           records == {Record(t, b, f[b], end, persisted, was_flushed) : b \in asked}
           D == d.dropped \cup {<<f[b].backtrace, b>> : b \in asked \ asked}
           I == AfterBytes(d.irh, t, asked, N)
<1>1. asked = ReportedBytes(d.irh, t, asked, N)
  BY DEF ReportedBytes
<1>2. e = [mem |-> d.mem, flushed |-> d.flushed, records |-> d.records \cup records,
           dropped |-> D, irh |-> I]
  BY <1>1, RegisterIs
<1> HIDE DEF e, D, I
<1>3. IsData(e) /\ KeepsMaps(e, d) /\ e.records = d.records \cup records
  BY <1>2 DEF IsData, KeepsMaps
<1>4. ClosedIn(e) = ClosedIn(d) \cup {ClosedWindow(r) : r \in records}
  BY <1>3 DEF ClosedIn
<1>5. {ClosedWindow(r) : r \in records} =
        ClosedAll(t, WindowsOf(t, f, asked, map), end)
  <2>1. {ClosedWindow(r) : r \in records} =
          {ClosedWindow(Record(t, b, f[b], end, persisted, was_flushed)) : b \in asked}
    OBVIOUS
  <2>2. ClosedAll(t, WindowsOf(t, f, asked, map), end) =
          {Windows!Closed(t, OpenWindow(t, b, f[b], map), end) : b \in asked}
    BY Zenon DEF WindowsOf, ClosedAll
  <2>3. QED BY <2>1, <2>2, WindowCloses
<1>6. QED BY <1>3, <1>4, <1>5 DEF e, RegisterEffect

\* A store closes the windows of its bytes and opens new ones.
StoreEffect(t, s, d, bytes) ==
  LET over == OnBytes(WindowsIn(t, d), bytes)
  IN  /\ IsData(s) /\ Apart(s)
      /\ ClosedIn(s) = ClosedIn(d) \cup ClosedAll(t, over, "store")
      /\ WindowsIn(t, s) = (WindowsIn(t, d) \ over) \cup
           {[store |-> now[t], byte |-> b, locks |-> DOMAIN current_timedlockset[t],
             flushed |-> FALSE] : b \in bytes}

LEMMA StoreCloses ==
  ASSUME N = 0, CheckUnpersisted, NEW t, Exact(t), IsData(Data(t)), Apart(Data(t)),
         NEW address, NEW size
  PROVE  StoreEffect(t, AfterStore(Data(t), t, address, size), Data(t),
                     Bytes(address, size))
<1> DEFINE bytes == Bytes(address, size)
           h == HandleAccess(irh, t, address, size, N)
           d == [Data(t) EXCEPT !.irh = h.irh]
           e == Register(d, t, d.mem, bytes \cap DOMAIN d.mem, "store", FALSE, FALSE)
           g == Register(e, t, d.flushed, bytes \cap DOMAIN d.flushed,
                         "store", FALSE, TRUE)
           w == [g EXCEPT !.flushed = Without(g.flushed, bytes)]
           data == [timed_lockset |-> Timed(t), backtrace |-> now[t]]
           new == [b \in bytes |-> data]
           s == [w EXCEPT !.mem = Over(new, w.mem)]
           D == Data(t)
           Opened == {[store |-> now[t], byte |-> b, locks |-> DOMAIN current_timedlockset[t],
                       flushed |-> FALSE] : b \in bytes}
           over == OnBytes(WindowsIn(t, D), bytes)
<1>1. AfterStore(Data(t), t, address, size) = s
  BY DEF AfterStore, Overwritten, Data
<1>2. d = [mem |-> D.mem, flushed |-> D.flushed,
           records |-> D.records, dropped |-> D.dropped, irh |-> h.irh]
  BY Setting
<1> HIDE DEF h, d
<1>3. IsData(d) /\ d.mem = D.mem /\ d.flushed = D.flushed /\ ClosedIn(d) = ClosedIn(D)
  BY <1>2 DEF IsData, ClosedIn
<1>4. RegisterEffect(t, e, d, WindowsOf(t, d.mem, bytes \cap DOMAIN d.mem, "mem"), "store")
  BY <1>3, RegisterCloses
<1> HIDE DEF e
<1>5. RegisterEffect(t, g, e, WindowsOf(t, d.flushed, bytes \cap DOMAIN d.flushed, "flushed"),
                     "store")
  <2>1. IsData(e)
    BY <1>4 DEF RegisterEffect
  <2>2. QED BY <2>1, RegisterCloses
<1> HIDE DEF g
<1>6. w = [mem |-> g.mem, flushed |-> Without(g.flushed, bytes),
           records |-> g.records, dropped |-> g.dropped, irh |-> g.irh]
  BY <1>5, Setting DEF RegisterEffect
<1> HIDE DEF w
<1>7. IsData(w)
  BY <1>6 DEF IsData
<1>8. s = [mem |-> Over(new, w.mem), flushed |-> w.flushed, records |-> w.records,
           dropped |-> w.dropped, irh |-> w.irh]
  BY <1>7, Setting
<1>  HIDE DEF s
<1>9. /\ IsData(s) /\ s.mem = Over(new, D.mem) /\ s.flushed = Without(D.flushed, bytes)
      /\ s.records = g.records
  BY <1>3, <1>4, <1>5, <1>6, <1>8 DEF KeepsMaps, IsData, RegisterEffect
<1>10. Apart(s)
  BY <1>9 DEF Apart, Over, Without
<1>11. over = WindowsOf(t, D.mem, bytes \cap DOMAIN D.mem, "mem") \cup
              WindowsOf(t, D.flushed, bytes \cap DOMAIN D.flushed, "flushed")
  <2>1. OnBytes(WindowsOf(t, D.mem, DOMAIN D.mem, "mem"), bytes) =
          WindowsOf(t, D.mem, bytes \cap DOMAIN D.mem, "mem")
    BY OnBytesOf
  <2>2. OnBytes(WindowsOf(t, D.flushed, DOMAIN D.flushed, "flushed"), bytes) =
          WindowsOf(t, D.flushed, bytes \cap DOMAIN D.flushed, "flushed")
    BY OnBytesOf
  <2>3. QED BY <2>1, <2>2 DEF WindowsIn, OnBytes
<1>12. ClosedIn(s) = ClosedIn(D) \cup ClosedAll(t, over, "store")
  <2>1. ClosedIn(s) = ClosedIn(g)
    BY <1>9 DEF ClosedIn
  <2>2. QED BY <1>3, <1>4, <1>5, <1>11, <2>1 DEF RegisterEffect, ClosedAll
<1>13. WindowsIn(t, s) = (WindowsIn(t, D) \ over) \cup Opened
  <2>1. \A b : OpenWindow(t, b, data, "mem") =
          [store |-> now[t], byte |-> b, locks |-> DOMAIN current_timedlockset[t],
           flushed |-> FALSE]
    BY DEF OpenWindow, CommonLocks, Exact
  <2>2. /\ DOMAIN s.mem = DOMAIN D.mem \cup bytes
        /\ \A b \in bytes : s.mem[b] = data
        /\ \A b \in DOMAIN D.mem \ bytes : s.mem[b] = D.mem[b]
        /\ DOMAIN s.flushed = DOMAIN D.flushed \ bytes
        /\ \A b \in DOMAIN s.flushed : s.flushed[b] = D.flushed[b]
    BY <1>9 DEF Over, Without
  <2> HIDE DEF data
  <2>3. WindowsIn(t, s) = WindowsOf(t, D.mem, DOMAIN D.mem \ bytes, "mem") \cup
                          WindowsOf(t, D.flushed, DOMAIN D.flushed \ bytes, "flushed") \cup
                          {OpenWindow(t, b, data, "mem") : b \in bytes}
    <3>1. WindowsOf(t, s.mem, DOMAIN s.mem, "mem") =
            WindowsOf(t, s.mem, DOMAIN D.mem \ bytes, "mem") \cup
            WindowsOf(t, s.mem, bytes, "mem")
      <4>1. DOMAIN s.mem = (DOMAIN D.mem \ bytes) \cup bytes
        BY <2>2
      <4>2. QED BY <4>1, WindowsUnion
    <3>2. WindowsOf(t, s.mem, DOMAIN D.mem \ bytes, "mem") =
            WindowsOf(t, D.mem, DOMAIN D.mem \ bytes, "mem")
      BY <2>2, WindowsSame
    <3>3. WindowsOf(t, s.mem, bytes, "mem") = {OpenWindow(t, b, data, "mem") : b \in bytes}
      <4>1. WindowsOf(t, s.mem, bytes, "mem") =
              {OpenWindow(t, b, s.mem[b], "mem") : b \in bytes}
        BY DEF WindowsOf
      <4>2. QED BY <2>2, <4>1
    <3>4. WindowsOf(t, s.flushed, DOMAIN s.flushed, "flushed") =
            WindowsOf(t, D.flushed, DOMAIN D.flushed \ bytes, "flushed")
      BY <2>2, WindowsSame
    <3>5. QED BY <3>1, <3>2, <3>3, <3>4 DEF WindowsIn
  <2>4. {OpenWindow(t, b, data, "mem") : b \in bytes} = Opened
    BY <2>1
  <2>5. WindowsIn(t, D) \ over = WindowsOf(t, D.mem, DOMAIN D.mem \ bytes, "mem") \cup
                          WindowsOf(t, D.flushed, DOMAIN D.flushed \ bytes, "flushed")
    <3> DEFINE M == WindowsOf(t, D.mem, DOMAIN D.mem, "mem")
               F == WindowsOf(t, D.flushed, DOMAIN D.flushed, "flushed")
    <3>1. OffBytes(M, bytes) = WindowsOf(t, D.mem, DOMAIN D.mem \ bytes, "mem")
      BY OffBytesOf
    <3>2. OffBytes(F, bytes) = WindowsOf(t, D.flushed, DOMAIN D.flushed \ bytes, "flushed")
      BY OffBytesOf
    <3>3. WindowsIn(t, D) = M \cup F
      BY DEF WindowsIn
    <3> HIDE DEF M, F
    <3>4. QED BY <3>1, <3>2, <3>3 DEF OnBytes, OffBytes
  <2>6. QED BY <2>3, <2>4, <2>5
<1>14. QED BY <1>1, <1>9, <1>10, <1>12, <1>13 DEF StoreEffect

\* A fence closes the flushed windows.
FenceEffect(t, f, d) ==
  LET flushed == {w \in WindowsIn(t, d) : w.flushed}
  IN  /\ ClosedIn(f) = ClosedIn(d) \cup ClosedAll(t, flushed, "fence")
      /\ WindowsIn(t, f) = WindowsIn(t, d) \ flushed

LEMMA FenceCloses ==
  ASSUME N = 0, NEW t, Exact(t), NEW d, IsData(d)
  PROVE  FenceEffect(t, AfterFence(d, t), d)
<1> DEFINE e == Register(d, t, d.flushed, DOMAIN d.flushed, "fence", TRUE, TRUE)
           f == [e EXCEPT !.flushed = NoStores]
           flushed == {w \in WindowsIn(t, d) : w.flushed}
<1>1. AfterFence(d, t) = f
  BY DEF AfterFence
<1>2. RegisterEffect(t, e, d, WindowsOf(t, d.flushed, DOMAIN d.flushed, "flushed"), "fence")
  BY RegisterCloses
<1> HIDE DEF e
<1>3. f = [mem |-> e.mem, flushed |-> NoStores, records |-> e.records,
           dropped |-> e.dropped, irh |-> e.irh]
  BY <1>2, Setting DEF RegisterEffect
<1> HIDE DEF f
<1>4. f.mem = d.mem /\ f.flushed = NoStores /\ f.records = e.records
  BY <1>2, <1>3 DEF KeepsMaps, RegisterEffect
<1>5. /\ \A w \in WindowsOf(t, d.mem, DOMAIN d.mem, "mem") : ~w.flushed
      /\ \A w \in WindowsOf(t, d.flushed, DOMAIN d.flushed, "flushed") : w.flushed
  BY WindowFields DEF WindowsOf
<1>6. flushed = WindowsOf(t, d.flushed, DOMAIN d.flushed, "flushed")
  BY <1>5 DEF WindowsIn
<1>7. WindowsIn(t, d) \ flushed = WindowsOf(t, d.mem, DOMAIN d.mem, "mem")
  BY <1>5 DEF WindowsIn
<1>8. WindowsIn(t, f) = WindowsOf(t, d.mem, DOMAIN d.mem, "mem")
  BY <1>4 DEF WindowsIn, WindowsOf, NoStores
<1>9. ClosedIn(f) = ClosedIn(e)
  BY <1>4 DEF ClosedIn
<1>10. QED BY <1>1, <1>2, <1>6, <1>7, <1>8, <1>9 DEF FenceEffect, RegisterEffect

LEMMA ExitCloses ==
  ASSUME N = 0, CheckUnpersisted, NEW t, Exact(t), NEW d, IsData(d)
  PROVE  ClosedIn(AfterExit(d, t)) =
           ClosedIn(d) \cup ClosedAll(t, WindowsIn(t, d), "exit")
<1> DEFINE e == Register(d, t, d.mem, DOMAIN d.mem, "exit", FALSE, FALSE)
           f == Register(e, t, d.flushed, DOMAIN d.flushed, "exit", FALSE, TRUE)
<1>1. AfterExit(d, t) = f
  BY DEF AfterExit
<1>2. RegisterEffect(t, e, d, WindowsOf(t, d.mem, DOMAIN d.mem, "mem"), "exit")
  BY RegisterCloses
<1> HIDE DEF e
<1>3. RegisterEffect(t, f, e, WindowsOf(t, d.flushed, DOMAIN d.flushed, "flushed"), "exit")
  <2>1. IsData(e)
    BY <1>2 DEF RegisterEffect
  <2>2. QED BY <2>1, RegisterCloses
<1>4. QED BY <1>1, <1>2, <1>3 DEF RegisterEffect, ClosedAll, WindowsIn

FlushedLine(w, address) ==
  [w EXCEPT !.flushed = @ \/ Windows!Line(w.byte) = Windows!Line(address)]

LEMMA FlushFlushes ==
  ASSUME NEW t, NEW d, IsData(d), Apart(d), NEW address
  PROVE  LET f == AfterFlush(d, address)
         IN  /\ ClosedIn(f) = ClosedIn(d)
             /\ WindowsIn(t, f) = {FlushedLine(w, address) : w \in WindowsIn(t, d)}
<1> DEFINE line == InLine(d.mem, address)
           moved == Over(Only(d.mem, line), d.flushed)
           e == [d EXCEPT !.flushed = moved]
           f == [e EXCEPT !.mem = Without(e.mem, line)]
<1>1. e = [mem |-> d.mem, flushed |-> moved, records |-> d.records,
           dropped |-> d.dropped, irh |-> d.irh]
  BY Setting
<1>2. AfterFlush(d, address) = f
  <2>1. e.mem = d.mem
    <3> HIDE DEF e
    <3>1. QED BY <1>1
  <2>2. QED BY <2>1 DEF AfterFlush
<1> HIDE DEF e, moved
<1>3. IsData(e) /\ e.mem = d.mem
  BY <1>1 DEF IsData
<1>4. f = [mem |-> Without(d.mem, line), flushed |-> moved, records |-> d.records,
           dropped |-> d.dropped, irh |-> d.irh]
  BY <1>1, <1>3, Setting
<1> HIDE DEF f
<1>5. /\ f.records = d.records
      /\ DOMAIN f.mem = DOMAIN d.mem \ line
      /\ \A b \in DOMAIN f.mem : f.mem[b] = d.mem[b]
      /\ DOMAIN f.flushed = DOMAIN d.flushed \cup line
      /\ \A b \in line : f.flushed[b] = d.mem[b]
      /\ \A b \in DOMAIN d.flushed \ line : f.flushed[b] = d.flushed[b]
  <2>1. line \subseteq DOMAIN d.mem
    BY DEF InLine
  <2> HIDE DEF line
  <2>2. QED BY <1>4, <2>1 DEF moved, Over, Only, Without
<1>6. ASSUME NEW b, NEW x
      PROVE  /\ FlushedLine(OpenWindow(t, b, x, "flushed"), address) = OpenWindow(t, b, x, "flushed")
             /\ CacheLine(b) = CacheLine(address) =>
                  FlushedLine(OpenWindow(t, b, x, "mem"), address) =
                    OpenWindow(t, b, x, "flushed")
             /\ CacheLine(b) # CacheLine(address) =>
                  FlushedLine(OpenWindow(t, b, x, "mem"), address) =
                    OpenWindow(t, b, x, "mem")
  <2>1. FlushedLine(OpenWindow(t, b, x, "flushed"), address) = OpenWindow(t, b, x, "flushed")
    <3>1. FlushedLine(OpenWindow(t, b, x, "flushed"), address) =
            [OpenWindow(t, b, x, "flushed") EXCEPT !.flushed = TRUE]
      BY WindowFields DEF FlushedLine
    <3>2. QED BY <3>1 DEF OpenWindow
  <2>2. OpenWindow(t, b, x, "mem").byte = b
    BY DEF OpenWindow
  <2>3. CASE CacheLine(b) = CacheLine(address)
    <3>1. Windows!Line(OpenWindow(t, b, x, "mem").byte) = Windows!Line(address)
      BY <2>2, <2>3 DEF Windows!Line, CacheLine
    <3>2. FlushedLine(OpenWindow(t, b, x, "mem"), address) =
            [OpenWindow(t, b, x, "mem") EXCEPT !.flushed = TRUE]
      BY <3>1 DEF FlushedLine
    <3>3. QED BY <2>1, <2>3, <3>2 DEF OpenWindow
  <2>4. CASE CacheLine(b) # CacheLine(address)
    <3>1. Windows!Line(OpenWindow(t, b, x, "mem").byte) # Windows!Line(address)
      BY <2>2, <2>4 DEF Windows!Line, CacheLine
    <3>2. FlushedLine(OpenWindow(t, b, x, "mem"), address) =
            [OpenWindow(t, b, x, "mem") EXCEPT !.flushed = FALSE]
      BY <3>1 DEF FlushedLine, OpenWindow
    <3>3. QED BY <2>1, <2>4, <3>2 DEF OpenWindow
  <2>5. QED BY <2>1, <2>3, <2>4
<1>7. line \cap DOMAIN d.flushed = {} /\ line \subseteq DOMAIN d.mem
      /\ \A b \in DOMAIN d.mem : b \in line <=> CacheLine(b) = CacheLine(address)
  BY DEF InLine, Apart
<1> HIDE DEF line
<1>8. WindowsIn(t, f) =
        WindowsOf(t, d.mem, DOMAIN d.mem \ line, "mem") \cup
        WindowsOf(t, d.mem, line, "flushed") \cup
        WindowsOf(t, d.flushed, DOMAIN d.flushed, "flushed")
  <2>1. WindowsOf(t, f.mem, DOMAIN f.mem, "mem") =
          WindowsOf(t, d.mem, DOMAIN d.mem \ line, "mem")
    BY <1>5, WindowsSame
  <2>2. WindowsOf(t, f.flushed, DOMAIN f.flushed, "flushed") =
          WindowsOf(t, f.flushed, DOMAIN d.flushed, "flushed") \cup
          WindowsOf(t, f.flushed, line, "flushed")
    BY <1>5, WindowsUnion
  <2>3. WindowsOf(t, f.flushed, line, "flushed") = WindowsOf(t, d.mem, line, "flushed")
    BY <1>5, WindowsSame
  <2>4. WindowsOf(t, f.flushed, DOMAIN d.flushed, "flushed") =
          WindowsOf(t, d.flushed, DOMAIN d.flushed, "flushed")
    <3>1. \A b \in DOMAIN d.flushed : f.flushed[b] = d.flushed[b]
      BY <1>5, <1>7
    <3>2. QED BY <3>1, WindowsSame
  <2>5. QED BY <2>1, <2>2, <2>3, <2>4 DEF WindowsIn
<1>9. {FlushedLine(w, address) : w \in WindowsIn(t, d)} =
        {FlushedLine(OpenWindow(t, b, d.mem[b], "mem"), address) : b \in DOMAIN d.mem} \cup
        {FlushedLine(OpenWindow(t, b, d.flushed[b], "flushed"), address) : b \in DOMAIN d.flushed}
  BY DEF WindowsIn, WindowsOf
<1>10. {FlushedLine(OpenWindow(t, b, d.mem[b], "mem"), address) : b \in DOMAIN d.mem} =
        WindowsOf(t, d.mem, DOMAIN d.mem \ line, "mem") \cup WindowsOf(t, d.mem, line, "flushed")
  BY <1>6, <1>7 DEF WindowsOf
<1>11. {FlushedLine(OpenWindow(t, b, d.flushed[b], "flushed"), address) : b \in DOMAIN d.flushed}
        = WindowsOf(t, d.flushed, DOMAIN d.flushed, "flushed")
  BY <1>6 DEF WindowsOf
<1>12. ClosedIn(f) = ClosedIn(d)
  BY <1>5 DEF ClosedIn
<1>13. QED BY <1>2, <1>8, <1>9, <1>10, <1>11, <1>12

(* No counter has wrapped.                                                 *)
CountersOK ==
  /\ segments \in [Thread -> Nat \ {0}]
  /\ DOMAIN race_likely_loads = Thread
  /\ \A t \in Thread :
       /\ acquisitions[t] <= MaxAcquisitions
       /\ ~exited[t] => segments[t] <= MaxSegments

RefinementInv == WindowInv /\ AccountsInv /\ CountersOK

\* The configuration and the counters for which nothing is approximate.
Precise ==
  /\ N = 0 /\ CheckUnpersisted
  /\ MaxAcquisitions <= ClockModulus /\ MaxSegments <= IndexModulus

LEMMA CountersInit == Init => CountersOK
  BY PersistAssumption DEF Init, CountersOK

LEMMA CountersStep ==
  ASSUME CountersOK, Typed, DOMAIN exited = Thread, [Next]_vars
  PROVE  CountersOK'
<1> USE DEF CountersOK
<1>1. ASSUME UNCHANGED <<segments, exited, acquisitions, race_likely_loads>>
      PROVE  CountersOK'
  BY <1>1
<1>2. ASSUME NEW t \in Thread, NEW address, NEW size,
             Store(t, address, size) \/ RMW(t, address, size)
      PROVE  CountersOK'
  BY <1>1, <1>2 DEF Store, RMW, NoteStore
<1>3. ASSUME NEW t \in Thread, NEW address, Flush(t, address) \/ Fence(t)
      PROVE  CountersOK'
  BY <1>1, <1>3 DEF Flush, Fence, time
<1>4. ASSUME NEW t \in Thread, NEW address, NEW size, NEW backtrace,
             Load(t, address, size, backtrace)
      PROVE  CountersOK'
  <2>1. DOMAIN race_likely_loads' = Thread
    BY <1>4 DEF Load
  <2>2. UNCHANGED <<segments, exited, acquisitions>>
    BY <1>4 DEF Load
  <2>3. QED BY <2>1, <2>2
<1>5. ASSUME NEW t \in Thread, NEW l \in Lock, AcquireLock(t, l)
      PROVE  CountersOK'
  <2>1. /\ UNCHANGED <<segments, exited, race_likely_loads>>
        /\ acquisitions[t] < MaxAcquisitions
        /\ acquisitions' = [acquisitions EXCEPT ![t] = @ + 1]
    BY <1>5 DEF AcquireLock, report
  <2>2. \A u \in Thread : acquisitions'[u] <= MaxAcquisitions
    BY <2>1, PersistAssumption DEF Typed
  <2>3. QED BY <2>1, <2>2
<1>6. ASSUME NEW t \in Thread, NEW l \in Lock, ReleaseLock(t, l)
      PROVE  CountersOK'
  BY <1>1, <1>6 DEF ReleaseLock, report, time
<1>7. ASSUME NEW t \in Thread, NextSegment(t)
      PROVE  CountersOK'
  <2>1. /\ UNCHANGED <<acquisitions, exited, race_likely_loads>>
        /\ segments[t] < MaxSegments
        /\ segments' = [segments EXCEPT ![t] = @ + 1]
    BY <1>7 DEF NextSegment, report, time
  <2>2. segments' \in [Thread -> Nat \ {0}]
    BY <2>1
  <2>3. \A u \in Thread : ~exited[u] => segments'[u] <= MaxSegments
    BY <2>1, PersistAssumption
  <2>4. QED BY <2>1, <2>2, <2>3
<1>8. ASSUME NEW t \in Thread, Exit(t)
      PROVE  CountersOK'
  <2>1. /\ UNCHANGED <<acquisitions, race_likely_loads>>
        /\ exited' = [exited EXCEPT ![t] = TRUE]
        /\ segments' = [segments EXCEPT ![t] = @ + 1]
    BY <1>8 DEF Exit, time
  <2>2. segments' \in [Thread -> Nat \ {0}]
    BY <2>1
  <2>3. \A u \in Thread : ~exited'[u] => segments'[u] <= MaxSegments
    BY <2>1
  <2>4. QED BY <2>1, <2>2, <2>3
<1>9. CASE UNCHANGED vars
  BY <1>1, <1>9 DEF vars, report, time
<1>10. QED BY <1>2, <1>3, <1>4, <1>5, <1>6, <1>7, <1>8, <1>9 DEF Next, Step, Finished

LEMMA ExactNow ==
  ASSUME Precise, RefinementInv, NEW t \in Thread, ~exited[t]
  PROVE  Exact(t)
<1>1. Timed(t) = current_timedlockset[t]
  BY TimedIsCurrent DEF RefinementInv, WindowInv
<1>2. segments[t] - 1 \in 0 .. IndexModulus - 1 /\ IndexModulus \in Nat \ {0}
  BY PersistAssumption DEF RefinementInv, CountersOK, Precise
<1>3. \A i \in 0 .. IndexModulus - 1 : i % IndexModulus = i
  BY <1>2
<1>4. ClockIndex(t) + 1 = segments[t]
  BY <1>2, <1>3 DEF ClockIndex, RefinementInv, CountersOK
<1>5. QED BY <1>1, <1>4 DEF Exact

-----------------------------------------------------------------------------
(* The steps of PersistencyWindows *)

LEMMA MappingTyped ==
  /\ DOMAIN HeldLocks = Thread /\ DOMAIN Open = Thread
  /\ DOMAIN ClosedOnes = Thread /\ DOMAIN Reads = Thread
  BY DEF HeldLocks, Open, ClosedOnes, Reads

LEMMA MappingAt ==
  ASSUME NEW t \in Thread
  PROVE  /\ HeldLocks[t] = DOMAIN current_timedlockset[t]
         /\ ~exited[t] => Open[t] = WindowsIn(t, Data(t))
         /\ exited[t] => Open[t] = {}
         /\ ClosedOnes[t] = ClosedIn(Data(t))
  BY DEF HeldLocks, Open, ClosedOnes, WindowsIn, WindowsOf, OpenWindows, Data, ClosedIn

LEMMA OpenWindowKept ==
  ASSUME NEW t, current_timedlockset'[t] = current_timedlockset[t],
         NEW b, NEW data, NEW map
  PROVE  OpenWindow(t, b, data, map)' = OpenWindow(t, b, data, map)
  BY DEF OpenWindow

LEMMA OpenAfter ==
  ASSUME NEW t, current_timedlockset'[t] = current_timedlockset[t], NEW d,
         mem_state'[t] = d.mem, flushed_mem_state'[t] = d.flushed
  PROVE  OpenWindows(t)' = WindowsIn(t, d)
<1>1. OpenWindows(t)' =
        {OpenWindow(t, b, d.mem[b], "mem")' : b \in DOMAIN d.mem} \cup
        {OpenWindow(t, b, d.flushed[b], "flushed")' : b \in DOMAIN d.flushed}
  BY DEF OpenWindows
<1>2. QED BY <1>1, OpenWindowKept DEF WindowsIn, WindowsOf

\* The windows of t after a handler whose data is d.
LEMMA OpenBecomes ==
  ASSUME Typed, DOMAIN exited = Thread, NEW t \in Thread, ~exited[t], NEW d, Become(t, d),
         UNCHANGED <<current_timedlockset, exited>>
  PROVE  /\ Open' = [Open EXCEPT ![t] = WindowsIn(t, d)]
         /\ ClosedOnes' = [ClosedOnes EXCEPT ![t] = ClosedIn(d)]
         /\ HeldLocks' = HeldLocks
<1>1. /\ mem_state'[t] = d.mem /\ flushed_mem_state'[t] = d.flushed
      /\ race_likely_stores'[t] = d.records
      /\ \A u \in Thread \ {t} :
           /\ mem_state'[u] = mem_state[u] /\ flushed_mem_state'[u] = flushed_mem_state[u]
           /\ race_likely_stores'[u] = race_likely_stores[u]
  BY DEF Become, Typed
<1>2. OpenWindows(t)' = WindowsIn(t, d)
  BY <1>1, OpenAfter
<1>3. ASSUME NEW u \in Thread \ {t}
      PROVE  OpenWindows(u)' = OpenWindows(u)
  <2>1. OpenWindows(u)' = WindowsIn(u, Data(u))
    <3>1. Data(u).mem = mem_state[u] /\ Data(u).flushed = flushed_mem_state[u]
      BY DEF Data
    <3>2. QED BY <1>1, <3>1, OpenAfter
  <2>2. OpenWindows(u) = WindowsIn(u, Data(u))
    BY DEF OpenWindows, WindowsIn, WindowsOf, Data
  <2>3. QED BY <2>1, <2>2
<1>4. Open' = [Open EXCEPT ![t] = WindowsIn(t, d)]
  <2>1. Open' = [u \in Thread |-> IF exited[u] THEN {} ELSE OpenWindows(u)']
    BY DEF Open
  <2>2. QED BY <1>2, <1>3, <2>1 DEF Open
<1>5. ClosedOnes' = [ClosedOnes EXCEPT ![t] = ClosedIn(d)]
  <2>1. ClosedOnes' = [u \in Thread |-> {ClosedWindow(r) : r \in race_likely_stores'[u]}]
    BY DEF ClosedOnes, ClosedWindow
  <2>2. QED BY <1>1, <2>1 DEF ClosedOnes, ClosedIn
<1>6. QED BY <1>4, <1>5 DEF HeldLocks

LEMMA ReadsKept ==
  ASSUME UNCHANGED race_likely_loads
  PROVE  Reads' = Reads
  BY DEF Reads, ReadsOf

LEMMA StoreMaps ==
  ASSUME Precise, RefinementInv, NEW t \in Thread, NEW address, NEW size,
         Store(t, address, size)
  PROVE  Windows!Store(t, Bytes(address, size))
<1> DEFINE bytes == Bytes(address, size)
           s == AfterStore(Data(t), t, address, size)
<1>1. /\ ~exited[t] /\ Become(t, s) /\ now' = [now EXCEPT ![t] = @ + 1]
      /\ UNCHANGED <<current_timedlockset, segments, exited, race_likely_loads>>
  BY DEF Store, NoteStore
<1>2. Typed /\ DOMAIN exited = Thread /\ Apart(Data(t)) /\ IsData(Data(t))
  BY <1>1 DEF RefinementInv, AccountsInv, Data, IsData
<1>3. StoreEffect(t, s, Data(t), bytes)
  BY <1>1, <1>2, ExactNow, StoreCloses DEF Precise
<1> HIDE DEF s, bytes
<1>4. /\ Open' = [Open EXCEPT ![t] = WindowsIn(t, s)]
      /\ ClosedOnes' = [ClosedOnes EXCEPT ![t] = ClosedIn(s)]
      /\ HeldLocks' = HeldLocks /\ Reads' = Reads
  BY <1>1, <1>2, OpenBecomes, ReadsKept
<1>5. Windows!Overwritten(t, bytes) = OnBytes(WindowsIn(t, Data(t)), bytes)
  BY <1>1, MappingAt DEF Windows!Overwritten, OnBytes
<1>6. Windows!Opened(t, bytes) =
        {[store |-> now[t], byte |-> b, locks |-> DOMAIN current_timedlockset[t],
          flushed |-> FALSE] : b \in bytes}
  BY MappingAt DEF Windows!Opened
<1>7. Windows!CloseAndOpen(t, Windows!Overwritten(t, bytes), "store",
                           Windows!Opened(t, bytes))
  <2>1. WindowsIn(t, s) = (Open[t] \ Windows!Overwritten(t, bytes)) \cup
                            Windows!Opened(t, bytes)
    BY <1>1, <1>3, <1>5, <1>6, MappingAt DEF StoreEffect
  <2>2. ClosedIn(s) = ClosedOnes[t] \cup
          {Windows!Closed(t, w, "store") : w \in Windows!Overwritten(t, bytes)}
    BY <1>3, <1>5, MappingAt DEF StoreEffect, ClosedAll
  <2>3. QED BY <1>4, <2>1, <2>2 DEF Windows!CloseAndOpen
<1>8. QED BY <1>1, <1>4, <1>7 DEF Windows!Store, bytes

LEMMA FenceMaps ==
  ASSUME Precise, RefinementInv, NEW t \in Thread, Fence(t)
  PROVE  Windows!Fence(t)
<1> DEFINE f == AfterFence(Data(t), t)
<1>1. /\ ~exited[t] /\ Become(t, f)
      /\ UNCHANGED <<current_timedlockset, segments, exited, race_likely_loads, now>>
  BY DEF Fence, time
<1>2. Typed /\ DOMAIN exited = Thread /\ IsData(Data(t))
  BY DEF RefinementInv, AccountsInv, Data, IsData
<1>3. FenceEffect(t, f, Data(t))
  BY <1>1, <1>2, ExactNow, FenceCloses DEF Precise
<1> HIDE DEF f
<1>4. /\ Open' = [Open EXCEPT ![t] = WindowsIn(t, f)]
      /\ ClosedOnes' = [ClosedOnes EXCEPT ![t] = ClosedIn(f)]
      /\ HeldLocks' = HeldLocks /\ Reads' = Reads
  BY <1>1, <1>2, OpenBecomes, ReadsKept
<1>5. Windows!Flushed(t) = {w \in WindowsIn(t, Data(t)) : w.flushed}
  BY <1>1, MappingAt DEF Windows!Flushed
<1>6. Windows!CloseAndOpen(t, Windows!Flushed(t), "fence", {})
  <2>1. WindowsIn(t, f) = (Open[t] \ Windows!Flushed(t)) \cup {}
    BY <1>1, <1>3, <1>5, MappingAt DEF FenceEffect
  <2>2. ClosedIn(f) = ClosedOnes[t] \cup
          {Windows!Closed(t, w, "fence") : w \in Windows!Flushed(t)}
    BY <1>3, <1>5, MappingAt DEF FenceEffect, ClosedAll
  <2>3. QED BY <1>4, <2>1, <2>2 DEF Windows!CloseAndOpen
<1>7. QED BY <1>1, <1>4, <1>6 DEF Windows!Fence

LEMMA AtomicMaps ==
  ASSUME Precise, RefinementInv, NEW t \in Thread, NEW address, NEW size,
         RMW(t, address, size)
  PROVE  Windows!Atomic(t, Bytes(address, size))
<1> DEFINE bytes == Bytes(address, size)
           s == AfterStore(Data(t), t, address, size)
           f == AfterFence(s, t)
           over == Windows!Overwritten(t, bytes)
<1>1. /\ ~exited[t] /\ Become(t, f) /\ now' = [now EXCEPT ![t] = @ + 1]
      /\ UNCHANGED <<current_timedlockset, segments, exited, race_likely_loads>>
  BY DEF RMW, NoteStore
<1>2. Typed /\ DOMAIN exited = Thread /\ Apart(Data(t)) /\ IsData(Data(t))
  BY <1>1 DEF RefinementInv, AccountsInv, Data, IsData
<1>3. StoreEffect(t, s, Data(t), bytes)
  BY <1>1, <1>2, ExactNow, StoreCloses DEF Precise
<1> HIDE DEF s, bytes
<1>4. FenceEffect(t, f, s)
  BY <1>1, <1>3, ExactNow, FenceCloses DEF Precise, StoreEffect
<1> HIDE DEF f
<1>5. /\ Open' = [Open EXCEPT ![t] = WindowsIn(t, f)]
      /\ ClosedOnes' = [ClosedOnes EXCEPT ![t] = ClosedIn(f)]
      /\ HeldLocks' = HeldLocks /\ Reads' = Reads
  BY <1>1, <1>2, OpenBecomes, ReadsKept
<1>6. over = OnBytes(WindowsIn(t, Data(t)), bytes)
  BY <1>1, MappingAt DEF Windows!Overwritten, OnBytes
<1>7. Windows!Opened(t, bytes) =
        {[store |-> now[t], byte |-> b, locks |-> DOMAIN current_timedlockset[t],
          flushed |-> FALSE] : b \in bytes}
  BY MappingAt DEF Windows!Opened
<1>8. Windows!Flushed(t) = {w \in Open[t] : w.flushed}
  BY DEF Windows!Flushed
<1>9. \A w \in Windows!Opened(t, bytes) : ~w.flushed
  BY DEF Windows!Opened
<1>10. WindowsIn(t, s) = (Open[t] \ over) \cup Windows!Opened(t, bytes)
  BY <1>1, <1>3, <1>6, <1>7, MappingAt DEF StoreEffect
<1>11. ClosedIn(s) = ClosedOnes[t] \cup ClosedAll(t, over, "store")
  BY <1>3, <1>6, MappingAt DEF StoreEffect
<1> HIDE DEF over
<1>12. {w \in WindowsIn(t, s) : w.flushed} = Windows!Flushed(t) \ over
  BY <1>8, <1>9, <1>10
<1>13. WindowsIn(t, f) = (Open[t] \ (over \cup Windows!Flushed(t))) \cup
                         Windows!Opened(t, bytes)
  BY <1>4, <1>8, <1>9, <1>10 DEF FenceEffect
<1>14. ClosedIn(f) = ClosedOnes[t] \cup
         {Windows!Closed(t, w, "store") : w \in over} \cup
         {Windows!Closed(t, w, "fence") : w \in Windows!Flushed(t) \ over}
  BY <1>4, <1>11, <1>12 DEF FenceEffect, ClosedAll
<1>15. /\ ClosedOnes' = [ClosedOnes EXCEPT ![t] = @ \cup
                          {Windows!Closed(t, w, "store") : w \in over} \cup
                          {Windows!Closed(t, w, "fence") : w \in Windows!Flushed(t) \ over}]
       /\ Open' = [Open EXCEPT ![t] =
                     (@ \ (over \cup Windows!Flushed(t))) \cup Windows!Opened(t, bytes)]
  BY <1>5, <1>13, <1>14
<1>16. QED BY <1>1, <1>5, <1>15 DEF Windows!Atomic, bytes, over

LEMMA FlushMaps ==
  ASSUME RefinementInv, NEW t \in Thread, NEW address, Flush(t, address)
  PROVE  Windows!Flush(t, address)
<1> DEFINE f == AfterFlush(Data(t), address)
<1>1. /\ ~exited[t] /\ Become(t, f)
      /\ UNCHANGED <<current_timedlockset, segments, exited, race_likely_loads, now>>
  BY DEF Flush, locks, time
<1>2. Typed /\ DOMAIN exited = Thread /\ Apart(Data(t)) /\ IsData(Data(t))
  BY <1>1 DEF RefinementInv, AccountsInv, Data, IsData
<1>3. /\ ClosedIn(f) = ClosedIn(Data(t))
      /\ WindowsIn(t, f) = {FlushedLine(w, address) : w \in WindowsIn(t, Data(t))}
  BY <1>2, FlushFlushes
<1> HIDE DEF f
<1>4. /\ Open' = [Open EXCEPT ![t] = WindowsIn(t, f)]
      /\ ClosedOnes' = [ClosedOnes EXCEPT ![t] = ClosedIn(f)]
      /\ HeldLocks' = HeldLocks /\ Reads' = Reads
  BY <1>1, <1>2, OpenBecomes, ReadsKept
<1>5. ClosedOnes' = ClosedOnes
  <2>1. ClosedOnes' = [ClosedOnes EXCEPT ![t] = ClosedOnes[t]]
    BY <1>3, <1>4, MappingAt
  <2>2. QED BY <2>1 DEF ClosedOnes
<1>6. WindowsIn(t, f) =
        {[w EXCEPT !.flushed = @ \/ Windows!Line(w.byte) = Windows!Line(address)] :
           w \in Open[t]}
  BY <1>1, <1>3, MappingAt DEF FlushedLine
<1>7. Open' = [Open EXCEPT ![t] =
        {[w EXCEPT !.flushed = @ \/ Windows!Line(w.byte) = Windows!Line(address)] :
           w \in @}]
  BY <1>4, <1>6
<1>8. QED BY <1>1, <1>4, <1>5, <1>7 DEF Windows!Flush

LEMMA ExitMaps ==
  ASSUME Precise, RefinementInv, NEW t \in Thread, Exit(t)
  PROVE  Windows!Exit(t)
<1> DEFINE f == AfterExit(Data(t), t)
<1>1. /\ ~exited[t] /\ Become(t, f)
      /\ exited' = [exited EXCEPT ![t] = TRUE]
      /\ segments' = [segments EXCEPT ![t] = @ + 1]
      /\ UNCHANGED <<current_timedlockset, race_likely_loads, now>>
  BY DEF Exit, time
<1>2. Typed /\ DOMAIN exited = Thread /\ IsData(Data(t))
  BY DEF RefinementInv, AccountsInv, Data, IsData
<1>3. ClosedIn(f) = ClosedIn(Data(t)) \cup ClosedAll(t, WindowsIn(t, Data(t)), "exit")
  BY <1>1, <1>2, ExactNow, ExitCloses DEF Precise
<1> HIDE DEF f
<1>4. /\ race_likely_stores'[t] = f.records
      /\ \A u \in Thread \ {t} :
           /\ mem_state'[u] = mem_state[u] /\ flushed_mem_state'[u] = flushed_mem_state[u]
           /\ race_likely_stores'[u] = race_likely_stores[u]
  BY <1>1, <1>2 DEF Become, Typed
<1>5. Open' = [Open EXCEPT ![t] = {}]
  <2>1. Open' = [u \in Thread |-> IF exited'[u] THEN {} ELSE OpenWindows(u)']
    BY DEF Open
  <2>2. ASSUME NEW u \in Thread \ {t}
        PROVE  OpenWindows(u)' = OpenWindows(u) /\ exited'[u] = exited[u]
    <3>1. OpenWindows(u)' = WindowsIn(u, Data(u))
      <4>1. Data(u).mem = mem_state[u] /\ Data(u).flushed = flushed_mem_state[u]
        BY DEF Data
      <4>2. QED BY <1>1, <1>4, <4>1, OpenAfter
    <3>2. OpenWindows(u) = WindowsIn(u, Data(u))
      BY DEF OpenWindows, WindowsIn, WindowsOf, Data
    <3>3. QED BY <1>1, <1>2, <3>1, <3>2
  <2>3. exited'[t]
    BY <1>1, <1>2
  <2>4. QED BY <2>1, <2>2, <2>3 DEF Open
<1>6. ClosedOnes' = [ClosedOnes EXCEPT ![t] = ClosedIn(f)]
  <2>1. ClosedOnes' = [u \in Thread |-> {ClosedWindow(r) : r \in race_likely_stores'[u]}]
    BY DEF ClosedOnes, ClosedWindow
  <2>2. QED BY <1>4, <2>1 DEF ClosedOnes, ClosedIn
<1>7. ClosedOnes' = [ClosedOnes EXCEPT ![t] =
        @ \cup {Windows!Closed(t, w, "exit") : w \in Open[t]}]
  BY <1>1, <1>3, <1>6, MappingAt DEF ClosedAll
<1>8. Open' = [Open EXCEPT ![t] = (@ \ Open[t]) \cup {}]
  BY <1>5
<1>9. HeldLocks' = HeldLocks /\ Reads' = Reads
  BY <1>1, ReadsKept DEF HeldLocks
<1>10. QED BY <1>1, <1>7, <1>8, <1>9 DEF Windows!Exit, Windows!CloseAndOpen

LEMMA NextSegmentMaps ==
  ASSUME NEW t \in Thread, NextSegment(t)
  PROVE  Windows!NextSegment(t)
<1>1. UNCHANGED <<current_timedlockset, mem_state, flushed_mem_state, exited,
                  race_likely_stores, race_likely_loads, now>>
  BY DEF NextSegment, locks, cache, report, time
<1>2. UNCHANGED <<HeldLocks, Open, ClosedOnes, Reads>>
  BY <1>1, ReadsKept
     DEF HeldLocks, Open, OpenWindows, OpenWindow, ClosedOnes, ClosedWindow
<1>3. QED BY <1>1, <1>2 DEF NextSegment, Windows!NextSegment

LEMMA UnchangedMaps ==
  ASSUME UNCHANGED vars
  PROVE  UNCHANGED Windows!vars
<1>1. UNCHANGED <<current_timedlockset, mem_state, flushed_mem_state, exited,
                  race_likely_stores, race_likely_loads, now, segments>>
  BY DEF vars, locks, cache, report, time
<1>2. UNCHANGED <<HeldLocks, Open, ClosedOnes, Reads>>
  BY <1>1, ReadsKept
     DEF HeldLocks, Open, OpenWindows, OpenWindow, ClosedOnes, ClosedWindow
<1>3. QED BY <1>1, <1>2 DEF Windows!vars

(* The lock l protects no window of t any more.                            *)
Unprotected(w, l) == [w EXCEPT !.locks = @ \ {l}]

LEMMA OpenUnprotected ==
  ASSUME NEW t \in Thread, NEW l, ~exited[t], DOMAIN exited = Thread,
         UNCHANGED <<mem_state, flushed_mem_state, exited>>,
         \A u \in Thread \ {t} : current_timedlockset'[u] = current_timedlockset[u],
         \A b \in DOMAIN mem_state[t] :
           CommonLocks(current_timedlockset'[t], mem_state[t][b].timed_lockset) =
             CommonLocks(current_timedlockset[t], mem_state[t][b].timed_lockset) \ {l},
         \A b \in DOMAIN flushed_mem_state[t] :
           CommonLocks(current_timedlockset'[t], flushed_mem_state[t][b].timed_lockset) =
             CommonLocks(current_timedlockset[t], flushed_mem_state[t][b].timed_lockset)
               \ {l}
  PROVE  Windows!Unprotect(t, l)
<1>1. ASSUME NEW b, NEW data, NEW map,
             CommonLocks(current_timedlockset'[t], data.timed_lockset) =
               CommonLocks(current_timedlockset[t], data.timed_lockset) \ {l}
      PROVE  OpenWindow(t, b, data, map)' = Unprotected(OpenWindow(t, b, data, map), l)
  <2> DEFINE w == OpenWindow(t, b, data, map)
             now_locks == CommonLocks(current_timedlockset'[t], data.timed_lockset)
             then_locks == CommonLocks(current_timedlockset[t], data.timed_lockset)
  <2>1. PICK x : x = (map = "flushed")
    OBVIOUS
  <2>2. w = [store |-> data.backtrace, byte |-> b, flushed |-> x, locks |-> then_locks]
    BY <2>1 DEF OpenWindow
  <2>3. w' = [store |-> data.backtrace, byte |-> b, flushed |-> x, locks |-> now_locks]
    BY <2>1 DEF OpenWindow
  <2> HIDE DEF w, now_locks, then_locks
  <2>4. [w EXCEPT !.locks = @ \ {l}] =
          [store |-> data.backtrace, byte |-> b, flushed |-> x,
           locks |-> then_locks \ {l}]
    BY <2>2
  <2>5. now_locks = then_locks \ {l}
    BY <1>1 DEF now_locks, then_locks
  <2>6. QED BY <2>3, <2>4, <2>5 DEF Unprotected, w
<1>2. OpenWindows(t)' =
        {OpenWindow(t, b, mem_state[t][b], "mem")' : b \in DOMAIN mem_state[t]} \cup
        {OpenWindow(t, b, flushed_mem_state[t][b], "flushed")' :
           b \in DOMAIN flushed_mem_state[t]}
  BY DEF OpenWindows
<1>3. {OpenWindow(t, b, mem_state[t][b], "mem")' : b \in DOMAIN mem_state[t]} =
        {Unprotected(OpenWindow(t, b, mem_state[t][b], "mem"), l) :
           b \in DOMAIN mem_state[t]}
  BY <1>1
<1>4. {OpenWindow(t, b, flushed_mem_state[t][b], "flushed")' :
         b \in DOMAIN flushed_mem_state[t]} =
        {Unprotected(OpenWindow(t, b, flushed_mem_state[t][b], "flushed"), l) :
           b \in DOMAIN flushed_mem_state[t]}
  BY <1>1
<1>5. {Unprotected(w, l) : w \in OpenWindows(t)} =
        {Unprotected(OpenWindow(t, b, mem_state[t][b], "mem"), l) :
           b \in DOMAIN mem_state[t]} \cup
        {Unprotected(OpenWindow(t, b, flushed_mem_state[t][b], "flushed"), l) :
           b \in DOMAIN flushed_mem_state[t]}
  BY DEF OpenWindows
<1>6. OpenWindows(t)' = {Unprotected(w, l) : w \in OpenWindows(t)}
  BY <1>2, <1>3, <1>4, <1>5
<1>7. \A u \in Thread \ {t} : OpenWindows(u)' = OpenWindows(u)
  BY DEF OpenWindows, OpenWindow
<1>8. Open' = [u \in Thread |-> IF exited[u] THEN {} ELSE OpenWindows(u)']
  BY DEF Open
<1>9. Open' = [Open EXCEPT ![t] = {Unprotected(w, l) : w \in Open[t]}]
  BY <1>6, <1>7, <1>8 DEF Open
<1>10. QED BY <1>9 DEF Windows!Unprotect, Unprotected

LEMMA RecordsMapped ==
  ASSUME UNCHANGED <<race_likely_stores, race_likely_loads>>
  PROVE  ClosedOnes' = ClosedOnes /\ Reads' = Reads
  BY ReadsKept DEF ClosedOnes, ClosedWindow

LEMMA ReleaseMaps ==
  ASSUME RefinementInv, NEW t \in Thread, NEW l \in Lock, ReleaseLock(t, l)
  PROVE  Windows!Release(t, l)
<1>1. /\ ~exited[t] /\ DOMAIN exited = Thread /\ Typed
      /\ UNCHANGED <<mem_state, flushed_mem_state, exited, segments, now,
                     race_likely_stores, race_likely_loads>>
      /\ current_timedlockset' =
           [current_timedlockset EXCEPT ![t] = TimedUnlock(@, l)]
  BY DEF ReleaseLock, cache, report, time, RefinementInv, AccountsInv
<1>2. /\ \A u \in Thread \ {t} : current_timedlockset'[u] = current_timedlockset[u]
      /\ current_timedlockset'[t] = TimedUnlock(current_timedlockset[t], l)
  BY <1>1 DEF Typed
<1>3. \A tls : CommonLocks(current_timedlockset'[t], tls) =
                 CommonLocks(current_timedlockset[t], tls) \ {l}
  BY <1>2 DEF TimedUnlock, CommonLocks
<1>4. Windows!Unprotect(t, l)
  BY <1>1, <1>2, <1>3, OpenUnprotected
<1>5. HeldLocks' = [HeldLocks EXCEPT ![t] = @ \ {l}]
  <2>1. HeldLocks' = [u \in Thread |-> DOMAIN current_timedlockset'[u]]
    BY DEF HeldLocks
  <2>2. DOMAIN current_timedlockset'[t] = DOMAIN current_timedlockset[t] \ {l}
    BY <1>2 DEF TimedUnlock
  <2>3. QED BY <1>2, <2>1, <2>2 DEF HeldLocks
<1>6. QED BY <1>1, <1>4, <1>5, RecordsMapped DEF Windows!Release

LEMMA AcquireMaps ==
  ASSUME Precise, RefinementInv, NEW t \in Thread, NEW l \in Lock, AcquireLock(t, l)
  PROVE  Windows!Acquire(t, l)
<1>1. /\ ~exited[t] /\ DOMAIN exited = Thread /\ Typed
      /\ UNCHANGED <<mem_state, flushed_mem_state, exited, segments,
                     race_likely_stores, race_likely_loads>>
      /\ now' = [now EXCEPT ![t] = @ + 1]
      /\ acquisitions[t] < MaxAcquisitions
      /\ current_timedlockset' =
           [current_timedlockset EXCEPT ![t] = TimedLock(@, l, lock_clock[t])]
  BY DEF AcquireLock, cache, report, fate, RefinementInv, AccountsInv
<1>2. /\ \A u \in Thread \ {t} : current_timedlockset'[u] = current_timedlockset[u]
      /\ current_timedlockset'[t] = TimedLock(current_timedlockset[t], l, lock_clock[t])
  BY <1>1 DEF Typed
<1>3. /\ lock_clock[t] = acquisitions[t] /\ acquisitions[t] < ClockModulus
      /\ acquisitions[t] \in Nat
  BY <1>1, PersistAssumption DEF Precise, RefinementInv, WindowInv, LocksOK, Typed
<1>4. ASSUME NEW data, StoreOK(t, data, now[t])
      PROVE  CommonLocks(current_timedlockset'[t], data.timed_lockset) =
               CommonLocks(current_timedlockset[t], data.timed_lockset) \ {l}
  <2>1. l \in DOMAIN data.timed_lockset => data.timed_lockset[l] # lock_clock[t]
    BY <1>3, <1>4, PersistAssumption DEF StoreOK
  <2>2. QED BY <1>2, <2>1 DEF TimedLock, CommonLocks
<1>5. /\ \A b \in DOMAIN mem_state[t] : StoreOK(t, mem_state[t][b], now[t])
      /\ \A b \in DOMAIN flushed_mem_state[t] :
           StoreOK(t, flushed_mem_state[t][b], now[t])
  BY DEF RefinementInv, WindowInv, DataOK, Data
<1>6. Windows!Unprotect(t, l)
  BY <1>1, <1>2, <1>4, <1>5, OpenUnprotected
<1>7. HeldLocks' = [HeldLocks EXCEPT ![t] = @ \cup {l}]
  <2>1. HeldLocks' = [u \in Thread |-> DOMAIN current_timedlockset'[u]]
    BY DEF HeldLocks
  <2>2. DOMAIN current_timedlockset'[t] = DOMAIN current_timedlockset[t] \cup {l}
    BY <1>2 DEF TimedLock
  <2>3. QED BY <1>2, <2>1, <2>2 DEF HeldLocks
<1>8. QED BY <1>1, <1>6, <1>7, RecordsMapped DEF Windows!Acquire

LEMMA LoadMaps ==
  ASSUME Precise, RefinementInv, NEW t \in Thread, NEW address \in Nat,
         NEW size \in Nat \ {0}, NEW backtrace, Load(t, address, size, backtrace)
  PROVE  /\ Windows!Load(t, Bytes(address, size), backtrace)
         /\ \E r \in Reads'[t] : r.id = backtrace
<1> DEFINE record == [address |-> address, mask |-> 0 .. size - 1,
                      backtrace |-> backtrace, clock_i |-> ClockIndex(t),
                      lockset |-> DOMAIN Timed(t)]
           new == {[byte |-> b, locks |-> HeldLocks[t], segment |-> segments[t],
                    id |-> backtrace] : b \in Bytes(address, size)}
<1>1. HandleAccess(irh, t, address, size, N).mask = 0 .. size - 1
  BY DEF HandleAccess, Precise
<1>2. 0 \in 0 .. size - 1
  OBVIOUS
<1>3. /\ ~exited[t] /\ DOMAIN race_likely_loads = Thread
      /\ race_likely_loads' = [race_likely_loads EXCEPT ![t] = @ \cup {record}]
      /\ UNCHANGED <<current_timedlockset, mem_state, flushed_mem_state, exited,
                     segments, now, race_likely_stores>>
  BY <1>1, <1>2 DEF Load, cache, RefinementInv, CountersOK
<1>4. Exact(t)
  BY <1>3, ExactNow
<1>5. ReadsOf(record) = new
  <2>1. ReadsOf(record) = {[byte |-> address + i, locks |-> HeldLocks[t],
                            segment |-> segments[t], id |-> backtrace] : i \in 0 .. size - 1}
    BY <1>4, MappingAt DEF ReadsOf, Exact
  <2>2. \A i \in 0 .. size - 1 : address + i \in Bytes(address, size)
    BY DEF Bytes
  <2>3. \A b \in Bytes(address, size) : b - address \in 0 .. size - 1 /\ address + (b - address) = b
    BY DEF Bytes
  <2>4. QED BY <2>1, <2>2, <2>3
<1> HIDE DEF record, new
<1>6. Reads' = [Reads EXCEPT ![t] = @ \cup new]
  <2>1. Reads' = [u \in Thread |-> UNION {ReadsOf(r) : r \in race_likely_loads'[u]}]
    BY DEF Reads, ReadsOf
  <2>2. UNION {ReadsOf(r) : r \in race_likely_loads'[t]} =
          (UNION {ReadsOf(r) : r \in race_likely_loads[t]}) \cup new
    <3>1. race_likely_loads'[t] = race_likely_loads[t] \cup {record}
      BY <1>3
    <3>2. {ReadsOf(r) : r \in race_likely_loads'[t]} =
            {ReadsOf(r) : r \in race_likely_loads[t]} \cup {new}
      BY <1>5, <3>1
    <3>3. ASSUME NEW S
          PROVE  UNION (S \cup {new}) = (UNION S) \cup new
      OBVIOUS
    <3>4. QED BY <3>2, <3>3, Zenon
  <2>3. \A u \in Thread \ {t} : race_likely_loads'[u] = race_likely_loads[u]
    BY <1>3
  <2>4. Reads = [u \in Thread |-> UNION {ReadsOf(r) : r \in race_likely_loads[u]}]
    BY DEF Reads
  <2>5. Reads'[t] = Reads[t] \cup new
    <3>1. PICK A : A = UNION {ReadsOf(r) : r \in race_likely_loads[t]}
      OBVIOUS
    <3>2. PICK B : B = UNION {ReadsOf(r) : r \in race_likely_loads'[t]}
      OBVIOUS
    <3>3. Reads'[t] = B
      BY <2>1, <3>2, Zenon
    <3>4. Reads[t] = A
      BY <2>4, <3>1, Zenon
    <3>5. B = A \cup new
      BY <2>2, <3>1, <3>2, Zenon
    <3>6. QED BY <3>3, <3>4, <3>5
  <2>6. \A u \in Thread \ {t} : Reads'[u] = Reads[u]
    BY <2>1, <2>3, <2>4, Zenon
  <2> DEFINE G == [Reads EXCEPT ![t] = Reads[t] \cup new]
  <2>7. \A u \in Thread : Reads'[u] = G[u]
    BY <2>5, <2>6, MappingTyped
  <2>8. Reads' = [u \in Thread |-> Reads'[u]] /\ G = [u \in Thread |-> G[u]]
    BY <2>1, <2>4, Zenon
  <2>9. QED BY <2>7, <2>8
<1>7. UNCHANGED <<HeldLocks, Open, ClosedOnes>>
  BY <1>3 DEF HeldLocks, Open, OpenWindows, OpenWindow, ClosedOnes, ClosedWindow
<1>8. \E r \in new : r.id = backtrace
  <2>1. address \in Bytes(address, size)
    BY DEF Bytes
  <2>2. [byte |-> address, locks |-> HeldLocks[t], segment |-> segments[t],
         id |-> backtrace] \in new
    BY <2>1 DEF new
  <2>3. QED BY <2>2
<1>9. QED BY <1>3, <1>6, <1>7, <1>8, MappingTyped DEF Windows!Load, new

LEMMA StepMaps ==
  ASSUME Precise, RefinementInv, [Next]_vars
  PROVE  [Windows!Next]_Windows!vars
<1>1. CASE UNCHANGED vars
  BY <1>1, UnchangedMaps
<1>2. ASSUME NEW t \in Thread, Step(t)
      PROVE  Windows!Step(t)
  <2>1. ASSUME NEW a \in Accesses
        PROVE  /\ a[1] \in Nat /\ a[2] \in Nat \ {0}
               /\ Bytes(a[1], a[2]) \in (SUBSET Byte) \ {{}}
    <3>1. a[1] \in Nat /\ a[2] \in Nat \ {0} /\ Bytes(a[1], a[2]) \subseteq Byte
      <4>1. PICK address \in Byte, size \in 1 .. MaxSize : a = <<address, size>>
        BY DEF Accesses
      <4>2. address \in Nat /\ size \in Nat \ {0}
        BY PersistAssumption
      <4>3. Bytes(a[1], a[2]) \subseteq Byte
        BY DEF Accesses
      <4>4. QED BY <4>1, <4>2, <4>3
    <3>2. a[1] \in Bytes(a[1], a[2])
      BY <3>1 DEF Bytes
    <3>3. Bytes(a[1], a[2]) # {}
      BY <3>2
    <3>4. QED BY <3>1, <3>3
  <2>2. CASE \E a \in Accesses : Store(t, a[1], a[2])
    BY <2>1, <2>2, StoreMaps DEF Windows!Step
  <2>3. CASE \E a \in Accesses : RMW(t, a[1], a[2])
    BY <2>1, <2>3, AtomicMaps DEF Windows!Step
  <2>4. CASE \E a \in Accesses : Load(t, a[1], a[2], loads[t])
    <3>1. PICK a \in Accesses : Load(t, a[1], a[2], loads[t])
      BY <2>4
    <3>2. PICK id : id = loads[t]
      OBVIOUS
    <3>3. /\ Windows!Load(t, Bytes(a[1], a[2]), id)
          /\ \E r \in Reads'[t] : r.id = id
      BY <2>1, <3>1, <3>2, LoadMaps
    <3>4. id \in {r.id : r \in Reads'[t]}
      BY <3>3
    <3>5. QED BY <2>1, <3>3, <3>4 DEF Windows!Step
  <2>5. CASE \E address \in Byte : Flush(t, address)
    BY <2>5, FlushMaps DEF Windows!Step
  <2>6. CASE Fence(t)
    BY <2>6, FenceMaps DEF Windows!Step
  <2>7. CASE \E l \in Lock : AcquireLock(t, l)
    BY <2>7, AcquireMaps DEF Windows!Step
  <2>8. CASE \E l \in Lock : ReleaseLock(t, l)
    BY <2>8, ReleaseMaps DEF Windows!Step
  <2>9. CASE NextSegment(t)
    BY <2>9, NextSegmentMaps DEF Windows!Step
  <2>10. CASE Exit(t)
    BY <2>10, ExitMaps DEF Windows!Step
  <2>11. QED BY <1>2, <2>2, <2>3, <2>4, <2>5, <2>6, <2>7, <2>8, <2>9, <2>10 DEF Step
<1>3. QED BY <1>1, <1>2 DEF Next, Finished, Windows!Next

LEMMA InitMaps == Init => Windows!Init
<1> SUFFICES ASSUME Init PROVE Windows!Init
  OBVIOUS
<1>1. HeldLocks = [t \in Thread |-> {}]
  BY DEF Init, HeldLocks, NoLocks
<1>2. Open = [t \in Thread |-> {}]
  <2>1. \A t \in Thread : OpenWindows(t) = {}
    BY DEF Init, OpenWindows, NoStores
  <2>2. QED BY <2>1 DEF Open
<1>3. ClosedOnes = [t \in Thread |-> {}]
  BY DEF Init, ClosedOnes
<1>4. Reads = [t \in Thread |-> {}]
  BY DEF Init, Reads
<1>5. QED BY <1>1, <1>2, <1>3, <1>4 DEF Init, Windows!Init

(* Without the heuristic, with unpersisted stores wanted and before a       *)
(* counter wraps, the tracker implements PersistencyWindows: its two maps,  *)
(* its timestamps and its interned lockset keep exactly the windows that a  *)
(* thread has open, with the locks that protect all of each, and close them *)
(* as its flushes, fences, overwrites and exit do.                         *)
THEOREM TrackerImplementsWindows ==
  ASSUME N = 0, CheckUnpersisted,
         MaxAcquisitions <= ClockModulus, MaxSegments <= IndexModulus
  PROVE  Spec => ImplementsWindows
<1>1. Precise
  BY DEF Precise
<1>2. Init => RefinementInv
  BY WindowInit, AccountsInit, CountersInit DEF RefinementInv
<1>3. RefinementInv /\ [Next]_vars => RefinementInv'
  BY WindowStep, AccountsStep, CountersStep DEF RefinementInv, AccountsInv
<1>4. Init => Windows!Init
  BY InitMaps
<1>5. RefinementInv /\ [Next]_vars => [Windows!Next]_Windows!vars
  BY <1>1, StepMaps
<1>6. QED BY <1>2, <1>3, <1>4, <1>5, PTL DEF Spec, ImplementsWindows, Windows!Spec
-----------------------------------------------------------------------------
(* The types of the state *)

TypeInv ==
  /\ Typed /\ TypeOK
  /\ segments \in [Thread -> Nat \ {0}]
  /\ exited \in [Thread -> BOOLEAN]

DataTyped(d) ==
  /\ IsData(d)
  /\ IsStoreMap(d.mem) /\ IsStoreMap(d.flushed)
  /\ d.records \subseteq StoreFenceData

LEMMA TimedTyped ==
  ASSUME TypeInv, NEW t \in Thread
  PROVE  /\ Timed(t) = current_timedlockset[t]
         /\ IsTimedLockset(current_timedlockset[t], Lock, 0 .. ClockModulus - 1)
         /\ now[t] \in Nat /\ lock_clock[t] \in 0 .. ClockModulus - 1
<1>1. cached_timedlockset[t] \in {{}, {current_timedlockset[t]}}
  BY DEF TypeInv, TypeOK
<1>2. QED BY <1>1 DEF TypeInv, TypeOK, Timed

LEMMA RecordTyped ==
  ASSUME TypeInv, NEW t \in Thread, NEW f, IsStoreMap(f), NEW b \in DOMAIN f,
         NEW end \in {"store", "fence", "exit"},
         NEW persisted \in BOOLEAN, NEW was_flushed \in BOOLEAN
  PROVE  Record(t, b, f[b], end, persisted, was_flushed) \in StoreFenceData
<1>1. CommonLocks(Timed(t), f[b].timed_lockset) \in SUBSET Lock
  BY TimedTyped DEF CommonLocks, IsTimedLockset
<1>2. ClockIndex(t) \in 0 .. IndexModulus - 1
  <2>1. segments[t] - 1 \in Nat /\ IndexModulus \in Nat \ {0}
    BY PersistAssumption DEF TypeInv
  <2>2. QED BY <2>1 DEF ClockIndex
<1>3. f[b].backtrace \in Nat /\ b \in Byte
  BY DEF IsStoreMap
<1>4. QED BY <1>1, <1>2, <1>3 DEF Record, StoreFenceData

LEMMA RegisterTyped ==
  ASSUME TypeInv, NEW t \in Thread, NEW d, DataTyped(d), NEW f, IsStoreMap(f),
         NEW asked \in SUBSET DOMAIN f, NEW end \in {"store", "fence", "exit"},
         NEW persisted \in BOOLEAN, NEW was_flushed \in BOOLEAN
  PROVE  /\ DataTyped(Register(d, t, f, asked, end, persisted, was_flushed))
         /\ KeepsMaps(Register(d, t, f, asked, end, persisted, was_flushed), d)
<1> DEFINE e == Register(d, t, f, asked, end, persisted, was_flushed)
           reported == ReportedBytes(d.irh, t, asked, N)
           records == {Record(t, b, f[b], end, persisted, was_flushed) : b \in reported}
           D == d.dropped \cup {<<f[b].backtrace, b>> : b \in asked \ reported}
           I == AfterBytes(d.irh, t, asked, N)
<1>1. e = [mem |-> d.mem, flushed |-> d.flushed, records |-> d.records \cup records,
           dropped |-> D, irh |-> I]
  BY RegisterIs DEF DataTyped
<1>2. reported \subseteq DOMAIN f
  BY DEF ReportedBytes
<1> HIDE DEF e, D, I, reported
<1>3. records \subseteq StoreFenceData
  <2>1. \A b \in reported :
          Record(t, b, f[b], end, persisted, was_flushed) \in StoreFenceData
    BY <1>2, RecordTyped
  <2>2. QED BY <2>1
<1>4. /\ IsData(e) /\ e.mem = d.mem /\ e.flushed = d.flushed
      /\ e.records = d.records \cup records
  BY <1>1 DEF IsData
<1>5. QED BY <1>3, <1>4 DEF DataTyped, KeepsMaps, e

LEMMA OverTyped ==
  ASSUME NEW f, NEW g, IsStoreMap(f), IsStoreMap(g)
  PROVE  IsStoreMap(Over(g, f))
<1>1. DOMAIN Over(g, f) = DOMAIN f \cup DOMAIN g
  BY DEF Over
<1>2. \A b \in DOMAIN Over(g, f) :
        Over(g, f)[b] = IF b \in DOMAIN g THEN g[b] ELSE f[b]
  BY DEF Over
<1>3. QED BY <1>1, <1>2 DEF IsStoreMap

LEMMA PartTyped ==
  ASSUME NEW f, NEW S, IsStoreMap(f)
  PROVE  IsStoreMap(Only(f, S)) /\ IsStoreMap(Without(f, S))
  BY DEF IsStoreMap, Only, Without

LEMMA StoreTyped ==
  ASSUME TypeInv, NEW t \in Thread, DataTyped(Data(t)),
         NEW address, NEW size, Bytes(address, size) \subseteq Byte
  PROVE  DataTyped(AfterStore(Data(t), t, address, size))
<1> DEFINE bytes == Bytes(address, size)
           h == HandleAccess(irh, t, address, size, N)
           d == [Data(t) EXCEPT !.irh = h.irh]
           e == Register(d, t, d.mem, bytes \cap DOMAIN d.mem, "store", FALSE, FALSE)
           g == Register(e, t, d.flushed, bytes \cap DOMAIN d.flushed,
                         "store", FALSE, TRUE)
           o == Overwritten(d, t, bytes)
           data == [timed_lockset |-> Timed(t), backtrace |-> now[t]]
           new == [b \in bytes |-> data]
           s == [o EXCEPT !.mem = Over(new, o.mem)]
           w == [g EXCEPT !.flushed = Without(g.flushed, bytes)]
<1>1. AfterStore(Data(t), t, address, size) = s
  BY DEF AfterStore, Data
<1>2. d = [mem |-> Data(t).mem, flushed |-> Data(t).flushed,
           records |-> Data(t).records, dropped |-> Data(t).dropped, irh |-> h.irh]
  BY Setting DEF DataTyped
<1>3. o = IF ~CheckUnpersisted THEN d ELSE w
  BY DEF Overwritten
<1> HIDE DEF h, d, o
<1>4. DataTyped(d)
  BY <1>2 DEF DataTyped, IsData
<1>5. DataTyped(e) /\ KeepsMaps(e, d)
  BY <1>4, RegisterTyped DEF DataTyped
<1> HIDE DEF e
<1>6. DataTyped(g) /\ KeepsMaps(g, e)
  <2>1. IsStoreMap(d.flushed)
    BY <1>4 DEF DataTyped
  <2>2. QED BY <1>5, <2>1, RegisterTyped
<1> HIDE DEF g
<1>7. w = [mem |-> g.mem, flushed |-> Without(g.flushed, bytes),
           records |-> g.records, dropped |-> g.dropped, irh |-> g.irh]
  BY <1>6, Setting DEF DataTyped
<1> HIDE DEF w
<1>8. DataTyped(w)
  BY <1>6, <1>7, PartTyped DEF DataTyped, IsData
<1>9. DataTyped(o)
  BY <1>3, <1>4, <1>8
<1>10. s = [mem |-> Over(new, o.mem), flushed |-> o.flushed, records |-> o.records,
            dropped |-> o.dropped, irh |-> o.irh]
  BY <1>9, Setting DEF DataTyped
<1> HIDE DEF s
<1>11. IsStoreMap(new)
  <2>1. /\ data.timed_lockset = current_timedlockset[t] /\ data.backtrace \in Nat
        /\ IsTimedLockset(current_timedlockset[t], Lock, 0 .. ClockModulus - 1)
    BY TimedTyped
  <2> HIDE DEF data
  <2>2. QED BY <2>1 DEF IsStoreMap
<1> HIDE DEF new
<1>12. DataTyped(s)
  <2>1. IsStoreMap(o.mem) /\ IsStoreMap(o.flushed) /\ o.records \subseteq StoreFenceData
    BY <1>9 DEF DataTyped
  <2>2. IsStoreMap(Over(new, o.mem))
    BY <1>11, <2>1, OverTyped
  <2>3. /\ s.mem = Over(new, o.mem) /\ s.flushed = o.flushed /\ s.records = o.records
        /\ IsData(s)
    BY <1>10 DEF IsData
  <2>4. QED BY <2>1, <2>2, <2>3 DEF DataTyped
<1>13. QED BY <1>1, <1>12

LEMMA FlushTyped ==
  ASSUME NEW d, DataTyped(d), NEW address
  PROVE  DataTyped(AfterFlush(d, address))
<1> DEFINE line == InLine(d.mem, address)
           moved == Over(Only(d.mem, line), d.flushed)
           e == [d EXCEPT !.flushed = moved]
           f == [e EXCEPT !.mem = Without(e.mem, line)]
<1>1. e = [mem |-> d.mem, flushed |-> moved, records |-> d.records,
           dropped |-> d.dropped, irh |-> d.irh]
  BY Setting DEF DataTyped
<1>2. AfterFlush(d, address) = f
  <2>1. e.mem = d.mem
    <3> HIDE DEF e
    <3>1. QED BY <1>1
  <2>2. QED BY <2>1 DEF AfterFlush
<1>3. IsStoreMap(moved)
  BY PartTyped, OverTyped DEF DataTyped
<1> HIDE DEF e, moved
<1>4. IsData(e) /\ e.mem = d.mem
  BY <1>1 DEF IsData
<1>5. f = [mem |-> Without(d.mem, line), flushed |-> moved, records |-> d.records,
           dropped |-> d.dropped, irh |-> d.irh]
  BY <1>1, <1>4, Setting, SMTT(30)
<1> HIDE DEF f, line
<1>6. /\ f.mem = Without(d.mem, line) /\ f.flushed = moved /\ f.records = d.records
      /\ IsData(f)
  BY <1>5 DEF IsData
<1>7. QED BY <1>2, <1>3, <1>6, PartTyped DEF DataTyped

LEMMA FenceTyped ==
  ASSUME TypeInv, NEW t \in Thread, NEW d, DataTyped(d)
  PROVE  DataTyped(AfterFence(d, t))
<1> DEFINE e == Register(d, t, d.flushed, DOMAIN d.flushed, "fence", TRUE, TRUE)
           f == [e EXCEPT !.flushed = NoStores]
<1>1. AfterFence(d, t) = f
  BY DEF AfterFence
<1>2. DataTyped(e)
  BY RegisterTyped DEF DataTyped
<1> HIDE DEF e
<1>3. f = [mem |-> e.mem, flushed |-> NoStores, records |-> e.records,
           dropped |-> e.dropped, irh |-> e.irh]
  BY <1>2, Setting DEF DataTyped
<1> HIDE DEF f
<1>4. f.mem = e.mem /\ f.flushed = NoStores /\ f.records = e.records /\ IsData(f)
  BY <1>3 DEF IsData
<1>5. IsStoreMap(NoStores)
  BY DEF IsStoreMap, NoStores
<1>6. QED BY <1>1, <1>2, <1>4, <1>5 DEF DataTyped

LEMMA ExitTyped ==
  ASSUME TypeInv, NEW t \in Thread, NEW d, DataTyped(d)
  PROVE  DataTyped(AfterExit(d, t))
<1> DEFINE e == Register(d, t, d.mem, DOMAIN d.mem, "exit", FALSE, FALSE)
           f == Register(e, t, d.flushed, DOMAIN d.flushed, "exit", FALSE, TRUE)
<1>1. AfterExit(d, t) = IF ~CheckUnpersisted THEN d ELSE f
  BY DEF AfterExit
<1>2. DataTyped(e)
  BY RegisterTyped DEF DataTyped
<1> HIDE DEF e
<1>3. DataTyped(f)
  <2>1. IsStoreMap(d.flushed)
    BY DEF DataTyped
  <2>2. QED BY <1>2, <2>1, RegisterTyped
<1>4. QED BY <1>1, <1>3
LEMMA DataIsTyped ==
  ASSUME TypeInv, NEW t \in Thread
  PROVE  DataTyped(Data(t))
  BY DEF TypeInv, TypeOK, DataTyped, Data, IsData

(* The types of the lockset, its copy and its clock.                       *)
LocksTyped(t) ==
  /\ IsTimedLockset(current_timedlockset[t], Lock, 0 .. ClockModulus - 1)
  /\ cached_timedlockset[t] \in {{}, {current_timedlockset[t]}}
  /\ lock_clock[t] \in 0 .. ClockModulus - 1

(* A handler of t that leaves the locks alone.                             *)
LEMMA BecameTyped ==
  ASSUME TypeInv, Typed', NEW t \in Thread, NEW d, Become(t, d), DataTyped(d),
         UNCHANGED <<current_timedlockset, lock_clock>>,
         UNCHANGED cached_timedlockset \/ Intern(t),
         segments' \in [Thread -> Nat \ {0}], exited' \in [Thread -> BOOLEAN]
  PROVE  TypeInv'
<1>1. /\ mem_state'[t] = d.mem /\ flushed_mem_state'[t] = d.flushed
      /\ race_likely_stores'[t] = d.records
      /\ \A u \in Thread \ {t} :
           /\ mem_state'[u] = mem_state[u] /\ flushed_mem_state'[u] = flushed_mem_state[u]
           /\ race_likely_stores'[u] = race_likely_stores[u]
  BY DEF Become, TypeInv, Typed
<1>2. \A u \in Thread : /\ IsStoreMap(mem_state'[u]) /\ IsStoreMap(flushed_mem_state'[u])
                        /\ race_likely_stores'[u] \subseteq StoreFenceData
  BY <1>1 DEF DataTyped, TypeInv, TypeOK
<1>3. \A u \in Thread : cached_timedlockset'[u] \in {{}, {current_timedlockset'[u]}}
  <2>1. \A u \in Thread : cached_timedlockset[u] \in {{}, {current_timedlockset[u]}}
    BY DEF TypeInv, TypeOK
  <2>2. CASE Intern(t)
    <3>1. cached_timedlockset'[t] = {current_timedlockset[t]}
      BY <2>2, TimedTyped DEF Intern, TypeInv, Typed
    <3>2. \A u \in Thread \ {t} : cached_timedlockset'[u] = cached_timedlockset[u]
      BY <2>2 DEF Intern, TypeInv, Typed
    <3>3. QED BY <2>1, <3>1, <3>2
  <2>3. QED BY <2>1, <2>2
<1>4. \A u \in Thread : segments'[u] \in Nat \ {0} /\ exited'[u] \in BOOLEAN
                        /\ now'[u] \in Nat /\ acquisitions'[u] \in Nat
  BY DEF Typed
<1>5. TypeOK'
  BY <1>2, <1>3, <1>4 DEF TypeInv, TypeOK, IsStoreMap
<1>6. QED BY <1>5 DEF TypeInv

(* A step that leaves the stores and the records alone.                    *)
LEMMA LocksMoved ==
  ASSUME TypeInv, Typed', UNCHANGED <<mem_state, flushed_mem_state, race_likely_stores>>,
         segments' \in [Thread -> Nat \ {0}], exited' \in [Thread -> BOOLEAN],
         \A t \in Thread : LocksTyped(t)'
  PROVE  TypeInv'
<1>1. \A u \in Thread : segments'[u] \in Nat \ {0} /\ exited'[u] \in BOOLEAN
                        /\ now'[u] \in Nat /\ acquisitions'[u] \in Nat
  BY DEF Typed
<1>2. TypeOK'
  BY <1>1 DEF TypeInv, TypeOK, LocksTyped
<1>3. QED BY <1>2 DEF TypeInv

LEMMA TypeStep ==
  ASSUME TypeInv, [Next]_vars
  PROVE  TypeInv'
<1>1. Typed /\ Typed'
  BY TypedStep DEF TypeInv
<1>2. segments \in [Thread -> Nat \ {0}] /\ exited \in [Thread -> BOOLEAN]
  BY DEF TypeInv
<1>3. \A t \in Thread : LocksTyped(t)
  BY DEF TypeInv, TypeOK, LocksTyped
<1>4. ASSUME NEW t \in Thread, NEW address, NEW size, Bytes(address, size) \subseteq Byte,
             Store(t, address, size) \/ RMW(t, address, size)
      PROVE  TypeInv'
  <2>1. DataTyped(AfterStore(Data(t), t, address, size))
    BY <1>4, DataIsTyped, StoreTyped
  <2>2. DataTyped(AfterFence(AfterStore(Data(t), t, address, size), t))
    BY <2>1, FenceTyped
  <2>3. \E d : Become(t, d) /\ DataTyped(d)
    BY <1>4, <2>1, <2>2 DEF Store, RMW
  <2>4. Intern(t) /\ UNCHANGED <<current_timedlockset, lock_clock, segments, exited>>
    BY <1>4 DEF Store, RMW
  <2>5. QED BY <1>1, <1>2, <2>3, <2>4, BecameTyped
<1>5. ASSUME NEW t \in Thread, NEW address, Flush(t, address)
      PROVE  TypeInv'
  BY <1>1, <1>2, <1>5, DataIsTyped, FlushTyped, BecameTyped DEF Flush, locks
<1>6. ASSUME NEW t \in Thread, Fence(t)
      PROVE  TypeInv'
  BY <1>1, <1>2, <1>6, DataIsTyped, FenceTyped, BecameTyped DEF Fence
<1>7. ASSUME NEW t \in Thread, NEW address, NEW size, NEW backtrace,
             Load(t, address, size, backtrace)
      PROVE  TypeInv'
  <2>1. /\ UNCHANGED <<current_timedlockset, lock_clock, mem_state, flushed_mem_state,
                       race_likely_stores, segments, exited>>
        /\ UNCHANGED cached_timedlockset \/ Intern(t)
    BY <1>7 DEF Load, cache
  <2>2. \A u \in Thread : LocksTyped(u)'
    <3>1. CASE Intern(t)
      <4>1. cached_timedlockset'[t] = {current_timedlockset[t]}
        BY <1>1, <3>1, TimedTyped DEF Intern, Typed
      <4>2. \A u \in Thread \ {t} : cached_timedlockset'[u] = cached_timedlockset[u]
        BY <1>1, <3>1 DEF Intern, Typed
      <4>3. QED BY <1>3, <2>1, <4>1, <4>2 DEF LocksTyped
    <3>2. QED BY <1>3, <2>1, <3>1 DEF LocksTyped
  <2>3. QED BY <1>1, <1>2, <2>1, <2>2, LocksMoved
<1>8. ASSUME NEW t \in Thread, NEW l \in Lock, AcquireLock(t, l)
      PROVE  TypeInv'
  <2>1. UNCHANGED <<mem_state, flushed_mem_state, race_likely_stores, segments, exited>>
    BY <1>8 DEF AcquireLock, cache, report
  <2>2. /\ current_timedlockset'[t] = TimedLock(current_timedlockset[t], l, lock_clock[t])
        /\ cached_timedlockset'[t] = {} /\ lock_clock'[t] = NextId(lock_clock[t])
        /\ \A u \in Thread \ {t} :
             /\ current_timedlockset'[u] = current_timedlockset[u]
             /\ cached_timedlockset'[u] = cached_timedlockset[u]
             /\ lock_clock'[u] = lock_clock[u]
    BY <1>1, <1>8 DEF AcquireLock, AfterProcessLock, Typed
  <2>3. LocksTyped(t)'
    <3>1. LocksTyped(t) /\ ClockModulus \in Nat \ {0}
      BY <1>3, PersistAssumption
    <3>2. NextId(lock_clock[t]) \in 0 .. ClockModulus - 1
      BY <3>1 DEF NextId, LocksTyped
    <3>3. IsTimedLockset(TimedLock(current_timedlockset[t], l, lock_clock[t]),
                         Lock, 0 .. ClockModulus - 1)
      BY <3>1 DEF LocksTyped, IsTimedLockset, TimedLock
    <3>4. QED BY <2>2, <3>2, <3>3 DEF LocksTyped
  <2>4. \A u \in Thread : LocksTyped(u)'
    BY <1>3, <2>2, <2>3 DEF LocksTyped
  <2>5. QED BY <1>1, <1>2, <2>1, <2>4, LocksMoved
<1>9. ASSUME NEW t \in Thread, NEW l \in Lock, ReleaseLock(t, l)
      PROVE  TypeInv'
  <2>1. UNCHANGED <<mem_state, flushed_mem_state, race_likely_stores, segments, exited>>
    BY <1>9 DEF ReleaseLock, cache, report
  <2>2. /\ current_timedlockset'[t] = TimedUnlock(current_timedlockset[t], l)
        /\ cached_timedlockset'[t] = {} /\ lock_clock' = lock_clock
        /\ \A u \in Thread \ {t} :
             /\ current_timedlockset'[u] = current_timedlockset[u]
             /\ cached_timedlockset'[u] = cached_timedlockset[u]
    BY <1>1, <1>9 DEF ReleaseLock, AfterProcessLock, Typed
  <2>3. IsTimedLockset(TimedUnlock(current_timedlockset[t], l), Lock, 0 .. ClockModulus - 1)
    BY <1>3 DEF LocksTyped, IsTimedLockset, TimedUnlock
  <2>4. \A u \in Thread : LocksTyped(u)'
    BY <1>3, <2>2, <2>3 DEF LocksTyped
  <2>5. QED BY <1>1, <1>2, <2>1, <2>4, LocksMoved
<1>10. ASSUME NEW t \in Thread, NextSegment(t)
       PROVE  TypeInv'
  <2>1. /\ UNCHANGED <<mem_state, flushed_mem_state, race_likely_stores, exited,
                       current_timedlockset, cached_timedlockset, lock_clock>>
        /\ segments' = [segments EXCEPT ![t] = @ + 1]
    BY <1>10 DEF NextSegment, locks, cache, report
  <2>2. segments' \in [Thread -> Nat \ {0}]
    BY <1>2, <2>1
  <2>3. \A u \in Thread : LocksTyped(u)'
    BY <1>3, <2>1 DEF LocksTyped
  <2>4. QED BY <1>1, <1>2, <2>1, <2>2, <2>3, LocksMoved
<1>11. ASSUME NEW t \in Thread, Exit(t)
       PROVE  TypeInv'
  <2>1. DataTyped(AfterExit(Data(t), t))
    BY DataIsTyped, ExitTyped
  <2>2. /\ Become(t, AfterExit(Data(t), t))
        /\ UNCHANGED <<current_timedlockset, lock_clock>>
        /\ UNCHANGED cached_timedlockset \/ Intern(t)
        /\ exited' = [exited EXCEPT ![t] = TRUE]
        /\ segments' = [segments EXCEPT ![t] = @ + 1]
    BY <1>11 DEF Exit
  <2>3. segments' \in [Thread -> Nat \ {0}] /\ exited' \in [Thread -> BOOLEAN]
    BY <1>2, <2>2
  <2>4. QED BY <1>1, <2>1, <2>2, <2>3, BecameTyped
<1>12. CASE UNCHANGED vars
  <2>1. UNCHANGED <<mem_state, flushed_mem_state, race_likely_stores, exited, segments,
                    current_timedlockset, cached_timedlockset, lock_clock>>
    BY <1>12 DEF vars, locks, cache, report
  <2>2. \A u \in Thread : LocksTyped(u)'
    BY <1>3, <2>1 DEF LocksTyped
  <2>3. QED BY <1>1, <1>2, <2>1, <2>2, LocksMoved
<1>13. \A a \in Accesses : Bytes(a[1], a[2]) \subseteq Byte
  BY DEF Accesses
<1>14. QED BY <1>4, <1>5, <1>6, <1>7, <1>8, <1>9, <1>10, <1>11, <1>12, <1>13
           DEF Next, Step, Finished

LEMMA TypeInit == Init => TypeInv
<1> SUFFICES ASSUME Init PROVE TypeInv
  OBVIOUS
<1>1. Typed
  BY WindowInit DEF WindowInv
<1>2. ASSUME NEW t \in Thread
      PROVE  /\ LocksTyped(t)
             /\ IsStoreMap(mem_state[t]) /\ IsStoreMap(flushed_mem_state[t])
             /\ race_likely_stores[t] \subseteq StoreFenceData
  <2>1. IsStoreMap(NoStores)
    BY DEF IsStoreMap, NoStores
  <2>2. IsTimedLockset(NoLocks, Lock, 0 .. ClockModulus - 1)
    BY DEF IsTimedLockset, NoLocks
  <2>3. QED BY <2>1, <2>2, PersistAssumption DEF Init, LocksTyped
<1>3. segments \in [Thread -> Nat \ {0}] /\ exited \in [Thread -> BOOLEAN]
  BY DEF Init
<1>4. TypeOK
  BY <1>1, <1>2, <1>3 DEF TypeOK, LocksTyped, Typed
<1>5. QED BY <1>1, <1>3, <1>4 DEF TypeInv

(* The timestamps stay within the width of lock_clock, a store waits for an *)
(* address in persistent memory, the interned copy of a lockset is never    *)
(* stale and the fields of a record fit their types, clock_i too.           *)
THEOREM TrackerTyped == Spec => []TypeOK
<1>1. TypeInv /\ [Next]_vars => TypeInv'
  BY TypeStep
<1>2. TypeInv => TypeOK
  BY DEF TypeInv
<1>3. QED BY TypeInit, <1>1, <1>2, PTL DEF Spec
=============================================================================
