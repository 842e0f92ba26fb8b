------------------------------- MODULE HawkSet -------------------------------
(***************************************************************************)
(* The tool as a whole: an application of several threads runs under the   *)
(* instrumentation of src/src/hawkset.cpp, and when it is about to end     *)
(* CheckPMRaces judges what it left behind.                                *)
(*                                                                         *)
(* The module composes ThreadClocks (T), PersistTracker (P, and Q without  *)
(* check_unpersisted_stores), the abstract PersistencyWindows (W), whose   *)
(* state is what really happened, and RaceAnalysis (R).  A step of the     *)
(* application is a step of all three.  P and W take the segments of a     *)
(* thread and its end from T.                                              *)
(***************************************************************************)
EXTENDS Integers, Sequences, FiniteSets

CONSTANTS
  MaxThreads, Pthread, MainPthread, MaxCreates,           \* see ThreadClocks
  Lock, Byte, LineSize, N, ClockModulus, IndexModulus,    \* see PersistTracker
  Unpersisted,  \* values of the knob -unpersisted
  MaxOps,       \* bound: operations of a thread
  Applications  \* what may be run: each a function from the names of its
                \* routines, "main" among them, to their operations

ASSUME HawkSetAssumption ==
  /\ MaxThreads \in Nat \ {0}
  /\ MainPthread \in Pthread
  /\ MaxCreates \in Nat
  /\ Byte \subseteq Nat
  /\ LineSize \in Nat \ {0}
  /\ N \in Nat
  /\ ClockModulus \in Nat \ {0}
  /\ IndexModulus \in Nat \ {0}
  /\ Unpersisted \subseteq BOOLEAN
  /\ MaxOps \in Nat \ {0}

Tid  == 0 .. MaxThreads - 1
Main == 0

VARIABLES
  pc, vector_clocks, creator_thread_id, creator_thread_clock,
  created_thread_id, created_pthread, thread_creation_mutex,
  thread_creation_semaphore, pthread_id_to_tid, exit_threads_clock, creates,
  handle, joining, joined, past, overtaken, parent, misjoined

VARIABLES
  current_timedlockset, cached_timedlockset, lock_clock, mem_state,
  flushed_mem_state, race_likely_stores, race_likely_loads, irh, now, stores,
  loads, acquisitions, depth, held_since, nested, written, unflushed, dropped

VARIABLES held, open, closed, reads

VARIABLES
  check_unpersisted_stores,
  app,       \* the application
  code, ip,  \* the routine each thread runs, and its next operation
  analysed,  \* CheckPMRaces has run
  verdict    \* races_per_rlp and unpersisted_races_per_rlp

(* What really happened, for the properties only. *)
VARIABLES
  begun,       \* begun[t][s]: the segment of t in which its store s was issued
  caught,      \* <<t, s, b, u, r>>: u loaded byte b while t's store s of it was
               \* not persistent; r names the load
  accessors,   \* accessors[b]: the threads that have accessed byte b
  initialising \* windows that ended and loads that came while at most N threads
               \* had accessed their byte: <<"window", t, s, b>>, <<"load", u, r, b>>

Segments ==
  [t \in Tid |-> IF vector_clocks[t] = <<>> THEN 1 ELSE Len(vector_clocks[t])]
Ended == [t \in Tid |-> pc[t] = "exited"]

T == INSTANCE ThreadClocks
P == INSTANCE PersistTracker WITH
       Thread <- Tid, segments <- Segments, exited <- Ended, MaxSize <- 1,
       MaxStores <- MaxOps, MaxLoads <- MaxOps, MaxAcquisitions <- MaxOps,
       MaxDepth <- MaxOps, MaxSegments <- MaxOps, CheckUnpersisted <- TRUE
Q == INSTANCE PersistTracker WITH
       Thread <- Tid, segments <- Segments, exited <- Ended, MaxSize <- 1,
       MaxStores <- MaxOps, MaxLoads <- MaxOps, MaxAcquisitions <- MaxOps,
       MaxDepth <- MaxOps, MaxSegments <- MaxOps, CheckUnpersisted <- FALSE
W == INSTANCE PersistencyWindows WITH
       Thread <- Tid, segment <- Segments, ended <- Ended, time <- now
R == INSTANCE RaceAnalysis

threads == <<pc, vector_clocks, creator_thread_id, creator_thread_clock,
             created_thread_id, created_pthread, thread_creation_mutex,
             thread_creation_semaphore, pthread_id_to_tid, exit_threads_clock,
             creates, handle, joining, joined, past, overtaken, parent,
             misjoined>>
tracker == <<current_timedlockset, cached_timedlockset, lock_clock, mem_state,
             flushed_mem_state, race_likely_stores, race_likely_loads, irh,
             now, stores, loads, acquisitions, depth, held_since, nested,
             written, unflushed, dropped>>
windows == <<held, open, closed, reads>>
memory  == <<tracker, windows>>
history == <<begun, caught, accessors, initialising>>
control == <<check_unpersisted_stores, app, code, ip, analysed, verdict>>
vars    == <<threads, memory, history, control>>

-----------------------------------------------------------------------------
Init ==
  /\ T!Init /\ P!Init /\ W!Init
  /\ check_unpersisted_stores \in Unpersisted
  /\ app \in Applications
  /\ code = [t \in Tid |-> IF t = Main THEN app["main"] ELSE <<>>]
  /\ ip = [t \in Tid |-> 1]
  /\ analysed = FALSE
  /\ verdict = {}
  /\ begun = [t \in Tid |-> [s \in {} |-> 0]]
  /\ caught = {}
  /\ accessors = [b \in Byte |-> {}]
  /\ initialising = {}

\* The next operation of t is `operation`.
At(t, operation) ==
  /\ ~analysed
  /\ pc[t] = "running"
  /\ ip[t] <= Len(code[t])
  /\ code[t][ip[t]] = operation

Advance(t) ==
  /\ ip' = [ip EXCEPT ![t] = @ + 1]
  /\ UNCHANGED <<check_unpersisted_stores, app, code, analysed, verdict>>

Accessing(t, b) == accessors' = [accessors EXCEPT ![b] = @ \cup {t}]

\* The windows of t this step closes, if their byte is not published by now.
NoteClosed(t) ==
  initialising' = initialising \cup
    {<<"window", t, w.store, w.byte>> :
       w \in {v \in closed'[t] \ closed[t] : Cardinality(accessors'[v.byte]) <= N}}

\* What a handler does to P where it looks at check_unpersisted_stores.
TrackStore(t, b) ==
  \/ check_unpersisted_stores /\ P!Store(t, b, 1)
  \/ ~check_unpersisted_stores /\ Q!Store(t, b, 1)

TrackRMW(t, b) ==
  \/ check_unpersisted_stores /\ P!RMW(t, b, 1)
  \/ ~check_unpersisted_stores /\ Q!RMW(t, b, 1)

TrackExit(t) ==
  \/ check_unpersisted_stores /\ P!Exit(t)
  \/ ~check_unpersisted_stores /\ Q!Exit(t)

NoteStore(t, b) ==
  /\ begun' = [begun EXCEPT ![t] = [s \in DOMAIN @ \cup {now[t]} |->
                                      IF s = now[t] THEN Segments[t] ELSE @[s]]]
  /\ Accessing(t, b)
  /\ NoteClosed(t)
  /\ UNCHANGED caught

Store(t) ==
  \E b \in Byte :
    /\ At(t, <<"store", b>>)
    /\ UNCHANGED threads
    /\ TrackStore(t, b) /\ W!Store(t, {b})
    /\ NoteStore(t, b) /\ Advance(t)

RMW(t) ==
  \E b \in Byte :
    /\ At(t, <<"rmw", b>>)
    /\ UNCHANGED threads
    /\ TrackRMW(t, b) /\ W!Atomic(t, {b})
    /\ NoteStore(t, b) /\ Advance(t)

Load(t) ==
  \E b \in Byte :
    /\ At(t, <<"load", b>>)
    /\ UNCHANGED threads
    /\ P!Load(t, b, 1, ip[t]) /\ W!Load(t, {b}, ip[t])
    /\ caught' = caught \cup
         UNION {{<<u, w.store, b, t, ip[t]>> : w \in {v \in open[u] : v.byte = b}} :
                  u \in Tid \ {t}}
    /\ Accessing(t, b)
    /\ initialising' = initialising \cup
         {<<"load", t, i, b>> : i \in {j \in {ip[t]} : Cardinality(accessors'[b]) <= N}}
    /\ UNCHANGED begun
    /\ Advance(t)

Flush(t) ==
  \E b \in Byte :
    /\ At(t, <<"flush", b>>)
    /\ UNCHANGED threads
    /\ P!Flush(t, b) /\ W!Flush(t, b)
    /\ UNCHANGED history /\ Advance(t)

Fence(t) ==
  /\ At(t, <<"fence">>)
  /\ UNCHANGED threads
  /\ P!Fence(t) /\ W!Fence(t)
  /\ UNCHANGED <<begun, caught, accessors>>
  /\ NoteClosed(t) /\ Advance(t)

\* A mutex is granted when no other thread holds it.
Acquire(t) ==
  \E l \in Lock :
    /\ At(t, <<"lock", l>>)
    /\ \A u \in Tid \ {t} : depth[u][l] = 0
    /\ UNCHANGED threads
    /\ P!AcquireLock(t, l) /\ W!Acquire(t, l)
    /\ UNCHANGED history /\ Advance(t)

Release(t) ==
  \E l \in Lock :
    /\ At(t, <<"unlock", l>>)
    /\ UNCHANGED threads
    /\ P!ReleaseLock(t, l) /\ W!Release(t, l)
    /\ UNCHANGED history /\ Advance(t)

\* A flag in volatile memory that one thread sets and another waits for.  The
\* tool sees neither.
Published ==
  \E t \in Tid : \E i \in 1 .. ip[t] - 1 : code[t][i] = <<"publish">>

Publish(t) ==
  /\ At(t, <<"publish">>)
  /\ UNCHANGED <<threads, memory, history>> /\ Advance(t)

Await(t) ==
  /\ At(t, <<"await">>)
  /\ Published
  /\ UNCHANGED <<threads, memory, history>> /\ Advance(t)

\* t enters its next segment, as T has it.
NextSegment(t) == P!NextSegment(t) /\ W!NextSegment(t) /\ UNCHANGED history

CreateBegin(t) ==
  /\ \E routine \in DOMAIN app : At(t, <<"create", routine>>)
  /\ T!CreateBegin(t) /\ NextSegment(t)
  /\ UNCHANGED control

\* The new thread runs the routine pthread_create names.
CreateOriginal(t) ==
  /\ ~analysed
  /\ T!CreateOriginal(t)
  /\ code' = [u \in Tid |-> IF pc'[u] = "starting" /\ pc[u] = "none"
                               THEN app[code[t][ip[t]][2]] ELSE code[u]]
  /\ UNCHANGED <<memory, history, check_unpersisted_stores, app, ip, analysed,
                 verdict>>

CreateWait(t) ==
  /\ ~analysed
  /\ T!CreateWait(t)
  /\ UNCHANGED <<memory, history, control>>

CreateMap(t) ==
  /\ ~analysed
  /\ T!CreateMap(t)
  /\ UNCHANGED <<memory, history>> /\ Advance(t)

ThreadStart(t) ==
  /\ ~analysed
  /\ T!ThreadStartSignal(t) \/ T!ThreadStartInit(t)
  /\ UNCHANGED <<memory, history, control>>

\* The thread is named by the order of the creations.
JoinOriginal(t) ==
  \E u \in Tid :
    /\ At(t, <<"join", u>>)
    /\ T!JoinOriginal(t) /\ joining'[t] = u
    /\ UNCHANGED <<memory, history, control>>

JoinEnd(t) ==
  /\ ~analysed
  /\ T!JoinEnd(t) /\ NextSegment(t)
  /\ Advance(t)

\* The start routine of a thread returns, or "main" calls pthread_exit.
ThreadExit(t) ==
  /\ \/ At(t, <<"exit">>)
     \/ t # Main /\ ~analysed /\ ip[t] > Len(code[t])
  /\ T!ThreadExit(t)
  /\ TrackExit(t) /\ W!Exit(t)
  /\ UNCHANGED <<begun, caught, accessors, control>>
  /\ NoteClosed(t)

\* "main" has returned, or all threads have ended: Pin is about to end the
\* process and calls CheckPMRaces before it calls TraceThreadExit for the
\* threads that are left.  Different threads never share a backtrace here.
Analyse ==
  /\ ~analysed
  /\ \/ pc[Main] = "running" /\ ip[Main] > Len(code[Main])
     \/ \A t \in Tid : pc[t] \in {"none", "exited"}
  /\ analysed' = TRUE
  /\ verdict' = R!CheckPMRaces(
       [t \in Tid |-> {[r EXCEPT !.write_trace = <<t, @>>] :
                          r \in race_likely_stores[t]}],
       [t \in Tid |-> {[l EXCEPT !.backtrace = <<t, @>>] :
                          l \in race_likely_loads[t]}],
       vector_clocks)
  /\ UNCHANGED <<threads, memory, history, check_unpersisted_stores, app, code,
                 ip>>

Finished == analysed /\ UNCHANGED vars

Step(t) ==
  \/ Store(t) \/ RMW(t) \/ Load(t) \/ Flush(t) \/ Fence(t)
  \/ Acquire(t) \/ Release(t) \/ Publish(t) \/ Await(t)
  \/ CreateBegin(t) \/ CreateOriginal(t) \/ CreateWait(t) \/ CreateMap(t)
  \/ ThreadStart(t) \/ JoinOriginal(t) \/ JoinEnd(t) \/ ThreadExit(t)

Next == (\E t \in Tid : Step(t)) \/ Analyse \/ Finished

Spec == Init /\ [][Next]_vars

-----------------------------------------------------------------------------
(* Properties *)

HappensBefore(t, i, u, j) == <<t, i>> \in past[u][j]

\* The load r of u races with the window w of t: it may come between the
\* store and the end of the window, and no lock keeps it out.
Races(t, w, u, r) ==
  /\ t # u
  /\ r.byte = w.byte
  /\ r.locks \cap w.locks = {}
  /\ ~HappensBefore(u, r.segment, t, begun[t][w.store])
  /\ ~HappensBefore(t, w.segment, u, r.segment)

ReportOf(t, w, u, r) ==
  R!Report(<<t, w.store>>, w.how, w.flushed, w.how = "fence", <<u, r.id>>)

\* The load ended before the window did, because t joined u meanwhile.
JoinedInside(t, w, u, r) == HappensBefore(u, r.segment, t, w.segment)

\* A segment of t begins inside the window that t enters by a join: its past
\* gains that of another thread.
JoinsInside(t, w) ==
  \E i \in begun[t][w.store] + 1 .. w.segment :
    past[t][i] # past[t][i - 1] \cup {<<t, i>>}

Initialising(t, w, u, r) ==
  \/ <<"window", t, w.store, w.byte>> \in initialising
  \/ <<"load", u, r.id, r.byte>> \in initialising

\* Every access so far has a segment that clock_i can number.
SegmentsNumbered ==
  \A t \in Tid :
    /\ \A w \in closed[t] : w.segment <= IndexModulus
    /\ \A r \in reads[t] : r.segment <= IndexModulus

\* No thread has taken locks so often that a timestamp has come again.
StampsFresh == \A t \in Tid : acquisitions[t] <= ClockModulus

\* What the tool looks for: without check_unpersisted_stores only stores that
\* were made persistent.
LookedFor(w) == check_unpersisted_stores \/ w.how = "fence"

\* Without check_unpersisted_stores nothing removes a flushed store that is
\* overwritten before the fence: its record says that its window lasted until
\* then.
KeptTooLong(t, w) ==
  ~check_unpersisted_stores /\ w.how = "store" /\ w.flushed

\* Whatever the tool reports is a race: of a store that was made persistent,
\* overwritten or left behind, with a load that nothing orders before the
\* store or after the window's end, and that shares no lock held throughout
\* the window.  Locks, segments and backtraces of a report always belong to
\* the same two accesses.  It takes 2^16 creations and joins, a join of the
\* wrong thread or a creation overtaken by another creator to break this, or
\* a store that is kept too long.
NoFalseAlarms ==
  analysed /\ SegmentsNumbered /\ ~misjoined /\ "other" \notin overtaken =>
    \A report \in verdict :
      \E t \in Tid : \E w \in closed[t] :
        \/ KeptTooLong(t, w) /\ report.write_trace = <<t, w.store>>
        \/ \E u \in Tid : \E r \in reads[u] :
              Races(t, w, u, r) /\ report = ReportOf(t, w, u, r)

\* Every race that a run leaves behind is reported, however the threads were
\* scheduled, with three exceptions: the load or the end of the window came
\* while at most N threads had touched the byte; or the storing thread joined
\* the loading one before it made the store persistent (a record has the
\* segment of the window's end only, hawkset.cpp:416); or the window was
\* still open when the analysis ran.  After 2^32 acquisitions a lock taken
\* anew can have the timestamp it had when the window opened, and then seems
\* to protect it.
RacesReported ==
  analysed /\ SegmentsNumbered /\ StampsFresh /\ ~misjoined /\ overtaken = {} =>
    \A t, u \in Tid : \A w \in closed[t], r \in reads[u] :
      /\ LookedFor(w) /\ Races(t, w, u, r)
      /\ ~JoinedInside(t, w, u, r) /\ ~Initialising(t, w, u, r)
      => ReportOf(t, w, u, r) \in verdict

\* A load that really saw a store before it was persistent is reported once
\* the window has ended, unless the storing thread joined the loading one
\* first: with N <= 1 the heuristic does not hide it, and no lockset does.
\* Nor does an overtaken creation, unless the storing thread joins a thread
\* while the window is open: one that was overtaken knows of a load of its
\* creator that it does not come after, and hands that on.
CaughtReported ==
  analysed /\ SegmentsNumbered /\ StampsFresh /\ ~misjoined /\ N <= 1 =>
    \A c \in caught : \A w \in closed[c[1]], r \in reads[c[4]] :
      /\ w.store = c[2] /\ w.byte = c[3] /\ r.id = c[5]
      /\ LookedFor(w) /\ ~JoinedInside(c[1], w, c[4], r)
      /\ overtaken = {} \/ ~JoinsInside(c[1], w)
      => ReportOf(c[1], w, c[4], r) \in verdict
=============================================================================
