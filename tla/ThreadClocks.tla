---------------------------- MODULE ThreadClocks ----------------------------
(***************************************************************************)
(* How the tool follows the creation, the end and the joining of threads   *)
(* (src/src/hawkset.cpp): PthreadCreateReplacement, TraceThreadStart,      *)
(* PthreadJoinReplacement and TraceThreadExit, with the ProcessThread...   *)
(* routines they call.  A thread's life is cut into segments, one per      *)
(* element of its vector_clocks; every later access is labelled with the   *)
(* segment it falls into, and two accesses can race only when the clocks   *)
(* of their segments are concurrent.                                       *)
(*                                                                         *)
(* The creator and the new thread talk through globals.  A step is what a  *)
(* thread does between two points where another thread can see or change   *)
(* those globals.                                                          *)
(***************************************************************************)
EXTENDS Integers, Sequences, VectorClock

CONSTANTS MaxThreads,  \* TLS_MAX_SIZE: thread ids the tool has room for
          Pthread,     \* the pthread_t values the C library hands out
          MainPthread, \* the one the initial thread has
          MaxCreates   \* bound: calls of pthread_create in a behaviour

ASSUME ThreadsAssumption == /\ MaxThreads \in Nat \ {0}
                            /\ MainPthread \in Pthread
                            /\ MaxCreates \in Nat

Tid   == 0 .. MaxThreads - 1
Main  == 0
NoTid == -1

VARIABLES
  pc,                        \* where each thread is in the code above
  vector_clocks,             \* ThreadData::vector_clocks of each thread
  creator_thread_id, creator_thread_clock,
  created_thread_id,
  created_pthread,           \* *created_pthread_id_address
  thread_creation_mutex,     \* the thread that holds it, or NoTid
  thread_creation_semaphore,
  pthread_id_to_tid,
  exit_threads_clock,
  creates,                   \* calls of pthread_create so far
  handle,                    \* the pthread_t of each thread (C library)
  joining,                   \* the thread t has joined in the C library
  joined                     \* threads joined: their pthread_t is free

(* What really happened, for the properties only. *)
VARIABLES
  past,       \* past[t][i]: the segments that happen before t's i-th, with it
  overtaken,  \* who overwrote creator_thread_clock before the child read it:
              \* the child's creator itself ("own") or another thread
  parent,     \* the real creator of each thread
  misjoined   \* a join has read another thread's id out of the map

handshake == <<creator_thread_id, creator_thread_clock, created_thread_id,
               created_pthread, thread_creation_mutex,
               thread_creation_semaphore, creates>>
maps      == <<pthread_id_to_tid, exit_threads_clock>>
library   == <<handle, joining, joined, parent>>
ghosts    == <<past, overtaken, misjoined>>
vars      == <<pc, vector_clocks, handshake, maps, library, ghosts>>

Phases == {"none",       \* the thread does not exist yet
           "starting",   \* it exists, TraceThreadStart has not run
           "signalled",  \* it has set the semaphore, it has no clock yet
           "running",    \* it runs the application
           "creating",   \* in PthreadCreateReplacement, at the original call
           "waiting",    \* in PthreadCreateReplacement, at PIN_SemaphoreWait
           "mapping",    \* in PthreadCreateReplacement, writing the map
           "joining",    \* in PthreadJoinReplacement, the original returned
           "exited"}     \* TraceThreadExit has run

Last(s) == s[Len(s)]

Exists(t) == pc[t] # "none"

\* A thread keeps its pthread_t until it has been joined.
Owns(t, p) == Exists(t) /\ t \notin joined /\ handle[t] = p

-----------------------------------------------------------------------------
\* ProcessThreadCreate: the clock it publishes for the new thread, and the
\* one the creator goes on with.
ClockForChild(c, tid) == Tick(c, tid)

\* A creator that goes on with the clock it published.
ClockAfterCreateShared(c, tid) == ClockForChild(c, tid)

ClockAfterCreate(c, tid) == Tick(ClockForChild(c, tid), tid)

\* ProcessThreadInit with the creator's id in place of the thread's own.
FirstClockOfCreator(tid) ==
  LET creator_clock == IF creator_thread_id # NoTid THEN creator_thread_clock
                                                    ELSE EmptyClock
  IN  Tick(Tick(creator_clock, creator_thread_id), creator_thread_id)

\* ProcessThreadInit: two ticks over the creator's clock, or over an empty
\* one when no thread was ever created.
FirstClock(tid) ==
  LET creator_clock == IF creator_thread_id # NoTid THEN creator_thread_clock
                                                    ELSE EmptyClock
  IN  Tick(Tick(creator_clock, tid), tid)

\* A join that forgets what the joined thread did.
ClockAfterJoinAlone(c, tid, d) == Tick(c, tid)

\* ProcessThreadJoin.
ClockAfterJoin(c, tid, d) == Merge(Tick(c, tid), d)

Init ==
  /\ pc = [t \in Tid |-> IF t = Main THEN "starting" ELSE "none"]
  /\ vector_clocks = [t \in Tid |-> <<>>]
  /\ creator_thread_id = NoTid
  /\ creator_thread_clock = EmptyClock
  /\ created_thread_id = 0
  /\ created_pthread = MainPthread
  /\ thread_creation_mutex = NoTid
  /\ thread_creation_semaphore = FALSE
     \* operator[] yields 0 for a pthread_t and an empty clock for a thread
     \* that are not in these maps, so both are total functions here.
  /\ pthread_id_to_tid = [p \in Pthread |-> 0]
  /\ exit_threads_clock = [t \in Tid |-> EmptyClock]
  /\ creates = 0
  /\ handle = [t \in Tid |-> MainPthread]
  /\ joining = [t \in Tid |-> NoTid]
  /\ joined = {}
  /\ past = [t \in Tid |-> IF t = Main THEN << {<<t, 1>>} >> ELSE <<>>]
  /\ overtaken = {}
  /\ parent = [t \in Tid |-> NoTid]
  /\ misjoined = FALSE

\* The threads that are still to read creator_thread_clock for good.
Unread == {t \in Tid \ {Main} : pc[t] \in {"starting", "signalled"}}

\* t closes its current segment and opens the next with clock c; `more` is
\* the past it gains by doing so.
NewSegment(t, c, more) ==
  /\ vector_clocks' = [vector_clocks EXCEPT ![t] = Append(@, c)]
  /\ past' = [past EXCEPT
                ![t] = Append(@, Last(@) \cup more \cup {<<t, Len(@) + 1>>})]

\* PthreadCreateReplacement up to the original call: take the mutex, note
\* the creator, ProcessThreadCreate.
CreateBegin(t) ==
  /\ pc[t] = "running"
  /\ thread_creation_mutex = NoTid
  /\ creates < MaxCreates
  /\ creates' = creates + 1
  /\ thread_creation_mutex' = t
  /\ creator_thread_id' = t
  /\ creator_thread_clock' = ClockForChild(Last(vector_clocks[t]), t)
  /\ NewSegment(t, ClockAfterCreate(Last(vector_clocks[t]), t), {})
  /\ pc' = [pc EXCEPT ![t] = "creating"]
  /\ overtaken' = overtaken \cup
                  {IF parent[u] = t THEN "own" ELSE "other" : u \in Unread}
  /\ UNCHANGED <<created_thread_id, created_pthread,
                 thread_creation_semaphore, maps, library, misjoined>>

\* The original pthread_create succeeds: it stores the pthread_t and the
\* new thread exists, with the next thread id.  The new thread comes after
\* what its creator did before the call.
CreateOriginal(t) ==
  /\ pc[t] = "creating"
  /\ \E child \in Tid, p \in Pthread :
       /\ ~Exists(child) /\ \A u \in 0 .. child - 1 : Exists(u)
       /\ \A u \in Tid : ~Owns(u, p)
       /\ pc' = [pc EXCEPT ![t] = "waiting", ![child] = "starting"]
       /\ handle' = [handle EXCEPT ![child] = p]
       /\ parent' = [parent EXCEPT ![child] = t]
       /\ created_pthread' = p
       /\ past' = [past EXCEPT ![child] =
                     << past[t][Len(past[t]) - 1] \cup {<<child, 1>>} >>]
  /\ UNCHANGED <<vector_clocks, creator_thread_id, creator_thread_clock,
                 created_thread_id, thread_creation_mutex,
                 thread_creation_semaphore, creates, maps, joining, joined,
                 overtaken, misjoined>>

\* The original pthread_create fails: only the mutex is released.  The
\* segment ProcessThreadCreate opened stays.
CreateFail(t) ==
  /\ pc[t] = "creating"
  /\ pc' = [pc EXCEPT ![t] = "running"]
  /\ thread_creation_mutex' = NoTid
  /\ UNCHANGED <<vector_clocks, creator_thread_id, creator_thread_clock,
                 created_thread_id, created_pthread,
                 thread_creation_semaphore, creates, maps, library, ghosts>>

\* A TraceThreadStart with its test of tid the wrong way round.
SemaphoreAfterStartInverted(tid) == tid = Main \/ thread_creation_semaphore

\* if(tid != 0) PIN_SemaphoreSet.
SemaphoreAfterStart(tid) == tid # Main \/ thread_creation_semaphore

\* TraceThreadStart, first half: publish the thread id, and wake the
\* creator unless this is the initial thread.
ThreadStartSignal(t) ==
  /\ pc[t] = "starting"
  /\ created_thread_id' = t
  /\ thread_creation_semaphore' = SemaphoreAfterStart(t)
  /\ pc' = [pc EXCEPT ![t] = "signalled"]
  /\ UNCHANGED <<vector_clocks, creator_thread_id, creator_thread_clock,
                 created_pthread, thread_creation_mutex, creates, maps,
                 library, ghosts>>

\* TraceThreadStart, second half: ProcessThreadInit.  It reads the creator's
\* globals without the mutex, after the creator was woken.
ThreadStartInit(t) ==
  /\ pc[t] = "signalled"
  /\ vector_clocks' = [vector_clocks EXCEPT ![t] = Append(@, FirstClock(t))]
  /\ pc' = [pc EXCEPT ![t] = "running"]
  /\ UNCHANGED <<handshake, maps, library, ghosts>>

\* A wait that leaves the semaphore set.
SemaphoreAfterWaitKept(s) == s

\* PIN_SemaphoreClear.
SemaphoreAfterWait(s) == FALSE

CreateWait(t) ==
  /\ pc[t] = "waiting"
  /\ thread_creation_semaphore
  /\ thread_creation_semaphore' = SemaphoreAfterWait(thread_creation_semaphore)
  /\ pc' = [pc EXCEPT ![t] = "mapping"]
  /\ UNCHANGED <<vector_clocks, creator_thread_id, creator_thread_clock,
                 created_thread_id, created_pthread, thread_creation_mutex,
                 creates, maps, library, ghosts>>

\* The map entry of the new pthread_t, and the release of the mutex.
CreateMap(t) ==
  /\ pc[t] = "mapping"
  /\ pthread_id_to_tid' =
       [pthread_id_to_tid EXCEPT ![created_pthread] = created_thread_id]
  /\ thread_creation_mutex' = NoTid
  /\ pc' = [pc EXCEPT ![t] = "running"]
  /\ UNCHANGED <<vector_clocks, creator_thread_id, creator_thread_clock,
                 created_thread_id, created_pthread,
                 thread_creation_semaphore, creates, exit_threads_clock,
                 library, ghosts>>

\* The original pthread_join returns 0: u has ended, its pthread_t is free.
JoinOriginal(t) ==
  /\ pc[t] = "running"
  /\ \E u \in Tid \ ({t} \cup joined) :
       /\ pc[u] = "exited"
       /\ joining' = [joining EXCEPT ![t] = u]
       /\ joined' = joined \cup {u}
  /\ pc' = [pc EXCEPT ![t] = "joining"]
  /\ UNCHANGED <<vector_clocks, handshake, maps, handle, parent, ghosts>>

\* What pthread_id_to_tid[p] yields.  The map is read without the mutex: a
\* lookup that runs while a creator inserts may miss the key.
Lookups(p) ==
  {pthread_id_to_tid[p]} \cup
  {0 : t \in {u \in Tid : pc[u] = "mapping"}}

\* PthreadJoinReplacement after the original: resolve the pthread_t, then
\* ProcessThreadJoin.
JoinEnd(t) ==
  /\ pc[t] = "joining"
  /\ \E exit_tid \in Lookups(handle[joining[t]]) :
       /\ NewSegment(t, ClockAfterJoin(Last(vector_clocks[t]), t,
                                       exit_threads_clock[exit_tid]),
                     Last(past[joining[t]]))
       /\ misjoined' = (misjoined \/ exit_tid # joining[t])
  /\ joining' = [joining EXCEPT ![t] = NoTid]
  /\ pc' = [pc EXCEPT ![t] = "running"]
  /\ UNCHANGED <<handshake, maps, handle, joined, parent, overtaken>>

\* TraceThreadExit: ProcessThreadExit closes the last segment.
ThreadExit(t) ==
  /\ pc[t] = "running"
  /\ LET clock == Tick(Last(vector_clocks[t]), t)
     IN  /\ NewSegment(t, clock, {})
         /\ exit_threads_clock' = [exit_threads_clock EXCEPT ![t] = clock]
  /\ pc' = [pc EXCEPT ![t] = "exited"]
  /\ UNCHANGED <<handshake, pthread_id_to_tid, library, overtaken, misjoined>>

\* The application has ended.
Finished ==
  /\ \A t \in Tid : pc[t] \in {"none", "exited"}
  /\ UNCHANGED vars

Step(t) ==
  \/ CreateBegin(t) \/ CreateOriginal(t) \/ CreateFail(t)
  \/ CreateWait(t) \/ CreateMap(t)
  \/ ThreadStartSignal(t) \/ ThreadStartInit(t)
  \/ JoinOriginal(t) \/ JoinEnd(t) \/ ThreadExit(t)

Next == (\E t \in Tid : Step(t)) \/ Finished

\* The system schedules every thread, so a thread that can leave the tool's
\* routines does.  Nothing obliges the application to create, join or exit.
Fairness ==
  \A t \in Tid :
    /\ WF_vars(CreateOriginal(t) \/ CreateFail(t))
    /\ WF_vars(CreateWait(t)) /\ WF_vars(CreateMap(t))
    /\ WF_vars(ThreadStartSignal(t)) /\ WF_vars(ThreadStartInit(t))
    /\ WF_vars(JoinEnd(t))

Spec     == Init /\ [][Next]_vars
FairSpec == Spec /\ Fairness

-----------------------------------------------------------------------------
(* Properties *)

IsClockSequence(s) ==
  /\ s \in Seq({s[i] : i \in DOMAIN s})
  /\ \A i \in DOMAIN s : IsClock(s[i], Tid)

ClockTypes ==
  /\ vector_clocks = [t \in Tid |-> vector_clocks[t]]
  /\ \A t \in Tid : IsClockSequence(vector_clocks[t])
  /\ exit_threads_clock = [t \in Tid |-> exit_threads_clock[t]]
  /\ \A t \in Tid : IsClock(exit_threads_clock[t], Tid)
  /\ IsClock(creator_thread_clock, Tid)

ControlTypes ==
  /\ pc \in [Tid -> Phases]
  /\ creator_thread_id \in Tid \cup {NoTid}
  /\ created_thread_id \in Tid
  /\ created_pthread \in Pthread
  /\ thread_creation_mutex \in Tid \cup {NoTid}
  /\ thread_creation_semaphore \in BOOLEAN
  /\ pthread_id_to_tid \in [Pthread -> Tid]
  /\ creates \in Nat
  /\ handle \in [Tid -> Pthread]
  /\ joining \in [Tid -> Tid \cup {NoTid}]
  /\ joined \subseteq Tid

HistoryTypes ==
  /\ past \in [Tid -> Seq(SUBSET (Tid \X Nat))]
  /\ overtaken \subseteq {"own", "other"}
  /\ parent \in [Tid -> Tid \cup {NoTid}]
  /\ misjoined \in BOOLEAN

\* The types of the state.
TypeOK == ControlTypes /\ ClockTypes /\ HistoryTypes

Segments(t) == 1 .. Len(vector_clocks[t])

Unordered(t, i, u, j) ==
  <<t, i>> \notin past[u][j] /\ <<u, j>> \notin past[t][i]

\* The clocks of two segments of different threads are concurrent exactly
\* when neither segment happens before the other, as long as every child
\* read the clock its creator published and every join found its thread:
\* TraceThreadStart wakes the creator before it reads, so a second creation
\* can overwrite the clock, and a join can be too early or too late for the
\* map.  Those are the only ways the clocks go wrong.
ClocksExact ==
  ~misjoined /\ overtaken = {} =>
    \A t, u \in Tid : t # u =>
      \A i \in Segments(t), j \in Segments(u) :
        IsConcurrent(vector_clocks[t][i], vector_clocks[u][j])
          <=> Unordered(t, i, u, j)

\* The clocks that are compared or merged at some time.
Clocks ==
  UNION {{vector_clocks[t][i] : i \in DOMAIN vector_clocks[t]} : t \in Tid}

\* is_concurrent answers exactly "neither clock is below the other", and the
\* same from both sides, on every two segments of a run: also on two of one
\* thread, and on the clocks a misjoin or an overtaken creation has left.
\* CheckPMRacesPerThread calls it on the load's clock with the store's as
\* the argument, so an asymmetry would lose races.
ConcurrentIffIncomparable ==
  \A c, d \in Clocks :
    /\ IsConcurrent(c, d) <=> Incomparable(c, d)
    /\ IsConcurrent(c, d) <=> IsConcurrent(d, c)

\* update(vc) yields the least upper bound, so that a joining thread is
\* ordered after both itself and the joined thread and after nothing else:
\* of the clocks of a run only those above both are above the result.
MergeIsLeastUpperBound ==
  \A t \in Tid : joining[t] # NoTid =>
    LET c == Last(vector_clocks[t])
        d == exit_threads_clock[joining[t]]
        m == Merge(c, d)
    IN  /\ Leq(c, m) /\ Leq(d, m)
        /\ \A e \in Clocks : Leq(c, e) /\ Leq(d, e) => Leq(m, e)

\* When a creator overtakes only its own earlier child, the child's clock
\* says too much: races are hidden, but none is invented.  Two segments
\* that are ordered never have concurrent clocks.
NoFalseConcurrency ==
  ~misjoined /\ "other" \notin overtaken =>
    \A t, u \in Tid : t # u =>
      \A i \in Segments(t), j \in Segments(u) :
        IsConcurrent(vector_clocks[t][i], vector_clocks[u][j])
          => Unordered(t, i, u, j)

\* The thread whose creation is still between the original call and the
\* map entry.
BeingMapped(t) ==
  /\ thread_creation_mutex # NoTid
  /\ pc[thread_creation_mutex] \in {"waiting", "mapping"}
  /\ handle[t] = created_pthread

\* Outside its own creation, a thread that has not been joined is what its
\* pthread_t resolves to, whatever other creations are under way, have
\* failed, or have used the same pthread_t before.
HandleResolves ==
  \A t \in Tid :
    Exists(t) /\ t \notin joined /\ ~BeingMapped(t)
      => pthread_id_to_tid[handle[t]] = t

\* Whoever enters PthreadCreateReplacement leaves it, and a new thread gets
\* its clock: the handshake over mutex and semaphore cannot hang.
CreationCompletes ==
  \A t \in Tid :
    pc[t] \in {"creating", "starting"} ~> pc[t] = "running"
=============================================================================
