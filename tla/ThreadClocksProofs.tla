------------------------- MODULE ThreadClocksProofs -------------------------
(***************************************************************************)
(* Proofs about ThreadClocks, for any number of threads, of pthread_t      *)
(* values and of creations: the handshake, and the clocks against the      *)
(* order of the segments they stand for.                                   *)
(***************************************************************************)
EXTENDS ThreadClocks, TLAPS

-----------------------------------------------------------------------------
(* What the operations of VectorClock compute, for clocks of any size over *)
(* any set of thread ids.                                                  *)

\* update(tid) yields a clock over the same ids and the ticked one.
LEMMA TickIsClock ==
  ASSUME NEW T, NEW c, NEW tid \in T, IsClock(c, T)
  PROVE  IsClock(Tick(c, tid), T)
  BY DEF IsClock, At, Tick

\* update(vc) yields a clock over the ids of both.
LEMMA MergeIsClock ==
  ASSUME NEW T, NEW c, NEW d, IsClock(c, T), IsClock(d, T)
  PROVE  IsClock(Merge(c, d), T)
  BY DEF IsClock, Merge

\* is_concurrent, with its two early returns and its two loops, decides
\* exactly whether the clocks are incomparable: no timestamp is 0, so a
\* missing key and a smaller timestamp mean the same.
THEOREM IsConcurrentCorrect ==
  ASSUME NEW T, NEW c, NEW d, IsClock(c, T), IsClock(d, T)
  PROVE  IsConcurrent(c, d) <=> Incomparable(c, d)
<1>1. ~Leq(d, c) <=> \E t \in DOMAIN d : t \notin DOMAIN c \/ c[t] < d[t]
  BY DEF IsClock, Leq, At
<1>2. ~Leq(c, d) <=> \/ \E t \in DOMAIN d : t \in DOMAIN c /\ c[t] > d[t]
                     \/ \E t \in DOMAIN c : t \notin DOMAIN d
  BY DEF IsClock, Leq, At
<1> QED
  BY <1>1, <1>2 DEF IsConcurrent, Incomparable

\* Concurrency is symmetric, although the code's two scans are not: the
\* analysis may compare the clocks either way round.
THEOREM IsConcurrentSymmetric ==
  ASSUME NEW T, NEW c, NEW d, IsClock(c, T), IsClock(d, T)
  PROVE  IsConcurrent(c, d) <=> IsConcurrent(d, c)
  BY IsConcurrentCorrect DEF Incomparable

\* update(vc) is the least upper bound of the two clocks: a join orders the
\* joining thread after both, and after nothing else.
THEOREM MergeIsLub ==
  ASSUME NEW T, NEW c, NEW d, NEW e,
         IsClock(c, T), IsClock(d, T), IsClock(e, T)
  PROVE  /\ Leq(c, Merge(c, d)) /\ Leq(d, Merge(c, d))
         /\ Leq(c, e) /\ Leq(d, e) => Leq(Merge(c, d), e)
<1>1. \A t : At(c, t) \in Nat /\ At(d, t) \in Nat /\ At(e, t) \in Nat
  BY DEF IsClock, At
<1>2. \A t : /\ At(c, t) <= At(Merge(c, d), t) /\ At(d, t) <= At(Merge(c, d), t)
             /\ At(Merge(c, d), t) \in {At(c, t), At(d, t)}
  BY <1>1 DEF IsClock, At, Merge
<1>3. DOMAIN Merge(c, d) = DOMAIN c \cup DOMAIN d
  BY DEF Merge
<1>4. ASSUME Leq(c, e), Leq(d, e), NEW t \in DOMAIN Merge(c, d)
      PROVE  At(Merge(c, d), t) <= At(e, t)
  <2>1. At(c, t) <= At(e, t)
    BY <1>1, <1>4 DEF Leq, At
  <2>2. At(d, t) <= At(e, t)
    BY <1>1, <1>4 DEF Leq, At
  <2> QED
    BY <1>2, <2>1, <2>2
<1> QED
  BY <1>2, <1>3, <1>4 DEF Leq

-----------------------------------------------------------------------------
(* Type correctness, in three parts: the variables that control the        *)
(* handshake, the history, and the clocks.                                 *)

\* A sequence is one over the values that occur in it.
LEMMA SeqOfRange ==
  ASSUME NEW S, NEW s \in Seq(S)
  PROVE  s \in Seq({s[i] : i \in DOMAIN s})
<1> DEFINE R == {s[i] : i \in DOMAIN s}
<1>1. s \in [1 .. Len(s) -> S] /\ Len(s) \in Nat
  OBVIOUS
<1>2. s \in [1 .. Len(s) -> R]
  BY <1>1
<1> HIDE DEF R
<1>3. \A n \in Nat : [1 .. n -> R] \subseteq Seq(R)
  OBVIOUS
<1>4. s \in Seq(R)
  BY <1>1, <1>2, <1>3
<1> QED
  BY <1>4 DEF R

LEMMA AppendClock ==
  ASSUME NEW s, IsClockSequence(s), NEW c, IsClock(c, Tid)
  PROVE  IsClockSequence(Append(s, c)) /\ Len(Append(s, c)) = Len(s) + 1
<1> DEFINE R == {s[i] : i \in DOMAIN s} \cup {c}
<1>1. s \in Seq(R) /\ c \in R
  BY DEF IsClockSequence
<1>2. Append(s, c) \in Seq(R) /\ Len(Append(s, c)) = Len(s) + 1
  BY <1>1
<1>3. DOMAIN Append(s, c) = 1 .. Len(s) + 1 /\ Len(s) \in Nat
  BY <1>1
<1>4. \A i \in 1 .. Len(s) + 1 :
         Append(s, c)[i] = IF i = Len(s) + 1 THEN c ELSE s[i]
  BY <1>1
<1>5. \A i \in DOMAIN Append(s, c) : IsClock(Append(s, c)[i], Tid)
  BY <1>1, <1>3, <1>4 DEF IsClockSequence
<1>6. Append(s, c) \in Seq({Append(s, c)[i] : i \in DOMAIN Append(s, c)})
  BY <1>2, SeqOfRange
<1> QED
  BY <1>2, <1>5, <1>6 DEF IsClockSequence

LEMMA LastClock ==
  ASSUME NEW s, IsClockSequence(s), Len(s) >= 1
  PROVE  IsClock(Last(s), Tid)
  BY DEF IsClockSequence, Last

\* A thread joins one that exists, and only joins while it joins.
JoinsExisting ==
  \A t \in Tid :
    /\ pc[t] = "joining" => joining[t] \in Tid /\ Exists(joining[t])
    /\ joining[t] # NoTid => pc[t] = "joining"

ControlInv == ControlTypes /\ JoinsExisting

LEMMA TidFacts ==
  Tid \subseteq Nat /\ NoTid \notin Tid /\ 0 \in Tid /\ Main \in Tid
  BY ThreadsAssumption DEF Tid, NoTid, Main

LEMMA ControlStep == ControlInv /\ [Next]_vars => ControlInv'
<1> SUFFICES ASSUME ControlInv, [Next]_vars PROVE ControlInv'
  OBVIOUS
<1> USE TidFacts DEF ControlInv, ControlTypes, JoinsExisting, Phases, Exists,
                     handshake, maps, library
<1>1. ASSUME NEW t \in Tid, CreateBegin(t) PROVE ControlInv'
  BY <1>1 DEF CreateBegin
<1>2. ASSUME NEW t \in Tid, CreateOriginal(t) PROVE ControlInv'
  <2>1. PICK child \in Tid, p \in Pthread :
          /\ pc' = [pc EXCEPT ![t] = "waiting", ![child] = "starting"]
          /\ handle' = [handle EXCEPT ![child] = p]
          /\ created_pthread' = p
          /\ ~Exists(child)
          /\ pc[t] = "creating"
    BY <1>2 DEF CreateOriginal
  <2>2. UNCHANGED <<creator_thread_id, created_thread_id,
                    thread_creation_mutex, thread_creation_semaphore,
                    creates, pthread_id_to_tid, joining, joined>>
    BY <1>2 DEF CreateOriginal
  <2>3. ControlTypes'
    BY <2>1, <2>2
  <2>4. JoinsExisting'
    BY <2>1, <2>2
  <2> QED
    BY <2>3, <2>4
<1>3. ASSUME NEW t \in Tid, CreateFail(t) PROVE ControlInv'
  BY <1>3 DEF CreateFail
<1>4. ASSUME NEW t \in Tid, CreateWait(t) PROVE ControlInv'
  BY <1>4 DEF CreateWait, SemaphoreAfterWait
<1>5. ASSUME NEW t \in Tid, CreateMap(t) PROVE ControlInv'
  BY <1>5 DEF CreateMap
<1>6. ASSUME NEW t \in Tid, ThreadStartSignal(t) PROVE ControlInv'
  BY <1>6 DEF ThreadStartSignal, SemaphoreAfterStart
<1>7. ASSUME NEW t \in Tid, ThreadStartInit(t) PROVE ControlInv'
  BY <1>7 DEF ThreadStartInit
<1>8. ASSUME NEW t \in Tid, JoinOriginal(t) PROVE ControlInv'
  BY <1>8 DEF JoinOriginal
<1>9. ASSUME NEW t \in Tid, JoinEnd(t) PROVE ControlInv'
  BY <1>9 DEF JoinEnd
<1>10. ASSUME NEW t \in Tid, ThreadExit(t) PROVE ControlInv'
  BY <1>10 DEF ThreadExit
<1>11. CASE UNCHANGED vars
  BY <1>11 DEF vars
<1> QED
  BY <1>1, <1>2, <1>3, <1>4, <1>5, <1>6, <1>7, <1>8, <1>9, <1>10, <1>11
  DEF Next, Step, Finished

-----------------------------------------------------------------------------
\* A thread that has started has a clock.
StartedHasClock ==
  \A t \in Tid : pc[t] \notin {"none", "starting", "signalled"} =>
                   Len(vector_clocks[t]) >= 1

ClockInv == ClockTypes /\ StartedHasClock

LEMMA ClockSegment ==
  ASSUME ClockInv, NEW t \in Tid, NEW c, IsClock(c, Tid),
         vector_clocks' = [vector_clocks EXCEPT ![t] = Append(@, c)]
  PROVE  /\ vector_clocks' = [u \in Tid |-> vector_clocks'[u]]
         /\ \A u \in Tid : IsClockSequence(vector_clocks'[u])
         /\ \A u \in Tid : u # t => vector_clocks'[u] = vector_clocks[u]
         /\ Len(vector_clocks'[t]) >= 1
<1>1. /\ vector_clocks = [u \in Tid |-> vector_clocks[u]]
      /\ \A u \in Tid : IsClockSequence(vector_clocks[u])
  BY DEF ClockInv, ClockTypes
<1>2. Len(vector_clocks[t]) \in Nat
  BY <1>1 DEF IsClockSequence
<1> DEFINE s == Append(vector_clocks[t], c)
<1>3. IsClockSequence(s) /\ Len(s) >= 1
  BY <1>1, <1>2, AppendClock
<1>4. vector_clocks' = [vector_clocks EXCEPT ![t] = s]
  OBVIOUS
<1> HIDE DEF s
<1> QED
  BY <1>1, <1>3, <1>4

LEMMA ClockStep == ControlInv /\ ClockInv /\ [Next]_vars => ClockInv'
<1> SUFFICES ASSUME ControlInv, ClockInv, [Next]_vars PROVE ClockInv'
  OBVIOUS
<1>a. pc = [u \in Tid |-> pc[u]]
  BY DEF ControlInv, ControlTypes
<1>1. ASSUME NEW t \in Tid, pc[t] \notin {"none", "starting", "signalled"}
      PROVE  IsClock(Last(vector_clocks[t]), Tid)
  BY <1>1, LastClock DEF ClockInv, ClockTypes, StartedHasClock
<1>2. ASSUME NEW t \in Tid, NEW c, IsClock(c, Tid), NEW phase,
             vector_clocks' = [vector_clocks EXCEPT ![t] = Append(@, c)],
             exit_threads_clock' = [u \in Tid |-> exit_threads_clock'[u]],
             \A u \in Tid : IsClock(exit_threads_clock'[u], Tid),
             IsClock(creator_thread_clock', Tid),
             pc' = [pc EXCEPT ![t] = phase]
      PROVE  ClockInv'
  <2>1. /\ vector_clocks' = [u \in Tid |-> vector_clocks'[u]]
        /\ \A u \in Tid : IsClockSequence(vector_clocks'[u])
        /\ \A u \in Tid : u # t => vector_clocks'[u] = vector_clocks[u]
        /\ Len(vector_clocks'[t]) >= 1
    BY <1>2, ClockSegment
  <2>2. ClockTypes'
    BY <1>2, <2>1 DEF ClockTypes
  <2>3. StartedHasClock'
    BY <1>a, <1>2, <2>1 DEF ClockInv, StartedHasClock
  <2> QED
    BY <2>2, <2>3 DEF ClockInv
<1>3. ASSUME UNCHANGED <<vector_clocks, exit_threads_clock,
                         creator_thread_clock>>,
             \A u \in Tid : pc'[u] \notin {"none", "starting", "signalled"} =>
                              pc[u] \notin {"none", "starting", "signalled"}
      PROVE  ClockInv'
  <2>1. ClockTypes'
    BY <1>3 DEF ClockInv, ClockTypes
  <2>2. StartedHasClock'
    BY <1>3 DEF ClockInv, StartedHasClock
  <2> QED
    BY <2>1, <2>2 DEF ClockInv
<1>4. /\ exit_threads_clock = [u \in Tid |-> exit_threads_clock[u]]
      /\ \A u \in Tid : IsClock(exit_threads_clock[u], Tid)
      /\ IsClock(creator_thread_clock, Tid)
  BY DEF ClockInv, ClockTypes
<1>5. ASSUME NEW t \in Tid, CreateBegin(t) PROVE ClockInv'
  <2>1. IsClock(Last(vector_clocks[t]), Tid)
    BY <1>1, <1>5 DEF CreateBegin
  <2>2. IsClock(creator_thread_clock', Tid)
    BY <1>5, <2>1, TickIsClock DEF CreateBegin, ClockForChild
  <2>3. IsClock(ClockAfterCreate(Last(vector_clocks[t]), t), Tid)
    BY <2>1, TickIsClock DEF ClockAfterCreate, ClockForChild
  <2>4. /\ vector_clocks' = [vector_clocks EXCEPT ![t] =
                 Append(@, ClockAfterCreate(Last(vector_clocks[t]), t))]
        /\ pc' = [pc EXCEPT ![t] = "creating"]
        /\ UNCHANGED exit_threads_clock
    BY <1>5 DEF CreateBegin, NewSegment, maps
  <2> QED
    BY <1>2, <1>4, <2>2, <2>3, <2>4
<1>6. ASSUME NEW t \in Tid, ThreadStartInit(t) PROVE ClockInv'
  <2>1. IsClock(EmptyClock, Tid)
    BY DEF IsClock, EmptyClock
  <2>2. IsClock(FirstClock(t), Tid)
    BY <1>4, <2>1, TickIsClock DEF FirstClock
  <2>3. /\ vector_clocks' = [vector_clocks EXCEPT ![t] =
                                Append(@, FirstClock(t))]
        /\ pc' = [pc EXCEPT ![t] = "running"]
        /\ UNCHANGED <<exit_threads_clock, creator_thread_clock>>
    BY <1>6 DEF ThreadStartInit, maps, handshake
  <2> QED
    BY <1>2, <1>4, <2>2, <2>3
<1>7. ASSUME NEW t \in Tid, JoinEnd(t) PROVE ClockInv'
  <2>1. PICK exit_tid \in Lookups(handle[joining[t]]) :
          NewSegment(t, ClockAfterJoin(Last(vector_clocks[t]), t,
                                       exit_threads_clock[exit_tid]),
                     Last(past[joining[t]]))
    BY <1>7 DEF JoinEnd
  <2>2. pc[t] = "joining" /\ joining[t] \in Tid
    BY <1>7 DEF JoinEnd, ControlInv, JoinsExisting
  <2>3. exit_tid \in Tid
    BY <2>1, <2>2, TidFacts DEF Lookups, ControlInv, ControlTypes
  <2>4. IsClock(Last(vector_clocks[t]), Tid)
    BY <1>1, <2>2
  <2>5. IsClock(exit_threads_clock[exit_tid], Tid)
    BY <1>4, <2>3
  <2> DEFINE c == ClockAfterJoin(Last(vector_clocks[t]), t,
                                 exit_threads_clock[exit_tid])
  <2>6. IsClock(c, Tid)
    BY <2>4, <2>5, TickIsClock, MergeIsClock DEF ClockAfterJoin
  <2>7. /\ vector_clocks' = [vector_clocks EXCEPT ![t] = Append(@, c)]
        /\ pc' = [pc EXCEPT ![t] = "running"]
        /\ UNCHANGED <<exit_threads_clock, creator_thread_clock>>
    BY <1>7, <2>1 DEF JoinEnd, NewSegment, handshake, maps
  <2> QED
    BY <1>2, <1>4, <2>6, <2>7
<1>8. ASSUME NEW t \in Tid, ThreadExit(t) PROVE ClockInv'
  <2> DEFINE c == Tick(Last(vector_clocks[t]), t)
  <2>1. IsClock(c, Tid)
    BY <1>1, <1>8, TickIsClock DEF ThreadExit
  <2>2. /\ vector_clocks' = [vector_clocks EXCEPT ![t] = Append(@, c)]
        /\ exit_threads_clock' = [exit_threads_clock EXCEPT ![t] = c]
        /\ pc' = [pc EXCEPT ![t] = "exited"]
        /\ UNCHANGED creator_thread_clock
    BY <1>8 DEF ThreadExit, NewSegment, handshake
  <2> HIDE DEF c
  <2>3. /\ exit_threads_clock' = [u \in Tid |-> exit_threads_clock'[u]]
        /\ \A u \in Tid : IsClock(exit_threads_clock'[u], Tid)
    BY <1>4, <2>1, <2>2
  <2> QED
    BY <1>2, <1>4, <2>1, <2>2, <2>3
<1>9. ASSUME NEW t \in Tid,
             \/ CreateOriginal(t) \/ CreateFail(t) \/ CreateWait(t)
             \/ CreateMap(t) \/ ThreadStartSignal(t) \/ JoinOriginal(t)
      PROVE  ClockInv'
  <2>1. UNCHANGED <<vector_clocks, exit_threads_clock, creator_thread_clock>>
    BY <1>9 DEF CreateOriginal, CreateFail, CreateWait, CreateMap,
                ThreadStartSignal, JoinOriginal, handshake, maps
  <2>2. \A u \in Tid : pc'[u] \notin {"none", "starting", "signalled"} =>
                         pc[u] \notin {"none", "starting", "signalled"}
    BY <1>a, <1>9 DEF CreateOriginal, CreateFail, CreateWait, CreateMap,
                      ThreadStartSignal, JoinOriginal
  <2> QED
    BY <1>3, <2>1, <2>2
<1>10. CASE UNCHANGED vars
  BY <1>3, <1>10 DEF vars, handshake, maps
<1> QED
  BY <1>5, <1>6, <1>7, <1>8, <1>9, <1>10 DEF Next, Step, Finished

-----------------------------------------------------------------------------
\* A thread that exists has a first segment, and one that creates has just
\* closed one.
HasSegments ==
  \A t \in Tid : /\ Exists(t) => Len(past[t]) >= 1
                 /\ pc[t] = "creating" => Len(past[t]) >= 2

HistoryInv == HistoryTypes /\ HasSegments

LEMMA PastSegment ==
  ASSUME past \in [Tid -> Seq(SUBSET (Tid \X Nat))],
         NEW t \in Tid, Len(past[t]) >= 1,
         NEW more \in SUBSET (Tid \X Nat),
         past' = [past EXCEPT
                    ![t] = Append(@, Last(@) \cup more
                                       \cup {<<t, Len(@) + 1>>})]
  PROVE  /\ past' \in [Tid -> Seq(SUBSET (Tid \X Nat))]
         /\ Len(past'[t]) = Len(past[t]) + 1
         /\ \A u \in Tid : u # t => past'[u] = past[u]
<1> DEFINE S == SUBSET (Tid \X Nat)
           x == Last(past[t]) \cup more \cup {<<t, Len(past[t]) + 1>>}
<1>1. past[t] \in Seq(S) /\ Len(past[t]) \in Nat
  OBVIOUS
<1>2. Last(past[t]) \in S
  <2> HIDE DEF S
  <2> QED
    BY <1>1 DEF Last
<1>3. x \in S
  BY <1>1, <1>2
<1>4. past' = [past EXCEPT ![t] = Append(past[t], x)]
  OBVIOUS
<1>5. past \in [Tid -> Seq(S)]
  OBVIOUS
<1> HIDE DEF S, x
<1>6. Append(past[t], x) \in Seq(S) /\ Len(Append(past[t], x)) = Len(past[t]) + 1
  BY <1>1, <1>3
<1>7. past' \in [Tid -> Seq(S)] /\ past'[t] = Append(past[t], x)
  BY <1>4, <1>5, <1>6
<1>8. \A u \in Tid : u # t => past'[u] = past[u]
  BY <1>4, <1>5
<1> QED
  BY <1>6, <1>7, <1>8 DEF S

LEMMA HistoryStep == ControlInv /\ HistoryInv /\ [Next]_vars => HistoryInv'
<1> SUFFICES ASSUME ControlInv, HistoryInv, [Next]_vars PROVE HistoryInv'
  OBVIOUS
<1>a. pc = [u \in Tid |-> pc[u]]
  BY DEF ControlInv, ControlTypes
<1>b. /\ past \in [Tid -> Seq(SUBSET (Tid \X Nat))]
      /\ overtaken \subseteq {"own", "other"}
      /\ parent \in [Tid -> Tid \cup {NoTid}]
      /\ misjoined \in BOOLEAN
  BY DEF HistoryInv, HistoryTypes
<1>c. \A u \in Tid : Len(past[u]) \in Nat
  BY <1>b
<1>1. ASSUME NEW t \in Tid, NEW more \in SUBSET (Tid \X Nat), NEW phase,
             NEW c, NewSegment(t, c, more), Exists(t),
             pc' = [pc EXCEPT ![t] = phase],
             overtaken' \subseteq {"own", "other"},
             UNCHANGED parent, misjoined' \in BOOLEAN
      PROVE  HistoryInv'
  <2>1. Len(past[t]) >= 1
    BY <1>1 DEF HistoryInv, HasSegments
  <2>2. past' = [past EXCEPT
                   ![t] = Append(@, Last(@) \cup more
                                      \cup {<<t, Len(@) + 1>>})]
    BY <1>1 DEF NewSegment
  <2>3. /\ past' \in [Tid -> Seq(SUBSET (Tid \X Nat))]
        /\ Len(past'[t]) = Len(past[t]) + 1
        /\ \A u \in Tid : u # t => past'[u] = past[u]
    BY <1>b, <2>1, <2>2, PastSegment
  <2>4. HistoryTypes'
    BY <1>b, <1>1, <2>3 DEF HistoryTypes
  <2>5. Len(past'[t]) >= 2
    BY <1>c, <2>1, <2>3
  <2>6. HasSegments'
    BY <1>a, <1>1, <2>3, <2>5 DEF HistoryInv, HasSegments, Exists
  <2> QED
    BY <2>4, <2>6 DEF HistoryInv
<1>2. ASSUME UNCHANGED <<past, overtaken, parent, misjoined>>,
             \A u \in Tid : /\ pc'[u] # "none" => pc[u] # "none"
                            /\ pc'[u] = "creating" => pc[u] = "creating"
      PROVE  HistoryInv'
  <2>1. HistoryTypes'
    BY <1>2 DEF HistoryInv, HistoryTypes
  <2>2. HasSegments'
    BY <1>2 DEF HistoryInv, HasSegments, Exists
  <2> QED
    BY <2>1, <2>2 DEF HistoryInv
<1>3. ASSUME NEW t \in Tid, CreateBegin(t) PROVE HistoryInv'
  <2>1. /\ NewSegment(t, ClockAfterCreate(Last(vector_clocks[t]), t), {})
        /\ pc' = [pc EXCEPT ![t] = "creating"]
        /\ overtaken' = overtaken \cup
             {IF parent[u] = t THEN "own" ELSE "other" : u \in Unread}
        /\ UNCHANGED <<parent, misjoined>>
        /\ Exists(t)
    BY <1>3 DEF CreateBegin, library, Exists
  <2>2. overtaken' \subseteq {"own", "other"}
    BY <1>b, <2>1
  <2>3. {} \in SUBSET (Tid \X Nat)
    OBVIOUS
  <2> QED
    BY <1>b, <1>1, <2>1, <2>2, <2>3
<1>4. ASSUME NEW t \in Tid, CreateOriginal(t) PROVE HistoryInv'
  <2>1. PICK child \in Tid, p \in Pthread :
          /\ ~Exists(child)
          /\ pc' = [pc EXCEPT ![t] = "waiting", ![child] = "starting"]
          /\ parent' = [parent EXCEPT ![child] = t]
          /\ past' = [past EXCEPT ![child] =
                << past[t][Len(past[t]) - 1] \cup {<<child, 1>>} >>]
    BY <1>4 DEF CreateOriginal
  <2>2. pc[t] = "creating" /\ UNCHANGED <<overtaken, misjoined>>
    BY <1>4 DEF CreateOriginal
  <2>3. Len(past[t]) >= 2 /\ Len(past[t]) \in Nat
    BY <1>c, <2>2 DEF HistoryInv, HasSegments
  <2> DEFINE S == SUBSET (Tid \X Nat)
             x == past[t][Len(past[t]) - 1] \cup {<<child, 1>>}
  <2>4. past[t][Len(past[t]) - 1] \in S
    <3>1. past[t] \in Seq(S)
      BY <1>b
    <3> HIDE DEF S
    <3> QED
      BY <2>3, <3>1
  <2>5. x \in S
    BY <2>4
  <2>6. past \in [Tid -> Seq(S)] /\ past' = [past EXCEPT ![child] = <<x>>]
    BY <1>b, <2>1
  <2> HIDE DEF S, x
  <2>7. <<x>> \in Seq(S) /\ Len(<<x>>) = 1
    BY <2>5
  <2>8. /\ past' \in [Tid -> Seq(S)]
        /\ Len(past'[child]) = 1
        /\ \A u \in Tid : u # child => past'[u] = past[u]
    BY <2>6, <2>7
  <2>9. HistoryTypes'
    BY <1>b, <2>1, <2>2, <2>8 DEF HistoryTypes, S
  <2>10. HasSegments'
    BY <1>a, <2>1, <2>2, <2>8 DEF HistoryInv, HasSegments, Exists
  <2> QED
    BY <2>9, <2>10 DEF HistoryInv
<1>5. ASSUME NEW t \in Tid, JoinEnd(t) PROVE HistoryInv'
  <2>1. PICK exit_tid \in Lookups(handle[joining[t]]) :
          /\ NewSegment(t, ClockAfterJoin(Last(vector_clocks[t]), t,
                                          exit_threads_clock[exit_tid]),
                        Last(past[joining[t]]))
          /\ misjoined' = (misjoined \/ exit_tid # joining[t])
    BY <1>5 DEF JoinEnd
  <2>2. /\ joining[t] \in Tid /\ Exists(joining[t]) /\ Exists(t)
        /\ pc' = [pc EXCEPT ![t] = "running"]
        /\ UNCHANGED <<parent, overtaken>>
    BY <1>5 DEF JoinEnd, ControlInv, JoinsExisting, Exists
  <2>3. Len(past[joining[t]]) >= 1 /\ Len(past[joining[t]]) \in Nat
    BY <1>c, <2>2 DEF HistoryInv, HasSegments
  <2>4. Last(past[joining[t]]) \in SUBSET (Tid \X Nat)
    <3> DEFINE S == SUBSET (Tid \X Nat)
    <3>1. past[joining[t]] \in Seq(S)
      BY <1>b, <2>2
    <3> HIDE DEF S
    <3>2. Last(past[joining[t]]) \in S
      BY <2>3, <3>1 DEF Last
    <3> QED
      BY <3>2 DEF S
  <2>5. misjoined' \in BOOLEAN
    BY <1>b, <2>1
  <2> QED
    BY <1>b, <1>1, <2>1, <2>2, <2>4, <2>5
<1>6. ASSUME NEW t \in Tid, ThreadExit(t) PROVE HistoryInv'
  <2>1. /\ NewSegment(t, Tick(Last(vector_clocks[t]), t), {})
        /\ Exists(t)
        /\ pc' = [pc EXCEPT ![t] = "exited"]
        /\ UNCHANGED <<parent, overtaken, misjoined>>
    BY <1>6 DEF ThreadExit, Exists, library
  <2>2. {} \in SUBSET (Tid \X Nat)
    OBVIOUS
  <2> QED
    BY <1>b, <1>1, <2>1, <2>2
<1>7. ASSUME NEW t \in Tid,
             \/ CreateFail(t) \/ CreateWait(t) \/ CreateMap(t)
             \/ ThreadStartSignal(t) \/ ThreadStartInit(t) \/ JoinOriginal(t)
      PROVE  HistoryInv'
  <2>1. UNCHANGED <<past, overtaken, parent, misjoined>>
    BY <1>7 DEF CreateFail, CreateWait, CreateMap, ThreadStartSignal,
                ThreadStartInit, JoinOriginal, library, ghosts
  <2>2. \A u \in Tid : /\ pc'[u] # "none" => pc[u] # "none"
                       /\ pc'[u] = "creating" => pc[u] = "creating"
    BY <1>a, <1>7 DEF CreateFail, CreateWait, CreateMap, ThreadStartSignal,
                      ThreadStartInit, JoinOriginal
  <2> QED
    BY <1>2, <2>1, <2>2
<1>8. CASE UNCHANGED vars
  BY <1>2, <1>8 DEF vars, library, ghosts
<1> QED
  BY <1>3, <1>4, <1>5, <1>6, <1>7, <1>8 DEF Next, Step, Finished

-----------------------------------------------------------------------------
\* In the initial state no clock is known and only the initial thread exists.
LEMMA TypesInit == Init => ControlInv /\ ClockInv /\ HistoryInv
<1> SUFFICES ASSUME Init PROVE ControlInv /\ ClockInv /\ HistoryInv
  OBVIOUS
<1>1. ControlInv
  BY TidFacts, ThreadsAssumption
  DEF Init, ControlInv, ControlTypes, JoinsExisting, Phases
<1>2. IsClock(EmptyClock, Tid) /\ IsClockSequence(<<>>)
  BY DEF IsClock, EmptyClock, IsClockSequence
<1>3. ClockInv
  <2>1. ClockTypes
    BY <1>2 DEF Init, ClockTypes
  <2>2. StartedHasClock
    BY DEF Init, StartedHasClock
  <2> QED
    BY <2>1, <2>2 DEF ClockInv
<1>4. HistoryInv
  <2> DEFINE S == SUBSET (Tid \X Nat)
             x == {<<Main, 1>>}
  <2>1. x \in S
    BY TidFacts
  <2>2. past = [t \in Tid |-> IF t = Main THEN <<x>> ELSE <<>>]
    BY DEF Init
  <2> HIDE DEF S, x
  <2>3. <<x>> \in Seq(S) /\ <<>> \in Seq(S) /\ Len(<<x>>) = 1
    BY <2>1
  <2>4. past \in [Tid -> Seq(S)]
    BY <2>2, <2>3
  <2>5. HistoryTypes
    BY <2>4 DEF Init, HistoryTypes, S
  <2>6. HasSegments
    BY <2>2, <2>3 DEF Init, HasSegments, Exists
  <2> QED
    BY <2>5, <2>6 DEF HistoryInv
<1> QED
  BY <1>1, <1>3, <1>4

\* The types hold in every reachable state, whatever the numbers of threads,
\* of pthread_t values and of creations: ProcessThreadCreate, ...Init,
\* ...Join and ...Exit only ever build clocks from clocks that exist.
THEOREM TypeCorrect == Spec => []TypeOK
<1> DEFINE Inv == ControlInv /\ ClockInv /\ HistoryInv
<1>1. Init => Inv
  BY TypesInit
<1>2. Inv /\ [Next]_vars => Inv'
  BY ControlStep, ClockStep, HistoryStep
<1>3. Inv => TypeOK
  BY DEF TypeOK, ControlInv, ClockInv, HistoryInv
<1> QED
  BY <1>1, <1>2, <1>3, PTL DEF Spec

LEMMA ClocksTyped ==
  ASSUME ClockInv, NEW c \in Clocks
  PROVE  IsClock(c, Tid)
<1>1. PICK t \in Tid : c \in {vector_clocks[t][i] : i \in DOMAIN vector_clocks[t]}
  BY DEF Clocks
<1>2. PICK i \in DOMAIN vector_clocks[t] : c = vector_clocks[t][i]
  BY <1>1
<1>3. IsClockSequence(vector_clocks[t])
  BY DEF ClockInv, ClockTypes
<1>4. QED BY <1>2, <1>3 DEF IsClockSequence

\* The two clock operations the tool rests on, on the clocks that occur: no
\* thread ever has one with a timestamp of 0, so is_concurrent's answer is
\* that of the partial order, and the same from both sides.
THEOREM ConcurrencyDecided == Spec => []ConcurrentIffIncomparable
<1> DEFINE Inv == ControlInv /\ ClockInv /\ HistoryInv
<1>1. Init => Inv
  BY TypesInit
<1>2. Inv /\ [Next]_vars => Inv'
  BY ControlStep, ClockStep, HistoryStep
<1>3. Inv => ConcurrentIffIncomparable
  <2> SUFFICES ASSUME ClockInv, NEW c \in Clocks, NEW d \in Clocks
               PROVE  /\ IsConcurrent(c, d) <=> Incomparable(c, d)
                      /\ IsConcurrent(c, d) <=> IsConcurrent(d, c)
    BY DEF ConcurrentIffIncomparable
  <2>1. IsClock(c, Tid) /\ IsClock(d, Tid)
    BY ClocksTyped
  <2>2. QED BY <2>1, IsConcurrentCorrect, IsConcurrentSymmetric
<1>4. QED BY <1>1, <1>2, <1>3, PTL DEF Spec

\* A thread that joins has a clock, and its update with the clock of the
\* thread it joins is the least one of a run that is above both: it is
\* ordered after the joined thread and after nothing else.
THEOREM JoinIsLeast == Spec => []MergeIsLeastUpperBound
<1> DEFINE Inv == ControlInv /\ ClockInv /\ HistoryInv
<1>1. Init => Inv
  BY TypesInit
<1>2. Inv /\ [Next]_vars => Inv'
  BY ControlStep, ClockStep, HistoryStep
<1>3. Inv => MergeIsLeastUpperBound
  <2> SUFFICES ASSUME ControlInv, ClockInv, NEW t \in Tid, joining[t] # NoTid
               PROVE  LET c == Last(vector_clocks[t])
                          d == exit_threads_clock[joining[t]]
                          m == Merge(c, d)
                      IN  /\ Leq(c, m) /\ Leq(d, m)
                          /\ \A e \in Clocks : Leq(c, e) /\ Leq(d, e) => Leq(m, e)
    BY DEF MergeIsLeastUpperBound
  <2> DEFINE c == Last(vector_clocks[t])
             d == exit_threads_clock[joining[t]]
  <2>1. pc[t] = "joining" /\ joining[t] \in Tid
    BY DEF ControlInv, ControlTypes, JoinsExisting
  <2>2. IsClockSequence(vector_clocks[t]) /\ Len(vector_clocks[t]) >= 1
    BY <2>1 DEF ClockInv, ClockTypes, StartedHasClock
  <2>3. IsClock(c, Tid) /\ IsClock(d, Tid)
    BY <2>1, <2>2, LastClock DEF ClockInv, ClockTypes
  <2> HIDE DEF c, d
  <2>4. \A e \in Clocks : IsClock(e, Tid)
    BY ClocksTyped
  <2>5. /\ Leq(c, Merge(c, d)) /\ Leq(d, Merge(c, d))
        /\ \A e \in Clocks : Leq(c, e) /\ Leq(d, e) => Leq(Merge(c, d), e)
    BY <2>3, <2>4, MergeIsLub
  <2>6. QED BY <2>5 DEF c, d
<1>4. QED BY <1>1, <1>2, <1>3, PTL DEF Spec

-----------------------------------------------------------------------------
(* The handshake between a creator and the thread it creates.  HandleResolves *)
(* is not inductive: that CreateMap enters the right thread id depends on     *)
(* which thread can have set the semaphore and created_thread_id, and that on *)
(* there being one creation at a time.                                        *)

\* The mutex is held from the note of the creator to the map entry.
MutexHeld ==
  \A t \in Tid : pc[t] \in {"creating", "waiting", "mapping"}
                   <=> thread_creation_mutex = t

HolderIs(phases) ==
  thread_creation_mutex # NoTid /\ pc[thread_creation_mutex] \in phases

\* The semaphore is only set for a creator that waits for it.
SemaphoreForWaiter == thread_creation_semaphore => HolderIs({"waiting"})

Newest(t) == Exists(t) /\ \A u \in Tid : Exists(u) => u <= t

\* Thread ids are given out in order.
IdsInOrder ==
  \A t \in Tid : Exists(t) => \A u \in 0 .. t - 1 : Exists(u)

\* Until the first thread is through TraceThreadStart there is no other.
MainFirst ==
  pc[Main] \in {"starting", "signalled"} =>
    \A u \in Tid \ {Main} : pc[u] = "none"

\* A thread before its signal is the newest, and its creator waits.
StarterIsNewest ==
  \A t \in Tid \ {Main} :
    pc[t] = "starting" => /\ Newest(t) /\ HolderIs({"waiting"})
                          /\ ~thread_creation_semaphore

\* The pthread_t being entered belongs to the newest thread.
MappedIsNewest ==
  HolderIs({"waiting", "mapping"}) =>
    \A u \in Tid : Owns(u, created_pthread) => Newest(u)

\* So does the thread id, once the thread has signalled.
SignalledIsNewest ==
  thread_creation_semaphore \/ HolderIs({"mapping"})
    => Newest(created_thread_id)

HandshakeInv ==
  /\ MutexHeld /\ SemaphoreForWaiter /\ IdsInOrder /\ MainFirst
  /\ StarterIsNewest /\ MappedIsNewest /\ SignalledIsNewest
  /\ HandleResolves

LEMMA HandshakeInit == Init => HandshakeInv
<1> SUFFICES ASSUME Init PROVE HandshakeInv
  OBVIOUS
<1> USE TidFacts, ThreadsAssumption
    DEF Init, HandshakeInv, MutexHeld, SemaphoreForWaiter, HolderIs, Newest,
        IdsInOrder, MainFirst, StarterIsNewest, MappedIsNewest,
        SignalledIsNewest, HandleResolves, Exists, Owns, BeingMapped
<1>1. MutexHeld /\ SemaphoreForWaiter /\ MainFirst /\ StarterIsNewest
  OBVIOUS
<1>2. IdsInOrder
  BY DEF Main
<1>3. MappedIsNewest /\ SignalledIsNewest
  OBVIOUS
<1>4. HandleResolves
  BY DEF Main
<1> QED
  BY <1>1, <1>2, <1>3, <1>4

LEMMA HandshakeStep == ControlInv /\ HandshakeInv /\ [Next]_vars => HandshakeInv'
<1> SUFFICES ASSUME ControlInv, HandshakeInv, [Next]_vars
             PROVE  HandshakeInv'
  OBVIOUS
<1>a. /\ pc \in [Tid -> Phases] /\ handle \in [Tid -> Pthread]
      /\ pthread_id_to_tid \in [Pthread -> Tid]
      /\ created_pthread \in Pthread /\ created_thread_id \in Tid
      /\ thread_creation_mutex \in Tid \cup {NoTid}
      /\ thread_creation_semaphore \in BOOLEAN
      /\ joined \subseteq Tid
  BY DEF ControlInv, ControlTypes
<1>b. /\ MutexHeld /\ SemaphoreForWaiter /\ IdsInOrder /\ MainFirst
      /\ StarterIsNewest /\ MappedIsNewest /\ SignalledIsNewest
      /\ HandleResolves
  BY DEF HandshakeInv
<1>c. pc = [u \in Tid |-> pc[u]]
  BY <1>a
<1>d. \A u \in Tid : \A v \in 0 .. u - 1 : v \in Tid
  BY ThreadsAssumption DEF Tid
<1> USE TidFacts
\* A step of the application or of a thread that has signalled.
<1>1. ASSUME NEW t \in Tid, NEW phase \in {"running", "joining", "exited"},
             pc[t] \in {"signalled", "running", "joining"},
             pc' = [pc EXCEPT ![t] = phase],
             UNCHANGED <<created_thread_id, created_pthread,
                         thread_creation_mutex, thread_creation_semaphore,
                         pthread_id_to_tid, handle>>,
             joined \subseteq joined'
      PROVE  HandshakeInv'
  <2>1. \A u \in Tid : u # t => pc'[u] = pc[u]
    BY <1>c, <1>1
  <2>2. pc'[t] = phase
    BY <1>c, <1>1
  <2>3. \A u \in Tid : Exists(u)' <=> Exists(u)
    BY <1>1, <2>1, <2>2 DEF Exists
  <2>4. \A u \in Tid : Newest(u)' <=> Newest(u)
    BY <2>3 DEF Newest
  <2>5. \A ph \in SUBSET {"creating", "waiting", "mapping"} :
           HolderIs(ph)' <=> HolderIs(ph)
    BY <1>a, <1>1, <2>1, <2>2 DEF HolderIs
  <2>6. MutexHeld'
    BY <1>b, <1>1, <2>1, <2>2 DEF MutexHeld
  <2>7. SemaphoreForWaiter'
    BY <1>b, <1>1, <2>5 DEF SemaphoreForWaiter
  <2>8. IdsInOrder'
    BY <1>b, <1>d, <2>3 DEF IdsInOrder
  <2>9. MainFirst'
    BY <1>b, <1>1, <2>1, <2>2 DEF MainFirst
  <2>10. StarterIsNewest'
    BY <1>b, <1>1, <2>1, <2>2, <2>4, <2>5 DEF StarterIsNewest
  <2>11. MappedIsNewest'
    BY <1>b, <1>1, <2>3, <2>4, <2>5 DEF MappedIsNewest, Owns
  <2>12. SignalledIsNewest'
    BY <1>a, <1>b, <1>1, <2>4, <2>5 DEF SignalledIsNewest
  <2>13. HandleResolves'
    <3>1. \A u \in Tid : BeingMapped(u)' <=> BeingMapped(u)
      BY <1>1, <2>5 DEF BeingMapped, HolderIs
    <3> QED
      BY <1>b, <1>1, <2>3, <3>1 DEF HandleResolves
  <2> QED
    BY <2>6, <2>7, <2>8, <2>9, <2>10, <2>11, <2>12, <2>13 DEF HandshakeInv
\* A step of the thread that holds the mutex, or is about to take it.
<1>2. ASSUME NEW t \in Tid, NEW phase \in {"running", "creating", "mapping"},
             thread_creation_mutex \in {t, NoTid},
             pc' = [pc EXCEPT ![t] = phase],
             \/ /\ phase \in {"running", "creating"}
                /\ pc[t] \in {"running", "creating", "mapping"}
                /\ ~thread_creation_semaphore
             \/ /\ phase = "mapping"
                /\ pc[t] = "waiting"
                /\ thread_creation_semaphore,
             ~thread_creation_semaphore',
             phase = "running" => thread_creation_mutex' = NoTid,
             phase # "running" => thread_creation_mutex' = t,
             created_thread_id' = created_thread_id,
             created_pthread' = created_pthread,
             handle' = handle, joined' = joined,
             HandleResolves'
      PROVE  HandshakeInv'
  <2>1. \A u \in Tid : u # t => pc'[u] = pc[u]
    BY <1>c, <1>2
  <2>2. pc'[t] = phase
    BY <1>c, <1>2
  <2>3. \A u \in Tid : Exists(u)' <=> Exists(u)
    BY <1>2, <2>1, <2>2 DEF Exists
  <2>4. \A u \in Tid : Newest(u)' <=> Newest(u)
    BY <2>3 DEF Newest
  <2>5. \A u \in Tid : pc[u] \in {"creating", "waiting", "mapping"} => u = t
    BY <1>b, <1>2 DEF MutexHeld
  <2>6. MutexHeld'
    BY <1>2, <2>1, <2>2, <2>5 DEF MutexHeld
  <2>7. SemaphoreForWaiter'
    BY <1>2 DEF SemaphoreForWaiter
  <2>8. IdsInOrder'
    BY <1>b, <1>d, <2>3 DEF IdsInOrder
  <2>9. MainFirst'
    BY <1>b, <1>2, <2>1, <2>2 DEF MainFirst
  <2>10. ~(\E u \in Tid \ {Main} : pc[u] = "starting")
    BY <1>b, <1>2 DEF StarterIsNewest, HolderIs
  <2>11. StarterIsNewest'
    BY <1>2, <2>1, <2>2, <2>10 DEF StarterIsNewest
  <2>12. HolderIs({"waiting", "mapping"})'
           => phase = "mapping" /\ HolderIs({"waiting", "mapping"})
    BY <1>2, <1>b, <2>2 DEF HolderIs, MutexHeld
  <2>13. MappedIsNewest'
    BY <1>b, <1>2, <2>3, <2>4, <2>12 DEF MappedIsNewest, Owns
  <2>14. HolderIs({"mapping"})' => phase = "mapping"
    BY <1>2, <2>2 DEF HolderIs
  <2>15. SignalledIsNewest'
    BY <1>a, <1>b, <1>2, <2>4, <2>14 DEF SignalledIsNewest
  <2> QED
    BY <1>2, <2>6, <2>7, <2>8, <2>9, <2>11, <2>13, <2>15 DEF HandshakeInv
<1>3. ASSUME NEW t \in Tid, CreateBegin(t) PROVE HandshakeInv'
  <2>1. /\ pc[t] = "running" /\ pc' = [pc EXCEPT ![t] = "creating"]
        /\ thread_creation_mutex = NoTid /\ thread_creation_mutex' = t
        /\ UNCHANGED <<created_thread_id, created_pthread, handle, joined,
                       pthread_id_to_tid, thread_creation_semaphore>>
    BY <1>3 DEF CreateBegin, library, maps
  <2>2. ~thread_creation_semaphore
    BY <1>b, <2>1 DEF SemaphoreForWaiter, HolderIs
  <2>3. HandleResolves'
    BY <1>b, <1>c, <2>1 DEF HandleResolves, BeingMapped, Exists
  <2> QED
    BY <1>2, <2>1, <2>2, <2>3
<1>4. ASSUME NEW t \in Tid, CreateFail(t) PROVE HandshakeInv'
  <2>1. /\ pc[t] = "creating" /\ pc' = [pc EXCEPT ![t] = "running"]
        /\ thread_creation_mutex' = NoTid
        /\ UNCHANGED <<created_thread_id, created_pthread, handle, joined,
                       pthread_id_to_tid, thread_creation_semaphore>>
    BY <1>4 DEF CreateFail, library, maps
  <2>2. thread_creation_mutex = t
    BY <1>b, <2>1 DEF MutexHeld
  <2>3. ~thread_creation_semaphore
    BY <1>b, <2>1, <2>2 DEF SemaphoreForWaiter, HolderIs
  <2>4. HandleResolves'
    BY <1>b, <1>c, <2>1, <2>2 DEF HandleResolves, BeingMapped, Exists
  <2> QED
    BY <1>2, <2>1, <2>2, <2>3, <2>4
<1>5. ASSUME NEW t \in Tid, CreateWait(t) PROVE HandshakeInv'
  <2>1. /\ pc[t] = "waiting" /\ pc' = [pc EXCEPT ![t] = "mapping"]
        /\ thread_creation_semaphore /\ ~thread_creation_semaphore'
        /\ UNCHANGED <<created_thread_id, created_pthread, handle, joined,
                       pthread_id_to_tid, thread_creation_mutex>>
    BY <1>5 DEF CreateWait, SemaphoreAfterWait, library, maps
  <2>2. thread_creation_mutex = t
    BY <1>b, <2>1 DEF MutexHeld
  <2>3. HandleResolves'
    BY <1>b, <1>c, <2>1, <2>2 DEF HandleResolves, BeingMapped, Exists
  <2> QED
    BY <1>2, <2>1, <2>2, <2>3
<1>6. ASSUME NEW t \in Tid, CreateMap(t) PROVE HandshakeInv'
  <2>1. /\ pc[t] = "mapping" /\ pc' = [pc EXCEPT ![t] = "running"]
        /\ pthread_id_to_tid' = [pthread_id_to_tid EXCEPT
                                   ![created_pthread] = created_thread_id]
        /\ thread_creation_mutex' = NoTid
        /\ UNCHANGED <<created_thread_id, created_pthread, handle, joined,
                       thread_creation_semaphore>>
    BY <1>6 DEF CreateMap, library
  <2>2. thread_creation_mutex = t
    BY <1>b, <2>1 DEF MutexHeld
  <2>3. ~thread_creation_semaphore
    BY <1>b, <2>1, <2>2 DEF SemaphoreForWaiter, HolderIs
  <2>4. \A u \in Tid : Exists(u)' <=> Exists(u)
    BY <1>c, <2>1 DEF Exists
  <2>5. Newest(created_thread_id)
    BY <1>b, <2>1, <2>2 DEF SignalledIsNewest, HolderIs
  <2>6. ASSUME NEW u \in Tid, Exists(u), u \notin joined
        PROVE  pthread_id_to_tid'[handle[u]] = u
    <3>1. CASE handle[u] = created_pthread
      <4>1. Newest(u)
        BY <1>b, <2>1, <2>2, <2>6, <3>1 DEF MappedIsNewest, HolderIs, Owns
      <4>2. u = created_thread_id
        BY <1>a, <2>5, <4>1 DEF Newest
      <4> QED
        BY <1>a, <2>1, <3>1, <4>2
    <3>2. CASE handle[u] # created_pthread
      <4>1. pthread_id_to_tid[handle[u]] = u
        BY <1>b, <2>6, <3>2 DEF HandleResolves, BeingMapped
      <4> QED
        BY <1>a, <2>1, <3>2, <4>1
    <3> QED
      BY <3>1, <3>2
  <2>7. HandleResolves'
    BY <2>1, <2>4, <2>6 DEF HandleResolves
  <2> QED
    BY <1>2, <2>1, <2>2, <2>3, <2>7
<1>7. ASSUME NEW t \in Tid, CreateOriginal(t) PROVE HandshakeInv'
  <2>1. PICK child \in Tid, p \in Pthread :
          /\ ~Exists(child) /\ \A u \in 0 .. child - 1 : Exists(u)
          /\ \A u \in Tid : ~Owns(u, p)
          /\ pc' = [pc EXCEPT ![t] = "waiting", ![child] = "starting"]
          /\ handle' = [handle EXCEPT ![child] = p]
          /\ created_pthread' = p
    BY <1>7 DEF CreateOriginal
  <2>2. /\ pc[t] = "creating"
        /\ UNCHANGED <<created_thread_id, thread_creation_mutex,
                       thread_creation_semaphore, pthread_id_to_tid, joined>>
    BY <1>7 DEF CreateOriginal, maps
  <2>3. thread_creation_mutex = t
    BY <1>b, <2>2 DEF MutexHeld
  <2>4. ~thread_creation_semaphore
    BY <1>b, <2>2, <2>3 DEF SemaphoreForWaiter, HolderIs
  <2>5. child # t /\ pc[child] = "none"
    BY <2>1, <2>2 DEF Exists
  <2>6. /\ pc'[t] = "waiting" /\ pc'[child] = "starting"
        /\ \A u \in Tid \ {t, child} : pc'[u] = pc[u]
    BY <1>c, <2>1, <2>5
  <2>7. \A u \in Tid : Exists(u)' <=> Exists(u) \/ u = child
    BY <2>2, <2>6 DEF Exists
  <2>8. \A u \in Tid : Exists(u) => u < child
    <3>1. SUFFICES ASSUME NEW u \in Tid, Exists(u), ~(u < child)
                   PROVE  FALSE
      OBVIOUS
    <3>2. u # child
      BY <2>1, <3>1
    <3>3. child \in 0 .. u - 1
      BY <3>1, <3>2
    <3> QED
      BY <1>b, <2>1, <3>1, <3>3 DEF IdsInOrder
  <2>9. Newest(child)'
    BY <2>7, <2>8 DEF Newest
  <2>10. ~(\E u \in Tid \ {Main} : pc[u] = "starting")
    BY <1>b, <2>2, <2>3 DEF StarterIsNewest, HolderIs
  <2>11. HolderIs({"waiting"})'
    BY <2>2, <2>3, <2>6 DEF HolderIs
  <2>12. MutexHeld'
    BY <1>b, <2>2, <2>3, <2>5, <2>6 DEF MutexHeld
  <2>13. SemaphoreForWaiter'
    BY <2>2, <2>4 DEF SemaphoreForWaiter
  <2>14. IdsInOrder'
    BY <1>b, <1>d, <2>1, <2>7 DEF IdsInOrder
  <2>15. MainFirst'
    <3>1. pc[Main] \notin {"starting", "signalled"}
      BY <1>b, <2>2 DEF MainFirst
    <3>2. child # Main
      <4>1. t # Main \/ child # Main
        BY <2>5
      <4>2. CASE t # Main
        <5>1. 0 \in 0 .. t - 1
          BY <4>2 DEF Main
        <5> QED
          BY <1>b, <2>1, <2>2, <5>1 DEF IdsInOrder, Exists, Main
      <4> QED
        BY <4>1, <4>2
    <3> QED
      BY <2>6, <3>1, <3>2 DEF MainFirst
  <2>16. StarterIsNewest'
    <3>1. \A u \in Tid \ {Main} : pc'[u] = "starting" => u = child
      BY <2>6, <2>10
    <3> QED
      BY <2>2, <2>4, <2>9, <2>11, <3>1 DEF StarterIsNewest
  <2>17. \A u \in Tid : Owns(u, created_pthread)' => u = child
    BY <1>a, <2>1, <2>2, <2>7 DEF Owns
  <2>18. MappedIsNewest'
    BY <2>9, <2>17 DEF MappedIsNewest
  <2>19. SignalledIsNewest'
    BY <2>2, <2>3, <2>4, <2>6 DEF SignalledIsNewest, HolderIs
  <2>20. HandleResolves'
    <3>1. SUFFICES ASSUME NEW u \in Tid, Exists(u)', u \notin joined,
                          ~BeingMapped(u)'
                   PROVE  pthread_id_to_tid[handle'[u]] = u
      BY <2>2 DEF HandleResolves
    <3>2. u # child
      BY <1>a, <2>1, <2>2, <2>3, <2>6, <3>1 DEF BeingMapped
    <3>3. Exists(u) /\ handle'[u] = handle[u]
      BY <1>a, <2>1, <2>7, <3>1, <3>2
    <3>4. ~BeingMapped(u)
      BY <2>2, <2>3 DEF BeingMapped
    <3> QED
      BY <1>b, <3>1, <3>3, <3>4 DEF HandleResolves
  <2> QED
    BY <2>12, <2>13, <2>14, <2>15, <2>16, <2>18, <2>19, <2>20
    DEF HandshakeInv
<1>8. ASSUME NEW t \in Tid, ThreadStartSignal(t) PROVE HandshakeInv'
  <2>1. /\ pc[t] = "starting" /\ pc' = [pc EXCEPT ![t] = "signalled"]
        /\ created_thread_id' = t
        /\ thread_creation_semaphore' = (t # Main \/ thread_creation_semaphore)
        /\ UNCHANGED <<created_pthread, thread_creation_mutex,
                       pthread_id_to_tid, handle, joined>>
    BY <1>8 DEF ThreadStartSignal, SemaphoreAfterStart, library, maps
  <2>2. pc'[t] = "signalled" /\ \A u \in Tid : u # t => pc'[u] = pc[u]
    BY <1>c, <2>1
  <2>3. \A u \in Tid : Exists(u)' <=> Exists(u)
    BY <2>1, <2>2 DEF Exists
  <2>4. \A u \in Tid : Newest(u)' <=> Newest(u)
    BY <2>3 DEF Newest
  <2>5. \A ph \in SUBSET {"creating", "waiting", "mapping"} :
           HolderIs(ph)' <=> HolderIs(ph)
    BY <1>a, <2>1, <2>2 DEF HolderIs
  <2>6. MutexHeld'
    BY <1>b, <2>1, <2>2 DEF MutexHeld
  <2>7. SemaphoreForWaiter'
    BY <1>b, <2>1, <2>5 DEF SemaphoreForWaiter, StarterIsNewest
  <2>8. IdsInOrder'
    BY <1>b, <1>d, <2>3 DEF IdsInOrder
  <2>9. MainFirst'
    BY <1>b, <2>1, <2>2 DEF MainFirst
  <2>10. StarterIsNewest'
    <3>1. SUFFICES ASSUME NEW u \in Tid \ {Main}, pc'[u] = "starting"
                   PROVE  Newest(u) /\ HolderIs({"waiting"})
                          /\ ~thread_creation_semaphore'
      BY <2>4, <2>5 DEF StarterIsNewest
    <3>2. u # t /\ pc[u] = "starting"
      BY <2>2, <3>1
    <3>3. t = Main
      <4>1. SUFFICES ASSUME t # Main PROVE FALSE
        OBVIOUS
      <4>2. Newest(t) /\ Newest(u)
        BY <1>b, <2>1, <3>1, <3>2, <4>1 DEF StarterIsNewest
      <4> QED
        BY <3>2, <4>2 DEF Newest
    <3> QED
      BY <1>b, <2>1, <3>1, <3>2, <3>3 DEF StarterIsNewest
  <2>11. MappedIsNewest'
    BY <1>b, <2>1, <2>3, <2>4, <2>5 DEF MappedIsNewest, Owns
  <2>12. SignalledIsNewest'
    <3>1. CASE t = Main
      <4>1. \A u \in Tid : Exists(u) => u = Main
        BY <1>b, <2>1, <3>1 DEF MainFirst, Exists
      <4>2. Newest(Main)
        BY <2>1, <3>1, <4>1 DEF Newest, Exists
      <4> QED
        BY <2>1, <2>4, <3>1, <4>2 DEF SignalledIsNewest
    <3>2. CASE t # Main
      <4>1. Newest(t)
        BY <1>b, <2>1, <3>2 DEF StarterIsNewest
      <4> QED
        BY <2>1, <2>4, <4>1 DEF SignalledIsNewest
    <3> QED
      BY <3>1, <3>2
  <2>13. HandleResolves'
    <3>1. \A u \in Tid : BeingMapped(u)' <=> BeingMapped(u)
      BY <2>1, <2>5 DEF BeingMapped, HolderIs
    <3> QED
      BY <1>b, <2>1, <2>3, <3>1 DEF HandleResolves
  <2> QED
    BY <2>6, <2>7, <2>8, <2>9, <2>10, <2>11, <2>12, <2>13 DEF HandshakeInv
<1>9. ASSUME NEW t \in Tid, ThreadStartInit(t) PROVE HandshakeInv'
  BY <1>1, <1>9 DEF ThreadStartInit, handshake, maps, library
<1>10. ASSUME NEW t \in Tid, JoinOriginal(t) PROVE HandshakeInv'
  BY <1>1, <1>10 DEF JoinOriginal, handshake, maps
<1>11. ASSUME NEW t \in Tid, JoinEnd(t) PROVE HandshakeInv'
  BY <1>1, <1>11 DEF JoinEnd, handshake, maps
<1>12. ASSUME NEW t \in Tid, ThreadExit(t) PROVE HandshakeInv'
  <2>1. /\ pc[t] = "running" /\ pc' = [pc EXCEPT ![t] = "exited"]
        /\ UNCHANGED <<created_thread_id, created_pthread,
                       thread_creation_mutex, thread_creation_semaphore,
                       pthread_id_to_tid, handle, joined>>
    BY <1>12 DEF ThreadExit, handshake, library
  <2> QED
    BY <1>1, <2>1
<1>13. CASE UNCHANGED vars
  BY <1>b, <1>13
  DEF vars, handshake, maps, library, HandshakeInv, MutexHeld, HolderIs,
      SemaphoreForWaiter, Newest, IdsInOrder, MainFirst, StarterIsNewest,
      MappedIsNewest, SignalledIsNewest, HandleResolves, Exists, Owns,
      BeingMapped
<1> QED
  BY <1>3, <1>4, <1>5, <1>6, <1>7, <1>8, <1>9, <1>10, <1>11, <1>12, <1>13
  DEF Next, Step, Finished

\* Every live thread outside its own creation is found under its pthread_t
\* in pthread_id_to_tid: PthreadCreateReplacement and TraceThreadStart pair
\* each pthread_t with the right thread id however creations, failures,
\* signals and joins interleave, for any number of threads.
THEOREM HandlesResolve == Spec => []HandleResolves
<1>1. Init => ControlInv /\ HandshakeInv
  BY TypesInit, HandshakeInit
<1>2. ControlInv /\ HandshakeInv /\ [Next]_vars
        => (ControlInv /\ HandshakeInv)'
  BY ControlStep, HandshakeStep
<1>3. HandshakeInv => HandleResolves
  BY DEF HandshakeInv
<1> QED
  BY <1>1, <1>2, <1>3, PTL DEF Spec

-----------------------------------------------------------------------------
(* The clocks against the order of the segments they stand for.            *)

Stamp(t, i, x) == At(vector_clocks[t][i], x)

(* c is below d, thread by thread. *)
Below(c, d) == \A x \in Tid : At(c, x) <= At(d, x)

Started(t) == pc[t] \notin {"none", "starting", "signalled"}

(* The newest timestamp t has for itself. *)
Own(t) ==
  IF Len(vector_clocks[t]) = 0 THEN 0 ELSE Stamp(t, Len(vector_clocks[t]), t)

SegmentsCounted ==
  \A t \in Tid :
    /\ Started(t) => /\ Len(past[t]) = Len(vector_clocks[t])
                     /\ Len(vector_clocks[t]) >= 1
    /\ ~Started(t) => Len(vector_clocks[t]) = 0
    /\ pc[t] \in {"starting", "signalled"} => Len(past[t]) = 1
    /\ pc[t] = "none" => Len(past[t]) = 0

(* Nobody knows a timestamp of t that t has not reached. *)
Bounded ==
  \A x \in Tid :
    /\ At(creator_thread_clock, x) <= Own(x)
    /\ \A u \in Tid :
         /\ At(exit_threads_clock[u], x) <= Own(x)
         /\ \A j \in Segments(u) : Stamp(u, j, x) <= Own(x)

OwnGrows ==
  \A t \in Tid : \A i, j \in Segments(t) : i < j => Stamp(t, i, t) < Stamp(t, j, t)

(* A segment's past has those of its own thread up to it, and of others     *)
(* only such as there are.                                                  *)
OwnPast ==
  \A t \in Tid : \A j \in 1 .. Len(past[t]) : \A i \in 1 .. j :
    <<t, i>> \in past[t][j]

PastExists ==
  \A x, u \in Tid : \A j \in 1 .. Len(past[u]) : \A i \in Nat :
    <<x, i>> \in past[u][j] =>
      IF x = u THEN i \in 1 .. j ELSE i \in Segments(x)

(* What a creator has published, what a thread leaves at its exit, whom a   *)
(* thread joins, and what the initial thread finds.                         *)
CreatingOK ==
  \A t \in Tid : pc[t] = "creating" =>
    LET n == Len(vector_clocks[t])
    IN  /\ n >= 2
        /\ creator_thread_id = t
        /\ creator_thread_clock = Tick(vector_clocks[t][n - 1], t)
        /\ Stamp(t, n - 1, t) + 1 < Stamp(t, n, t)

EndingOK ==
  \A t \in Tid :
    /\ pc[t] = "exited" =>
         exit_threads_clock[t] = vector_clocks[t][Len(vector_clocks[t])]
    /\ pc[t] = "joining" => joining[t] \in Tid /\ pc[joining[t]] = "exited"

MainOK ==
  /\ Exists(Main)
  /\ ~Started(Main) => creator_thread_id = NoTid /\ past[Main][1] = {<<Main, 1>>}

GroundInv ==
  /\ SegmentsCounted /\ Bounded /\ OwnGrows /\ OwnPast /\ PastExists
  /\ CreatingOK /\ EndingOK /\ MainOK

(* The clocks respect the order of the segments, and what an unread child   *)
(* will read is above its creator's clock.                                  *)
PastBelow ==
  \A x, u \in Tid : \A i \in Segments(x), j \in Segments(u) :
    <<x, i>> \in past[u][j] => Below(vector_clocks[x][i], vector_clocks[u][j])

(* u comes after the first k segments of its creator v. *)
ComesAfter(u, v, k) ==
  /\ k \in Segments(v) /\ past[u][1] = past[v][k] \cup {<<u, 1>>}

UnreadAbove ==
  \A u \in Unread :
    /\ creator_thread_id # NoTid
    /\ parent[u] \in Tid
    /\ \E k \in Nat : /\ ComesAfter(u, parent[u], k)
                      /\ Below(vector_clocks[parent[u]][k], creator_thread_clock)

BelowInv ==
  ~misjoined /\ "other" \notin overtaken => PastBelow /\ UnreadAbove

(* The clocks know no more than the order of the segments. *)
Known ==
  \A x, u \in Tid : x # u =>
    \A i \in Segments(x), j \in Segments(u) :
      Stamp(x, i, x) <= Stamp(u, j, x) => <<x, i>> \in past[u][j]

UnreadExact ==
  \A u \in Unread : \E v \in Tid, k \in Nat :
    /\ ComesAfter(u, v, k)
    /\ creator_thread_clock = Tick(vector_clocks[v][k], v)
    /\ k + 1 \in Segments(v)
    /\ Stamp(v, k, v) + 1 < Stamp(v, k + 1, v)

KnownInv == ~misjoined /\ overtaken = {} => Known /\ UnreadExact

TypeInv == ControlInv /\ ClockInv /\ HistoryInv /\ HandshakeInv

-----------------------------------------------------------------------------
(* Timestamps *)

LEMMA AtNat ==
  ASSUME NEW c, IsClock(c, Tid)
  PROVE  \A x \in Tid : At(c, x) \in Nat
  BY DEF IsClock, At

LEMMA AtTick ==
  ASSUME NEW c, IsClock(c, Tid), NEW t \in Tid
  PROVE  \A x \in Tid : At(Tick(c, t), x) = IF x = t THEN At(c, x) + 1 ELSE At(c, x)
  BY DEF IsClock, At, Tick

LEMMA AtMerge ==
  ASSUME NEW c, NEW d, IsClock(c, Tid), IsClock(d, Tid)
  PROVE  \A x \in Tid : At(Merge(c, d), x) =
           IF At(c, x) < At(d, x) THEN At(d, x) ELSE At(c, x)
  BY DEF IsClock, At, Merge

LEMMA LeqBelow ==
  ASSUME NEW c, NEW d, IsClock(c, Tid), IsClock(d, Tid)
  PROVE  Leq(c, d) <=> Below(c, d)
<1>1. \A x \in Tid \ DOMAIN c : At(c, x) = 0
  BY DEF At
<1>2. \A x \in Tid : At(d, x) \in Nat
  BY AtNat
<1>3. DOMAIN c \subseteq Tid
  BY DEF IsClock
<1>4. QED BY <1>1, <1>2, <1>3 DEF Leq, Below

(* Every clock is one, and every timestamp a number. *)
LEMMA ClockFacts ==
  ASSUME TypeInv
  PROVE  /\ \A t \in Tid : Len(vector_clocks[t]) \in Nat
         /\ \A t \in Tid : \A i \in Segments(t) : IsClock(vector_clocks[t][i], Tid)
         /\ \A t, x \in Tid : \A i \in Segments(t) : Stamp(t, i, x) \in Nat
         /\ \A u, x \in Tid : At(exit_threads_clock[u], x) \in Nat
         /\ \A x \in Tid : At(creator_thread_clock, x) \in Nat
         /\ \A x \in Tid : Own(x) \in Nat
<1>1. /\ \A t \in Tid : IsClockSequence(vector_clocks[t])
      /\ \A t \in Tid : IsClock(exit_threads_clock[t], Tid)
      /\ IsClock(creator_thread_clock, Tid)
  BY DEF TypeInv, ClockInv, ClockTypes
<1>2. \A t \in Tid : /\ Len(vector_clocks[t]) \in Nat
                     /\ DOMAIN vector_clocks[t] = Segments(t)
  BY <1>1 DEF IsClockSequence, Segments
<1>3. \A t \in Tid : \A i \in Segments(t) : IsClock(vector_clocks[t][i], Tid)
  BY <1>1, <1>2 DEF IsClockSequence
<1>4. \A t, x \in Tid : \A i \in Segments(t) : Stamp(t, i, x) \in Nat
  BY <1>3, AtNat DEF Stamp
<1>5. \A x \in Tid : Own(x) \in Nat
  BY <1>2, <1>4 DEF Own, Segments
<1>6. QED BY <1>1, <1>2, <1>3, <1>4, <1>5, AtNat

-----------------------------------------------------------------------------
(* A thread gains a segment *)

(* t gains a segment with the clock c and the past p. *)
Grown(t, c, p) ==
  /\ Len(vector_clocks'[t]) = Len(vector_clocks[t]) + 1
  /\ vector_clocks'[t][Len(vector_clocks[t]) + 1] = c
  /\ \A i \in Segments(t) : vector_clocks'[t][i] = vector_clocks[t][i]
  /\ \A u \in Tid : u # t => vector_clocks'[u] = vector_clocks[u]
  /\ Len(past'[t]) = Len(past[t]) + 1
  /\ past'[t][Len(past[t]) + 1] = p
  /\ \A i \in 1 .. Len(past[t]) : past'[t][i] = past[t][i]
  /\ \A u \in Tid : u # t => past'[u] = past[u]

LEMMA Appended ==
  ASSUME NEW S, NEW s \in Seq(S), NEW x \in S
  PROVE  /\ Len(s) \in Nat
         /\ Len(Append(s, x)) = Len(s) + 1
         /\ Append(s, x)[Len(s) + 1] = x
         /\ \A i \in 1 .. Len(s) : Append(s, x)[i] = s[i]
  OBVIOUS

LEMMA Grows ==
  ASSUME TypeInv, SegmentsCounted, NEW t \in Tid, Started(t), NEW c,
         NEW more \in SUBSET (Tid \X Nat), NewSegment(t, c, more)
  PROVE  Grown(t, c, past[t][Len(past[t])] \cup more \cup {<<t, Len(past[t]) + 1>>})
<1> DEFINE P == SUBSET (Tid \X Nat)
           q == past[t][Len(past[t])] \cup more \cup {<<t, Len(past[t]) + 1>>}
           R == {vector_clocks[t][i] : i \in DOMAIN vector_clocks[t]} \cup {c}
<1>1. /\ vector_clocks = [u \in Tid |-> vector_clocks[u]]
      /\ \A u \in Tid : IsClockSequence(vector_clocks[u])
      /\ past \in [Tid -> Seq(P)]
  BY DEF TypeInv, ClockInv, ClockTypes, HistoryInv, HistoryTypes
<1>2. vector_clocks[t] \in Seq(R) /\ c \in R
  <2> DEFINE Q == {vector_clocks[t][i] : i \in DOMAIN vector_clocks[t]}
  <2>1. vector_clocks[t] \in Seq(Q)
    BY <1>1 DEF IsClockSequence
  <2>2. Q \subseteq R
    OBVIOUS
  <2> HIDE DEF Q, R
  <2>3. vector_clocks[t] \in Seq(R)
    BY <2>1, <2>2
  <2>4. QED BY <2>3 DEF R
<1>3. Len(past[t]) \in Nat /\ Len(past[t]) >= 1 /\ past[t] \in Seq(P)
  BY <1>1 DEF SegmentsCounted
<1>4. past[t][Len(past[t])] \in P
  <2> HIDE DEF P
  <2>1. QED BY <1>3
<1>5. q \in P
  BY <1>3, <1>4
<1>6. /\ vector_clocks' = [vector_clocks EXCEPT ![t] = Append(vector_clocks[t], c)]
      /\ past' = [past EXCEPT ![t] = Append(past[t], q)]
  BY DEF NewSegment, Last
<1> HIDE DEF P, q, R
<1>7. /\ Len(Append(vector_clocks[t], c)) = Len(vector_clocks[t]) + 1
      /\ Append(vector_clocks[t], c)[Len(vector_clocks[t]) + 1] = c
      /\ \A i \in 1 .. Len(vector_clocks[t]) :
           Append(vector_clocks[t], c)[i] = vector_clocks[t][i]
  BY <1>2, Appended
<1>8. /\ Len(Append(past[t], q)) = Len(past[t]) + 1
      /\ Append(past[t], q)[Len(past[t]) + 1] = q
      /\ \A i \in 1 .. Len(past[t]) : Append(past[t], q)[i] = past[t][i]
  BY <1>3, <1>5, Appended
<1>9. /\ vector_clocks'[t] = Append(vector_clocks[t], c)
      /\ \A u \in Tid : u # t => vector_clocks'[u] = vector_clocks[u]
  BY <1>1, <1>6
<1>10. /\ past'[t] = Append(past[t], q)
       /\ \A u \in Tid : u # t => past'[u] = past[u]
  BY <1>1, <1>6
<1>11. Grown(t, c, q)
  BY <1>7, <1>8, <1>9, <1>10 DEF Grown, Segments
<1>12. QED BY <1>11 DEF q

LEMMA GrownFacts ==
  ASSUME TypeInv, SegmentsCounted, NEW t \in Tid, Started(t), NEW c, NEW p,
         Grown(t, c, p), NEW n, n = Len(vector_clocks[t])
  PROVE  /\ n \in Nat /\ n >= 1 /\ Len(past[t]) = n
         /\ Segments(t) = 1 .. n /\ Segments(t)' = 1 .. n + 1
         /\ Own(t) = Stamp(t, n, t) /\ Own(t)' = At(c, t)
         /\ \A x \in Tid : Stamp(t, n + 1, x)' = At(c, x)
         /\ \A u \in Tid : u # t =>
              Segments(u)' = Segments(u) /\ Own(u)' = Own(u)
         /\ \A u, x \in Tid : \A i \in Segments(u) :
              /\ Stamp(u, i, x)' = Stamp(u, i, x)
              /\ vector_clocks'[u][i] = vector_clocks[u][i]
         /\ Len(past'[t]) = n + 1 /\ past'[t][n + 1] = p
         /\ \A i \in 1 .. n : past'[t][i] = past[t][i]
         /\ \A u \in Tid : u # t => past'[u] = past[u]
<1>1. n \in Nat /\ n >= 1 /\ Len(past[t]) = n
  BY ClockFacts DEF SegmentsCounted
<1>2. Segments(t) = 1 .. n /\ Segments(t)' = 1 .. n + 1
  BY DEF Grown, Segments
<1>3. Own(t) = Stamp(t, n, t) /\ Own(t)' = At(c, t)
  BY <1>1 DEF Grown, Own, Stamp
<1>4. \A u \in Tid : u # t => Segments(u)' = Segments(u) /\ Own(u)' = Own(u)
  BY DEF Grown, Segments, Own, Stamp
<1>5. \A u \in Tid : \A i \in Segments(u) :
        vector_clocks'[u][i] = vector_clocks[u][i]
  BY DEF Grown
<1>6. /\ Len(past'[t]) = n + 1 /\ past'[t][n + 1] = p
      /\ \A i \in 1 .. n : past'[t][i] = past[t][i]
      /\ \A u \in Tid : u # t => past'[u] = past[u]
  BY <1>1 DEF Grown
<1>7. \A x \in Tid : Stamp(t, n + 1, x)' = At(c, x)
  BY DEF Grown, Stamp
<1>8. \A u, x \in Tid : \A i \in Segments(u) : Stamp(u, i, x)' = Stamp(u, i, x)
  BY <1>5 DEF Stamp
<1>9. QED BY <1>1, <1>2, <1>3, <1>4, <1>5, <1>6, <1>7, <1>8

(* Every clock is below the newest timestamps. *)
Bounds ==
  \A u, x \in Tid : \A j \in Segments(u) : Stamp(u, j, x) <= Own(x)

(* A clock that t can go on with: newer than its last, and of the others    *)
(* nothing that is not there.                                               *)
NextClock(t, c) ==
  /\ \A x \in Tid : At(c, x) \in Nat
  /\ Own(t) < At(c, t)
  /\ \A x \in Tid : x # t => At(c, x) <= Own(x)

ArePast(more) ==
  \A x \in Tid : \A i \in Nat : <<x, i>> \in more => i \in Segments(x)

Moves(t) == Started(t)' /\ \A u \in Tid : u # t => pc'[u] = pc[u]

OwnAdvances == \A x \in Tid : Own(x) <= Own(x)'

LEMMA GrownGround ==
  ASSUME TypeInv, GroundInv, NEW t \in Tid, Started(t), NEW c, NEW more,
         NEW n, n = Len(vector_clocks[t]),
         Grown(t, c, past[t][n] \cup more \cup {<<t, n + 1>>}),
         Moves(t), NextClock(t, c), ArePast(more)
  PROVE  /\ SegmentsCounted' /\ OwnGrows' /\ OwnPast' /\ PastExists'
         /\ Bounds' /\ OwnAdvances
<1> SUFFICES
      ASSUME Started(t)', \A u \in Tid : u # t => pc'[u] = pc[u],
             \A x \in Tid : At(c, x) \in Nat,
             Own(t) < At(c, t), \A x \in Tid : x # t => At(c, x) <= Own(x),
             \A x \in Tid : \A i \in Nat : <<x, i>> \in more =>
               i \in Segments(x)
      PROVE  /\ SegmentsCounted' /\ OwnGrows' /\ OwnPast' /\ PastExists'
             /\ Bounds' /\ OwnAdvances
  BY DEF Moves, NextClock, ArePast
<1> DEFINE p == past[t][n] \cup more \cup {<<t, n + 1>>}
<1>1. /\ SegmentsCounted /\ Bounded /\ OwnGrows /\ OwnPast /\ PastExists
  BY DEF GroundInv
<1>2. /\ n \in Nat /\ n >= 1 /\ Len(past[t]) = n
      /\ Segments(t) = 1 .. n /\ Segments(t)' = 1 .. n + 1
      /\ Own(t) = Stamp(t, n, t) /\ Own(t)' = At(c, t)
  BY <1>1, GrownFacts
<1>3. /\ \A x \in Tid : Stamp(t, n + 1, x)' = At(c, x)
      /\ \A u \in Tid : u # t => Segments(u)' = Segments(u) /\ Own(u)' = Own(u)
      /\ \A u, x \in Tid : \A i \in Segments(u) : Stamp(u, i, x)' = Stamp(u, i, x)
  BY <1>1, GrownFacts
<1>4. /\ Len(past'[t]) = n + 1 /\ past'[t][n + 1] = p
      /\ \A i \in 1 .. n : past'[t][i] = past[t][i]
      /\ \A u \in Tid : u # t => past'[u] = past[u]
  BY <1>1, GrownFacts
<1>5. /\ \A u, x \in Tid : \A i \in Segments(u) : Stamp(u, i, x) \in Nat
      /\ \A x \in Tid : Own(x) \in Nat
  BY ClockFacts
<1>6. p = past[t][n] \cup more \cup {<<t, n + 1>>}
  OBVIOUS
<1> HIDE DEF p
<1>7. SegmentsCounted'
  <2>1. Len(vector_clocks'[t]) = n + 1
    BY DEF Grown
  <2>2. \A u \in Tid : u # t => Len(vector_clocks'[u]) = Len(vector_clocks[u])
    BY DEF Grown
  <2>3. QED BY <1>1, <1>2, <1>4, <2>1, <2>2 DEF SegmentsCounted, Started
<1>8. OwnGrows'
  <2>1. ASSUME NEW u \in Tid, NEW i \in Segments(u)', NEW j \in Segments(u)', i < j
        PROVE  Stamp(u, i, u)' < Stamp(u, j, u)'
    <3>1. CASE u # t \/ j # n + 1
      BY <1>1, <1>2, <1>3, <2>1, <3>1 DEF OwnGrows
    <3>2. CASE u = t /\ j = n + 1
      <4>1. i \in Segments(t) /\ i \in 1 .. n
        BY <1>2, <2>1, <3>2
      <4>2. Stamp(t, i, t) <= Stamp(t, n, t)
        <5>1. i \in 1 .. n /\ n \in Segments(t) /\ Stamp(t, n, t) \in Nat
          BY <1>2, <1>5, <4>1
        <5>2. i < n => Stamp(t, i, t) < Stamp(t, n, t)
          BY <1>1, <4>1, <5>1 DEF OwnGrows
        <5>3. Stamp(t, i, t) \in Nat /\ i \in Nat /\ i <= n
          BY <1>2, <1>5, <4>1
        <5>4. i = n => Stamp(t, i, t) = Stamp(t, n, t)
          OBVIOUS
        <5>5. QED BY <1>2, <5>1, <5>2, <5>3, <5>4
      <4>3. Stamp(t, i, t)' = Stamp(t, i, t) /\ Stamp(t, n + 1, t)' = At(c, t)
        BY <1>3, <4>1
      <4>4. Stamp(t, i, t) \in Nat /\ Stamp(t, n, t) \in Nat /\ At(c, t) \in Nat
        BY <1>2, <1>5, <4>1
      <4>5. QED BY <1>2, <3>2, <4>2, <4>3, <4>4
    <3>3. QED BY <3>1, <3>2
  <2>2. QED BY <2>1 DEF OwnGrows
<1>9. OwnPast'
  <2>1. ASSUME NEW u \in Tid, NEW j \in 1 .. Len(past'[u]), NEW i \in 1 .. j
        PROVE  <<u, i>> \in past'[u][j]
    <3>1. CASE u # t
      BY <1>1, <1>4, <2>1, <3>1 DEF OwnPast
    <3>2. CASE u = t /\ j # n + 1
      <4>1. j \in 1 .. Len(past[t])
        BY <1>2, <1>4, <2>1, <3>2
      <4>2. QED BY <1>1, <1>2, <1>4, <2>1, <3>2, <4>1 DEF OwnPast
    <3>3. CASE u = t /\ j = n + 1 /\ i # n + 1
      <4>1. i \in 1 .. n /\ n \in 1 .. Len(past[t])
        BY <1>2, <2>1, <3>3
      <4>2. <<t, i>> \in past[t][n]
        BY <1>1, <4>1 DEF OwnPast
      <4>3. QED BY <1>4, <1>6, <3>3, <4>2
    <3>4. CASE u = t /\ j = n + 1 /\ i = n + 1
      BY <1>4, <1>6, <3>4
    <3>5. QED BY <3>1, <3>2, <3>3, <3>4
  <2>2. QED BY <2>1 DEF OwnPast
<1>10. PastExists'
  <2>1. \A x \in Tid : Segments(x) \subseteq Segments(x)'
    BY <1>2, <1>3
  <2>2. ASSUME NEW x \in Tid, NEW u \in Tid, NEW j \in 1 .. Len(past'[u]),
               NEW i \in Nat, <<x, i>> \in past'[u][j]
        PROVE  IF x = u THEN i \in 1 .. j ELSE i \in Segments(x)'
    <3>1. CASE u # t \/ j # n + 1
      <4>1. u # t => past'[u] = past[u]
        BY <1>4
      <4>2. u = t => j \in 1 .. n /\ past'[u][j] = past[u][j] /\ Len(past[u]) = n
        BY <1>2, <1>4, <2>2, <3>1, SMTT(40)
      <4>3. j \in 1 .. Len(past[u]) /\ <<x, i>> \in past[u][j]
        BY <2>2, <4>1, <4>2
      <4>4. IF x = u THEN i \in 1 .. j ELSE i \in Segments(x)
        BY <1>1, <4>3 DEF PastExists
      <4>5. QED BY <2>1, <4>4
    <3>2. CASE u = t /\ j = n + 1
      <4>1. <<x, i>> \in past[t][n] => IF x = t THEN i \in 1 .. n ELSE i \in Segments(x)
        BY <1>1, <1>2, SMTT(30) DEF PastExists
      <4>2. <<x, i>> \in more => i \in Segments(x)
        OBVIOUS
      <4>3. \/ <<x, i>> \in past[t][n] \/ <<x, i>> \in more
            \/ x = t /\ i = n + 1
        BY <1>4, <1>6, <2>2, <3>2
      <4>4. QED BY <1>2, <2>1, <3>2, <4>1, <4>2, <4>3
    <3>3. QED BY <3>1, <3>2
  <2>3. QED BY <2>2 DEF PastExists
<1>11. \A x \in Tid : Own(x) <= Own(x)'
  BY <1>2, <1>3, <1>5
<1>12. ASSUME NEW u \in Tid, NEW x \in Tid, NEW j \in Segments(u)'
       PROVE  Stamp(u, j, x)' <= Own(x)'
  <2>1. CASE u # t \/ j # n + 1
    <3>1. j \in Segments(u)
      BY <1>2, <1>3, <2>1
    <3>2. Stamp(u, j, x)' = Stamp(u, j, x) /\ Stamp(u, j, x) <= Own(x)
      BY <1>1, <1>3, <3>1 DEF Bounded
    <3>3. QED BY <1>2, <1>3, <1>5, <1>11, <3>1, <3>2
  <2>2. CASE u = t /\ j = n + 1
    BY <1>2, <1>3, <1>5, <2>2
  <2>3. QED BY <2>1, <2>2
<1>13. QED BY <1>7, <1>8, <1>9, <1>10, <1>11, <1>12 DEF Bounds, OwnAdvances

(* The order of the segments goes on being respected if c is above the      *)
(* clocks of its past.                                                      *)
LEMMA GrownBelow ==
  ASSUME TypeInv, GroundInv, NEW t \in Tid, Started(t), NEW c, NEW more,
         NEW n, n = Len(vector_clocks[t]),
         Grown(t, c, past[t][n] \cup more \cup {<<t, n + 1>>}),
         \A x \in Tid : At(c, x) \in Nat,
         PastBelow, Below(vector_clocks[t][n], c),
         \A x \in Tid : \A i \in Segments(x) :
           <<x, i>> \in more => Below(vector_clocks[x][i], c)
  PROVE  PastBelow'
<1> DEFINE p == past[t][n] \cup more \cup {<<t, n + 1>>}
<1>1. SegmentsCounted /\ PastExists
  BY DEF GroundInv
<1>2. /\ n \in Nat /\ n >= 1 /\ Len(past[t]) = n
      /\ Segments(t) = 1 .. n /\ Segments(t)' = 1 .. n + 1
      /\ \A u \in Tid : u # t => Segments(u)' = Segments(u)
      /\ \A u \in Tid : \A i \in Segments(u) :
           vector_clocks'[u][i] = vector_clocks[u][i]
  BY <1>1, GrownFacts
<1>3. /\ Len(past'[t]) = n + 1 /\ past'[t][n + 1] = p
      /\ \A i \in 1 .. n : past'[t][i] = past[t][i]
      /\ \A u \in Tid : u # t => past'[u] = past[u]
  BY <1>1, GrownFacts
<1>4. vector_clocks'[t][n + 1] = c
  BY DEF Grown
<1>5. \A u, x \in Tid : \A i \in Segments(u) : At(vector_clocks[u][i], x) \in Nat
  BY ClockFacts DEF Stamp
<1>6. \A u \in Tid : Segments(u) \subseteq 1 .. Len(past[u])
  <2>1. ASSUME NEW u \in Tid PROVE Segments(u) \subseteq 1 .. Len(past[u])
    <3>1. CASE Started(u)
      BY <1>1, <3>1 DEF SegmentsCounted, Segments
    <3>2. CASE ~Started(u)
      <4>1. Segments(u) = {}
        BY <1>1, <3>2 DEF SegmentsCounted, Segments
      <4>2. QED BY <4>1
    <3>3. QED BY <3>1, <3>2
  <2>2. QED BY <2>1
<1>7. /\ \A u \in Tid : Segments(u) \subseteq Nat
      /\ \A u \in Tid : Segments(u)' \subseteq Nat
  <2>1. \A u \in Tid : Segments(u) \subseteq Nat
    BY ClockFacts DEF Segments
  <2>2. QED BY <1>2, <2>1
<1> HIDE DEF p
<1>8. ASSUME NEW x \in Tid, NEW u \in Tid, NEW i \in Segments(x)',
             NEW j \in Segments(u)', <<x, i>> \in past'[u][j]
      PROVE  Below(vector_clocks'[x][i], vector_clocks'[u][j])
  <2>1. CASE u # t \/ j # n + 1
    <3>1. j \in Segments(u) /\ past'[u][j] = past[u][j]
      <4>1. CASE u # t
        BY <1>2, <1>3, <1>8, <4>1
      <4>2. CASE u = t
        <5>1. j \in 1 .. n + 1 /\ j # n + 1
          BY <1>2, <1>8, <2>1, <4>2
        <5>2. j \in 1 .. n
          BY <1>2, <5>1
        <5>3. QED BY <1>2, <1>3, <4>2, <5>2
      <4>3. QED BY <4>1, <4>2
    <3>2. i \in Nat /\ j \in 1 .. Len(past[u])
      BY <1>2, <1>6, <1>7, <1>8, <3>1
    <3>3. IF x = u THEN i \in 1 .. j ELSE i \in Segments(x)
      BY <1>1, <1>8, <3>1, <3>2 DEF PastExists
    <3>4. i \in Segments(x)
      BY <3>1, <3>3, ClockFacts DEF Segments
    <3>5. Below(vector_clocks[x][i], vector_clocks[u][j])
      BY <1>8, <3>1, <3>4 DEF PastBelow
    <3>6. QED BY <1>2, <3>1, <3>4, <3>5
  <2>2. CASE u = t /\ j = n + 1
    <3>1. CASE x = t /\ i = n + 1
      BY <1>4, <2>2, <3>1 DEF Below
    <3>2. CASE ~(x = t /\ i = n + 1)
      <4>1. i \in Segments(x)
        BY <1>2, <1>8, <3>2
      <4>2. <<x, i>> \in past[t][n] \cup more
        BY <1>3, <1>8, <2>2, <3>2 DEF p
      <4>3. Below(vector_clocks[x][i], c)
        <5>1. CASE <<x, i>> \in more
          BY <4>1, <5>1
        <5>2. CASE <<x, i>> \in past[t][n]
          <6>1. n \in Segments(t)
            BY <1>2
          <6>2. Below(vector_clocks[x][i], vector_clocks[t][n])
            BY <4>1, <5>2, <6>1 DEF PastBelow
          <6>3. QED BY <1>5, <4>1, <6>1, <6>2 DEF Below
        <5>3. QED BY <4>2, <5>1, <5>2
      <4>4. QED BY <1>2, <1>4, <2>2, <4>1, <4>3
    <3>3. QED BY <3>1, <3>2
  <2>3. QED BY <2>1, <2>2
<1>9. QED BY <1>8 DEF PastBelow

(* And they know no more if c does not.                                     *)
LEMMA GrownKnown ==
  ASSUME TypeInv, GroundInv, NEW t \in Tid, Started(t), NEW c, NEW more,
         NEW n, n = Len(vector_clocks[t]),
         Grown(t, c, past[t][n] \cup more \cup {<<t, n + 1>>}),
         \A x \in Tid : At(c, x) \in Nat, Own(t) < At(c, t),
         Known,
         \A x \in Tid : x # t => \A i \in Segments(x) :
           Stamp(x, i, x) <= At(c, x) => <<x, i>> \in past[t][n] \cup more
  PROVE  Known'
<1> DEFINE p == past[t][n] \cup more \cup {<<t, n + 1>>}
<1>1. SegmentsCounted /\ Bounded
  BY DEF GroundInv
<1>2. /\ n \in Nat /\ n >= 1
      /\ Segments(t) = 1 .. n /\ Segments(t)' = 1 .. n + 1
      /\ \A u \in Tid : u # t => Segments(u)' = Segments(u)
      /\ \A x \in Tid : Stamp(t, n + 1, x)' = At(c, x)
      /\ \A u, x \in Tid : \A i \in Segments(u) : Stamp(u, i, x)' = Stamp(u, i, x)
  BY <1>1, GrownFacts
<1>3. /\ past'[t][n + 1] = p
      /\ \A i \in 1 .. n : past'[t][i] = past[t][i]
      /\ \A u \in Tid : u # t => past'[u] = past[u]
  BY <1>1, GrownFacts
<1>4. /\ \A u, x \in Tid : \A i \in Segments(u) : Stamp(u, i, x) \in Nat
      /\ \A x \in Tid : Own(x) \in Nat
  BY ClockFacts
<1>5. p = past[t][n] \cup more \cup {<<t, n + 1>>}
  OBVIOUS
<1> HIDE DEF p
<1>6. ASSUME NEW x \in Tid, NEW u \in Tid, x # u, NEW i \in Segments(x)',
             NEW j \in Segments(u)', Stamp(x, i, x)' <= Stamp(u, j, x)'
      PROVE  <<x, i>> \in past'[u][j]
  <2>1. CASE x = t /\ i = n + 1
    <3>1. j \in Segments(u) /\ Stamp(u, j, t)' = Stamp(u, j, t)
      BY <1>2, <1>6, <2>1
    <3>2. Stamp(u, j, t) <= Own(t) /\ Stamp(u, j, t) \in Nat /\ Own(t) \in Nat
      BY <1>1, <1>4, <3>1 DEF Bounded
    <3>3. At(c, t) <= Stamp(u, j, t) /\ At(c, t) \in Nat
      BY <1>2, <1>6, <2>1, <3>1
    <3>4. QED BY <3>2, <3>3
  <2>2. CASE ~(x = t /\ i = n + 1)
    <3>1. i \in Segments(x) /\ Stamp(x, i, x)' = Stamp(x, i, x)
      BY <1>2, <1>6, <2>2
    <3>2. CASE u # t \/ j # n + 1
      <4>1. j \in Segments(u) /\ past'[u][j] = past[u][j]
        BY <1>2, <1>3, <1>6, <3>2
      <4>2. Stamp(u, j, x)' = Stamp(u, j, x)
        BY <1>2, <4>1
      <4>3. QED BY <1>6, <3>1, <4>1, <4>2 DEF Known
    <3>3. CASE u = t /\ j = n + 1
      BY <1>2, <1>3, <1>5, <1>6, <3>1, <3>3
    <3>4. QED BY <3>2, <3>3
  <2>3. QED BY <2>1, <2>2
<1>7. QED BY <1>6 DEF Known

(* A child that is still to read finds its creator's segments unchanged.    *)
LEMMA GrownAfter ==
  ASSUME TypeInv, SegmentsCounted, NEW t \in Tid, Started(t), NEW c, NEW p,
         Grown(t, c, p), NEW u \in Tid, u # t, NEW v \in Tid, NEW k,
         ComesAfter(u, v, k)
  PROVE  /\ ComesAfter(u, v, k)'
         /\ vector_clocks'[v][k] = vector_clocks[v][k]
         /\ \A i \in Segments(v) : i \in Segments(v)' /\ Stamp(v, i, v)' = Stamp(v, i, v)
<1>1. PICK n : n = Len(vector_clocks[t])
  OBVIOUS
<1>2. /\ n \in Nat /\ n >= 1 /\ Len(past[t]) = n
      /\ Segments(t) = 1 .. n /\ Segments(t)' = 1 .. n + 1
      /\ \A w \in Tid : w # t => Segments(w)' = Segments(w)
      /\ \A w, x \in Tid : \A i \in Segments(w) :
           /\ Stamp(w, i, x)' = Stamp(w, i, x)
           /\ vector_clocks'[w][i] = vector_clocks[w][i]
      /\ \A i \in 1 .. n : past'[t][i] = past[t][i]
      /\ \A w \in Tid : w # t => past'[w] = past[w]
  BY <1>1, GrownFacts
<1>3. k \in Segments(v) /\ past[u][1] = past[v][k] \cup {<<u, 1>>}
  BY DEF ComesAfter
<1>4. past'[u] = past[u] /\ past'[v][k] = past[v][k]
  BY <1>2, <1>3
<1>5. k \in Segments(v)'
  BY <1>2, <1>3
<1>6. ComesAfter(u, v, k)'
  BY <1>3, <1>4, <1>5 DEF ComesAfter
<1>7. \A i \in Segments(v) : i \in Segments(v)' /\ Stamp(v, i, v)' = Stamp(v, i, v)
  BY <1>2
<1>8. QED BY <1>2, <1>3, <1>6, <1>7

-----------------------------------------------------------------------------
(* The steps *)

OrderInv == GroundInv /\ BelowInv /\ KnownInv

(* The segment that t is in. *)
LEMMA Current ==
  ASSUME TypeInv, GroundInv, NEW t \in Tid, Started(t),
         NEW n, n = Len(vector_clocks[t])
  PROVE  /\ n \in Nat /\ n >= 1 /\ n \in Segments(t) /\ Len(past[t]) = n
         /\ Last(vector_clocks[t]) = vector_clocks[t][n]
         /\ Last(past[t]) = past[t][n]
         /\ IsClock(vector_clocks[t][n], Tid)
         /\ Own(t) = At(vector_clocks[t][n], t)
         /\ \A x \in Tid : /\ At(vector_clocks[t][n], x) \in Nat
                           /\ At(vector_clocks[t][n], x) <= Own(x)
         /\ \A i \in Segments(t) : <<t, i>> \in past[t][n]
<1>1. n \in Nat /\ n >= 1 /\ Len(past[t]) = n
  BY ClockFacts DEF GroundInv, SegmentsCounted
<1>2. n \in Segments(t) /\ Segments(t) = 1 .. n
  BY <1>1 DEF Segments
<1>3. /\ Last(vector_clocks[t]) = vector_clocks[t][n]
      /\ Last(past[t]) = past[t][n]
  BY <1>1 DEF Last
<1>4. IsClock(vector_clocks[t][n], Tid)
  BY <1>2, ClockFacts
<1>5. Own(t) = At(vector_clocks[t][n], t)
  BY <1>1 DEF Own, Stamp
<1>6. \A x \in Tid : /\ At(vector_clocks[t][n], x) \in Nat
                     /\ At(vector_clocks[t][n], x) <= Own(x)
  BY <1>2, ClockFacts DEF GroundInv, Bounded, Stamp
<1>7. \A i \in Segments(t) : <<t, i>> \in past[t][n]
  <2>1. n \in 1 .. Len(past[t])
    BY <1>1
  <2>2. QED BY <1>2, <2>1 DEF GroundInv, OwnPast
<1>8. QED BY <1>1, <1>2, <1>3, <1>4, <1>5, <1>6, <1>7

LEMMA CreateBeginOrdered ==
  ASSUME TypeInv, OrderInv, NEW t \in Tid, CreateBegin(t)
  PROVE  OrderInv'
<1>1. PICK n : n = Len(vector_clocks[t])
  OBVIOUS
<1>2. GroundInv /\ Started(t) /\ pc[t] = "running" /\ thread_creation_mutex = NoTid
  BY DEF OrderInv, CreateBegin, Started
<1>3. /\ n \in Nat /\ n >= 1 /\ n \in Segments(t) /\ Len(past[t]) = n
      /\ Last(vector_clocks[t]) = vector_clocks[t][n]
      /\ IsClock(vector_clocks[t][n], Tid)
      /\ Own(t) = At(vector_clocks[t][n], t)
      /\ \A x \in Tid : /\ At(vector_clocks[t][n], x) \in Nat
                        /\ At(vector_clocks[t][n], x) <= Own(x)
      /\ \A i \in Segments(t) : <<t, i>> \in past[t][n]
  BY <1>1, <1>2, Current
<1>4. PICK L : L = vector_clocks[t][n]
  OBVIOUS
<1>5. PICK d : d = Tick(L, t)
  OBVIOUS
<1>6. PICK c : c = Tick(d, t)
  OBVIOUS
<1>7. IsClock(L, Tid) /\ IsClock(d, Tid)
  BY <1>3, <1>4, <1>5, TickIsClock
<1>8. \A x \in Tid : /\ At(L, x) \in Nat
                     /\ At(d, x) = IF x = t THEN At(L, x) + 1 ELSE At(L, x)
                     /\ At(c, x) = IF x = t THEN At(L, x) + 2 ELSE At(L, x)
  <2>1. \A x \in Tid : At(L, x) \in Nat
    BY <1>7, AtNat
  <2>2. \A x \in Tid : At(d, x) = IF x = t THEN At(L, x) + 1 ELSE At(L, x)
    BY <1>5, <1>7, AtTick
  <2>3. \A x \in Tid : At(c, x) = IF x = t THEN At(d, x) + 1 ELSE At(d, x)
    BY <1>6, <1>7, AtTick
  <2>4. QED BY <2>1, <2>2, <2>3
<1>a. PICK none : none = {}
  OBVIOUS
<1>9. /\ creator_thread_id' = t /\ creator_thread_clock' = d
      /\ NewSegment(t, c, {})
      /\ pc' = [pc EXCEPT ![t] = "creating"]
      /\ overtaken' = overtaken \cup
                      {IF parent[u] = t THEN "own" ELSE "other" : u \in Unread}
      /\ UNCHANGED <<exit_threads_clock, joining, parent, misjoined>>
  BY <1>3, <1>4, <1>5, <1>6
     DEF CreateBegin, ClockForChild, ClockAfterCreate, maps, library
<1>10. /\ pc'[t] = "creating" /\ \A u \in Tid : u # t => pc'[u] = pc[u]
       /\ Started(t)'
  BY <1>9 DEF TypeInv, ControlInv, ControlTypes, Started
<1>11. Grown(t, c, past[t][n] \cup none \cup {<<t, n + 1>>})
  BY <1>2, <1>3, <1>9, <1>a, Grows DEF GroundInv
<1>12. /\ n \in Nat
       /\ Segments(t) = 1 .. n /\ Segments(t)' = 1 .. n + 1
       /\ Len(vector_clocks'[t]) = n + 1
       /\ \A x \in Tid : Stamp(t, n + 1, x)' = At(c, x)
       /\ \A u, x \in Tid : \A i \in Segments(u) :
            /\ Stamp(u, i, x)' = Stamp(u, i, x)
            /\ vector_clocks'[u][i] = vector_clocks[u][i]
       /\ \A u \in Tid : u # t => vector_clocks'[u] = vector_clocks[u]
       /\ \A u \in Tid : u # t => past'[u] = past[u]
       /\ Own(t)' = At(c, t)
       /\ \A u \in Tid : u # t => Own(u)' = Own(u)
  BY <1>1, <1>2, <1>11, GrownFacts DEF GroundInv, Grown
<1>13. GroundInv'
  <2>1. /\ SegmentsCounted' /\ OwnGrows' /\ OwnPast' /\ PastExists'
        /\ Bounds' /\ OwnAdvances
    <3>1. NextClock(t, c)
      BY <1>3, <1>4, <1>8 DEF NextClock
    <3>2. ArePast(none)
      BY <1>a DEF ArePast
    <3>3. Moves(t)
      BY <1>10 DEF Moves
    <3>4. QED BY <1>1, <1>2, <1>11, <3>1, <3>2, <3>3, GrownGround
  <2>2. Bounded'
    <3>1. \A x \in Tid : At(d, x) <= Own(x)'
      BY <1>3, <1>4, <1>8, <1>12
    <3>2. ASSUME NEW u \in Tid, NEW x \in Tid
          PROVE  At(exit_threads_clock'[u], x) <= Own(x)'
      <4>1. At(exit_threads_clock[u], x) <= Own(x)
        BY <1>2 DEF GroundInv, Bounded
      <4>2. At(exit_threads_clock[u], x) \in Nat /\ Own(x) \in Nat
        BY ClockFacts
      <4>3. Own(x)' \in Nat
        BY <1>8, <1>12, <4>2
      <4>4. QED BY <1>9, <2>1, <4>1, <4>2, <4>3 DEF OwnAdvances
    <3>3. QED BY <1>9, <2>1, <3>1, <3>2 DEF Bounded, Bounds
  <2>3. CreatingOK'
    <3>1. \A u \in Tid : u # t => pc'[u] # "creating"
      BY <1>2, <1>10, TidFacts DEF TypeInv, HandshakeInv, MutexHeld
    <3>2. /\ n + 1 >= 2 /\ creator_thread_id' = t
          /\ creator_thread_clock' = Tick(vector_clocks'[t][n], t)
          /\ Stamp(t, n, t)' + 1 < Stamp(t, n + 1, t)'
      <4>1. Stamp(t, n, t)' = At(L, t) /\ vector_clocks'[t][n] = L
        BY <1>3, <1>4, <1>12 DEF Stamp
      <4>2. QED BY <1>3, <1>5, <1>8, <1>9, <1>12, <4>1
    <3>3. n + 1 - 1 = n
      BY <1>12
    <3>4. QED BY <1>12, <3>1, <3>2, <3>3 DEF CreatingOK
  <2>4. EndingOK'
    BY <1>2, <1>9, <1>10, <1>12 DEF GroundInv, EndingOK
  <2>5. MainOK'
    <3>1. Started(Main) /\ Exists(Main)
      BY <1>2 DEF Started, Exists, TypeInv, HandshakeInv, MainFirst, GroundInv, MainOK
    <3>2. Started(Main)' /\ Exists(Main)'
      BY <1>10, <3>1, TidFacts DEF Started, Exists
    <3>3. QED BY <3>2 DEF MainOK
  <2>6. QED BY <2>1, <2>2, <2>3, <2>4, <2>5 DEF GroundInv
<1>14. /\ Unread' = Unread /\ t \notin Unread /\ Unread \subseteq Tid
  BY <1>2, <1>10 DEF Unread
<1>15. BelowInv'
  <2>1. SUFFICES ASSUME ~misjoined', "other" \notin overtaken'
                 PROVE  PastBelow' /\ UnreadAbove'
    BY DEF BelowInv
  <2>2. PastBelow /\ UnreadAbove
    BY <1>9, <2>1 DEF OrderInv, BelowInv
  <2>3. Below(vector_clocks[t][n], c)
    BY <1>4, <1>8 DEF Below
  <2>4. PastBelow'
    <3>1. \A x \in Tid : At(c, x) \in Nat
      BY <1>8
    <3>2. \A x \in Tid : \A i \in Segments(x) :
            <<x, i>> \in none => Below(vector_clocks[x][i], c)
      BY <1>a
    <3>3. QED BY <1>1, <1>2, <1>11, <2>2, <2>3, <3>1, <3>2, GrownBelow
  <2>5. ASSUME NEW u \in Unread
        PROVE  (/\ creator_thread_id # NoTid
                /\ parent[u] \in Tid
                /\ \E k \in Nat :
                     /\ ComesAfter(u, parent[u], k)
                     /\ Below(vector_clocks[parent[u]][k], creator_thread_clock))'
    <3>1. parent[u] = t
      BY <1>9, <2>1
    <3>2. PICK k \in Nat : ComesAfter(u, t, k)
      BY <2>2, <3>1 DEF UnreadAbove
    <3>3. k \in Segments(t)
      BY <3>2 DEF ComesAfter
    <3>4. ComesAfter(u, t, k)' /\ vector_clocks'[t][k] = vector_clocks[t][k]
      BY <1>2, <1>11, <1>14, <3>2, GrownAfter DEF GroundInv
    <3>5. Below(vector_clocks[t][k], L)
      BY <1>3, <1>4, <2>2, <3>3 DEF PastBelow
    <3>6. Below(vector_clocks[t][k], d)
      <4>1. \A x \in Tid : At(vector_clocks[t][k], x) \in Nat
        BY <3>3, ClockFacts, AtNat
      <4>2. QED BY <1>8, <3>5, <4>1 DEF Below
    <3>7. /\ (ComesAfter(u, parent[u], k))'
          /\ (Below(vector_clocks[parent[u]][k], creator_thread_clock))'
      <4>1. parent'[u] = t
        BY <1>9, <3>1
      <4>2. (ComesAfter(u, parent[u], k))'
        BY <3>4, <4>1 DEF ComesAfter
      <4>3. QED BY <1>9, <3>4, <3>6, <4>1, <4>2
    <3>8. QED BY <1>9, <3>1, <3>7, TidFacts
  <2>6. UnreadAbove'
    BY <1>14, <2>5 DEF UnreadAbove
  <2>7. QED BY <2>4, <2>6
<1>16. KnownInv'
  <2>1. SUFFICES ASSUME ~misjoined', overtaken' = {}
                 PROVE  Known' /\ UnreadExact'
    BY DEF KnownInv
  <2>2. Known /\ Unread = {}
    BY <1>9, <2>1 DEF OrderInv, KnownInv
  <2>3. \A x \in Tid : x # t => \A i \in Segments(x) :
          Stamp(x, i, x) <= At(c, x) => <<x, i>> \in past[t][n] \cup none
    BY <1>3, <1>4, <1>8, <2>2 DEF Known, Stamp
  <2>4. Known'
    <3>1. Own(t) < At(c, t) /\ \A x \in Tid : At(c, x) \in Nat
      BY <1>3, <1>4, <1>8
    <3>2. QED BY <1>1, <1>2, <1>11, <2>2, <2>3, <3>1, GrownKnown
  <2>5. UnreadExact'
    BY <1>14, <2>2 DEF UnreadExact
  <2>6. QED BY <2>4, <2>5
<1>17. QED BY <1>13, <1>15, <1>16 DEF OrderInv

(* What a step of t leaves alone when it does not create.                   *)
LEMMA GrownRest ==
  ASSUME TypeInv, GroundInv, NEW t \in Tid, Started(t), NEW c, NEW p,
         Grown(t, c, p), Moves(t), pc'[t] # "creating",
         UNCHANGED <<creator_thread_id, creator_thread_clock, parent>>
  PROVE  /\ CreatingOK' /\ MainOK'
         /\ UnreadAbove => UnreadAbove'
         /\ UnreadExact => UnreadExact'
<1>1. /\ Started(t)' /\ \A u \in Tid : u # t => pc'[u] = pc[u]
      /\ \A u \in Tid : u # t => vector_clocks'[u] = vector_clocks[u]
  BY DEF Moves, Grown
<1>2. SegmentsCounted /\ CreatingOK /\ MainOK
  BY DEF GroundInv
<1>3. CreatingOK'
  BY <1>1, <1>2 DEF CreatingOK, Stamp
<1>4. MainOK'
  <2>1. Started(Main) /\ Exists(Main)
    <3>1. t # Main => Started(Main)
      BY TidFacts DEF Started, TypeInv, HandshakeInv, MainFirst, MainOK, GroundInv, Exists
    <3>2. QED BY <1>2, <3>1 DEF MainOK
  <2>2. Started(Main)' /\ Exists(Main)'
    BY <1>1, <2>1, TidFacts DEF Started, Exists
  <2>3. QED BY <2>2 DEF MainOK
<1>5. /\ Unread' = Unread /\ t \notin Unread /\ Unread \subseteq Tid
  BY <1>1 DEF Unread, Started
<1>6. ASSUME NEW u \in Unread, NEW v \in Tid, NEW k, ComesAfter(u, v, k)
      PROVE  /\ ComesAfter(u, v, k)'
             /\ vector_clocks'[v][k] = vector_clocks[v][k]
             /\ \A i \in Segments(v) :
                  i \in Segments(v)' /\ Stamp(v, i, v)' = Stamp(v, i, v)
  BY <1>2, <1>5, <1>6, GrownAfter
<1>7. ASSUME UnreadAbove PROVE UnreadAbove'
  <2>1. ASSUME NEW u \in Unread
        PROVE  (/\ creator_thread_id # NoTid
                /\ parent[u] \in Tid
                /\ \E k \in Nat :
                     /\ ComesAfter(u, parent[u], k)
                     /\ Below(vector_clocks[parent[u]][k], creator_thread_clock))'
    <3>1. creator_thread_id # NoTid /\ parent[u] \in Tid
      BY <1>7 DEF UnreadAbove
    <3>2. PICK k \in Nat : /\ ComesAfter(u, parent[u], k)
                           /\ Below(vector_clocks[parent[u]][k], creator_thread_clock)
      BY <1>7 DEF UnreadAbove
    <3>3. PICK v \in Tid : v = parent[u]
      BY <3>1
    <3>4. ComesAfter(u, v, k)' /\ vector_clocks'[v][k] = vector_clocks[v][k]
      BY <1>6, <3>2, <3>3
    <3>5. parent'[u] = v /\ creator_thread_clock' = creator_thread_clock
      BY <3>3
    <3>6. (ComesAfter(u, parent[u], k))'
      BY <3>4, <3>5 DEF ComesAfter
    <3>7. (Below(vector_clocks[parent[u]][k], creator_thread_clock))'
      BY <3>2, <3>3, <3>4, <3>5
    <3>8. QED BY <3>1, <3>6, <3>7
  <2>2. QED BY <1>5, <2>1 DEF UnreadAbove
<1>8. ASSUME UnreadExact PROVE UnreadExact'
  <2>1. ASSUME NEW u \in Unread
        PROVE  (\E v \in Tid, k \in Nat :
                  /\ ComesAfter(u, v, k)
                  /\ creator_thread_clock = Tick(vector_clocks[v][k], v)
                  /\ k + 1 \in Segments(v)
                  /\ Stamp(v, k, v) + 1 < Stamp(v, k + 1, v))'
    <3>1. PICK v \in Tid, k \in Nat :
            /\ ComesAfter(u, v, k)
            /\ creator_thread_clock = Tick(vector_clocks[v][k], v)
            /\ k + 1 \in Segments(v)
            /\ Stamp(v, k, v) + 1 < Stamp(v, k + 1, v)
      BY <1>8 DEF UnreadExact
    <3>2. k \in Segments(v)
      BY <3>1 DEF ComesAfter
    <3>3. /\ ComesAfter(u, v, k)'
          /\ vector_clocks'[v][k] = vector_clocks[v][k]
          /\ Stamp(v, k, v)' = Stamp(v, k, v)
          /\ k + 1 \in Segments(v)' /\ Stamp(v, k + 1, v)' = Stamp(v, k + 1, v)
      BY <1>6, <3>1, <3>2
    <3>4. QED BY <3>1, <3>3
  <2>2. QED BY <1>5, <2>1 DEF UnreadExact
<1>9. QED BY <1>3, <1>4, <1>7, <1>8

LEMMA ThreadExitOrdered ==
  ASSUME TypeInv, OrderInv, NEW t \in Tid, ThreadExit(t)
  PROVE  OrderInv'
<1>1. PICK n : n = Len(vector_clocks[t])
  OBVIOUS
<1>2. GroundInv /\ Started(t) /\ pc[t] = "running"
  BY DEF OrderInv, ThreadExit, Started
<1>3. /\ n \in Nat /\ n >= 1 /\ n \in Segments(t) /\ Len(past[t]) = n
      /\ Last(vector_clocks[t]) = vector_clocks[t][n]
      /\ IsClock(vector_clocks[t][n], Tid)
      /\ Own(t) = At(vector_clocks[t][n], t)
      /\ \A x \in Tid : /\ At(vector_clocks[t][n], x) \in Nat
                        /\ At(vector_clocks[t][n], x) <= Own(x)
      /\ \A i \in Segments(t) : <<t, i>> \in past[t][n]
  BY <1>1, <1>2, Current
<1>4. PICK L : L = vector_clocks[t][n]
  OBVIOUS
<1>5. PICK c : c = Tick(L, t)
  OBVIOUS
<1>6. \A x \in Tid : /\ At(L, x) \in Nat
                     /\ At(c, x) = IF x = t THEN At(L, x) + 1 ELSE At(L, x)
  BY <1>3, <1>4, <1>5, AtNat, AtTick
<1>7. PICK none : none = {}
  OBVIOUS
<1>8. /\ NewSegment(t, c, {})
      /\ exit_threads_clock' = [exit_threads_clock EXCEPT ![t] = c]
      /\ pc' = [pc EXCEPT ![t] = "exited"]
      /\ UNCHANGED <<creator_thread_id, creator_thread_clock, joining, parent,
                     overtaken, misjoined>>
  BY <1>3, <1>4, <1>5 DEF ThreadExit, handshake, library
<1>9. /\ pc'[t] = "exited" /\ \A u \in Tid : u # t => pc'[u] = pc[u]
      /\ Started(t)'
  BY <1>8 DEF TypeInv, ControlInv, ControlTypes, Started
<1>10. /\ exit_threads_clock'[t] = c
       /\ \A u \in Tid : u # t => exit_threads_clock'[u] = exit_threads_clock[u]
  BY <1>8 DEF TypeInv, ClockInv, ClockTypes
<1>11. Grown(t, c, past[t][n] \cup none \cup {<<t, n + 1>>})
  BY <1>2, <1>3, <1>8, <1>7, Grows DEF GroundInv
<1>12. /\ Len(vector_clocks'[t]) = n + 1 /\ vector_clocks'[t][n + 1] = c
       /\ \A u \in Tid : u # t => vector_clocks'[u] = vector_clocks[u]
       /\ Own(t)' = At(c, t)
       /\ \A u \in Tid : u # t => Own(u)' = Own(u)
  BY <1>1, <1>2, <1>11, GrownFacts DEF GroundInv, Grown
<1>13. NextClock(t, c) /\ ArePast(none) /\ Moves(t)
  BY <1>3, <1>4, <1>6, <1>7, <1>9 DEF NextClock, ArePast, Moves
<1>14. /\ SegmentsCounted' /\ OwnGrows' /\ OwnPast' /\ PastExists'
       /\ Bounds' /\ OwnAdvances
  BY <1>1, <1>2, <1>11, <1>13, GrownGround
<1>15. /\ CreatingOK' /\ MainOK'
       /\ UnreadAbove => UnreadAbove'
       /\ UnreadExact => UnreadExact'
  BY <1>2, <1>8, <1>9, <1>11, <1>13, GrownRest
<1>16. \A x \in Tid : Own(x) \in Nat /\ Own(x)' \in Nat
  BY <1>6, <1>12, ClockFacts
<1>17. Bounded'
  <2>1. ASSUME NEW x \in Tid
        PROVE  At(creator_thread_clock', x) <= Own(x)'
    <3>1. At(creator_thread_clock, x) <= Own(x) /\ Own(x) <= Own(x)'
      BY <1>2, <1>14 DEF GroundInv, Bounded, OwnAdvances
    <3>2. At(creator_thread_clock, x) \in Nat
      BY ClockFacts
    <3>3. QED BY <1>8, <1>16, <3>1, <3>2
  <2>2. ASSUME NEW u \in Tid, NEW x \in Tid
        PROVE  At(exit_threads_clock'[u], x) <= Own(x)'
    <3>1. CASE u = t
      <4>1. At(c, x) <= Own(x)'
        BY <1>3, <1>4, <1>6, <1>12
      <4>2. QED BY <1>10, <3>1, <4>1
    <3>2. CASE u # t
      <4>1. At(exit_threads_clock[u], x) <= Own(x) /\ Own(x) <= Own(x)'
        BY <1>2, <1>14 DEF GroundInv, Bounded, OwnAdvances
      <4>2. At(exit_threads_clock[u], x) \in Nat
        BY ClockFacts
      <4>3. QED BY <1>10, <1>16, <3>2, <4>1, <4>2
    <3>3. QED BY <3>1, <3>2
  <2>3. QED BY <1>14, <2>1, <2>2 DEF Bounded, Bounds
<1>18. EndingOK'
  BY <1>2, <1>8, <1>9, <1>10, <1>12 DEF GroundInv, EndingOK
<1>19. GroundInv'
  BY <1>14, <1>15, <1>17, <1>18 DEF GroundInv
<1>20. BelowInv'
  <2>1. SUFFICES ASSUME ~misjoined', "other" \notin overtaken'
                 PROVE  PastBelow' /\ UnreadAbove'
    BY DEF BelowInv
  <2>2. PastBelow /\ UnreadAbove
    BY <1>8, <2>1 DEF OrderInv, BelowInv
  <2>3. Below(vector_clocks[t][n], c)
    BY <1>4, <1>6 DEF Below
  <2>4. \A x \in Tid : \A i \in Segments(x) :
          <<x, i>> \in none => Below(vector_clocks[x][i], c)
    BY <1>7
  <2>5. \A x \in Tid : At(c, x) \in Nat
    BY <1>6
  <2>6. PastBelow'
    BY <1>1, <1>2, <1>11, <2>2, <2>3, <2>4, <2>5, GrownBelow
  <2>7. QED BY <1>15, <2>2, <2>6
<1>21. KnownInv'
  <2>1. SUFFICES ASSUME ~misjoined', overtaken' = {}
                 PROVE  Known' /\ UnreadExact'
    BY DEF KnownInv
  <2>2. Known /\ UnreadExact
    BY <1>8, <2>1 DEF OrderInv, KnownInv
  <2>3. \A x \in Tid : x # t => \A i \in Segments(x) :
          Stamp(x, i, x) <= At(c, x) => <<x, i>> \in past[t][n] \cup none
    BY <1>3, <1>4, <1>6, <2>2 DEF Known, Stamp
  <2>4. Own(t) < At(c, t) /\ \A x \in Tid : At(c, x) \in Nat
    BY <1>3, <1>4, <1>6
  <2>5. Known'
    BY <1>1, <1>2, <1>11, <2>2, <2>3, <2>4, GrownKnown
  <2>6. QED BY <1>15, <2>2, <2>5
<1>22. QED BY <1>19, <1>20, <1>21 DEF OrderInv

LEMMA JoinEndOrdered ==
  ASSUME TypeInv, OrderInv, NEW t \in Tid, JoinEnd(t)
  PROVE  OrderInv'
<1>1. PICK n : n = Len(vector_clocks[t])
  OBVIOUS
<1>2. GroundInv /\ Started(t) /\ pc[t] = "joining"
  BY DEF OrderInv, JoinEnd, Started
<1>3. /\ n \in Nat /\ n >= 1 /\ n \in Segments(t) /\ Len(past[t]) = n
      /\ Last(vector_clocks[t]) = vector_clocks[t][n]
      /\ IsClock(vector_clocks[t][n], Tid)
      /\ Own(t) = At(vector_clocks[t][n], t)
      /\ \A x \in Tid : /\ At(vector_clocks[t][n], x) \in Nat
                        /\ At(vector_clocks[t][n], x) <= Own(x)
      /\ \A i \in Segments(t) : <<t, i>> \in past[t][n]
  BY <1>1, <1>2, Current
(* The thread that has been joined, in its last segment.                    *)
<1>4. PICK q \in Tid : q = joining[t] /\ pc[q] = "exited"
  BY <1>2 DEF GroundInv, EndingOK
<1>5. PICK m : m = Len(vector_clocks[q])
  OBVIOUS
<1>6. Started(q) /\ q # t
  BY <1>2, <1>4 DEF Started
<1>7. /\ m \in Nat /\ m >= 1 /\ m \in Segments(q) /\ Len(past[q]) = m
      /\ Last(past[q]) = past[q][m]
      /\ \A i \in Segments(q) : <<q, i>> \in past[q][m]
  BY <1>2, <1>5, <1>6, Current
<1>8. PICK more : more = past[q][m]
  OBVIOUS
<1>9. PICK e \in Tid :
        /\ NewSegment(t, Merge(Tick(vector_clocks[t][n], t),
                               exit_threads_clock[e]), more)
        /\ misjoined' = (misjoined \/ e # q)
  <2>1. Lookups(handle[joining[t]]) \subseteq Tid
    BY <1>4, TidFacts DEF Lookups, TypeInv, ControlInv, ControlTypes
  <2>2. QED BY <1>3, <1>4, <1>7, <1>8, <2>1 DEF JoinEnd, ClockAfterJoin
<1>10. PICK L : L = vector_clocks[t][n]
  OBVIOUS
<1>11. PICK D : D = exit_threads_clock[e]
  OBVIOUS
<1>12. PICK c : c = Merge(Tick(L, t), D)
  OBVIOUS
<1>13. /\ \A x \in Tid : At(L, x) \in Nat /\ At(L, x) <= Own(x)
       /\ \A x \in Tid : At(D, x) \in Nat /\ At(D, x) <= Own(x)
       /\ Own(t) = At(L, t)
  BY <1>2, <1>3, <1>10, <1>11, ClockFacts DEF GroundInv, Bounded
<1>14. /\ At(c, t) = At(L, t) + 1
       /\ \A x \in Tid : x # t =>
            At(c, x) = IF At(L, x) < At(D, x) THEN At(D, x) ELSE At(L, x)
  <2>1. IsClock(L, Tid) /\ IsClock(D, Tid)
    BY <1>3, <1>10, <1>11 DEF TypeInv, ClockInv, ClockTypes
  <2>2. IsClock(Tick(L, t), Tid)
    BY <2>1, TickIsClock
  <2>3. \A x \in Tid :
          At(Tick(L, t), x) = IF x = t THEN At(L, x) + 1 ELSE At(L, x)
    BY <2>1, AtTick
  <2>4. \A x \in Tid : At(c, x) =
          IF At(Tick(L, t), x) < At(D, x) THEN At(D, x) ELSE At(Tick(L, t), x)
    BY <1>12, <2>1, <2>2, AtMerge
  <2>5. ~(At(L, t) + 1 < At(D, t))
    BY <1>13
  <2>6. QED BY <2>3, <2>4, <2>5
<1>15. \A x \in Tid : At(c, x) \in Nat
  <2>1. ASSUME NEW x \in Tid PROVE At(c, x) \in Nat
    <3>1. CASE x = t
      BY <1>13, <1>14, <3>1
    <3>2. CASE x # t
      BY <1>13, <1>14, <3>2
    <3>3. QED BY <3>1, <3>2
  <2>2. QED BY <2>1
<1>16. /\ pc' = [pc EXCEPT ![t] = "running"]
       /\ joining' = [joining EXCEPT ![t] = NoTid]
       /\ UNCHANGED <<creator_thread_id, creator_thread_clock, parent,
                      exit_threads_clock, overtaken>>
  BY DEF JoinEnd, handshake, maps
<1>17. /\ pc'[t] = "running" /\ \A u \in Tid : u # t => pc'[u] = pc[u]
       /\ \A u \in Tid : u # t => joining'[u] = joining[u]
       /\ Started(t)'
  BY <1>16 DEF TypeInv, ControlInv, ControlTypes, Started
<1>18. Grown(t, c, past[t][n] \cup more \cup {<<t, n + 1>>})
  <2>1. NewSegment(t, c, more)
    BY <1>9, <1>10, <1>11, <1>12
  <2>2. more \in SUBSET (Tid \X Nat)
    <3> DEFINE P == SUBSET (Tid \X Nat)
    <3>1. past[q] \in Seq(P) /\ m \in 1 .. Len(past[q])
      BY <1>7 DEF TypeInv, HistoryInv, HistoryTypes
    <3> HIDE DEF P
    <3>2. past[q][m] \in P
      BY <3>1
    <3>3. QED BY <1>8, <3>2 DEF P
  <2>3. QED BY <1>2, <1>3, <2>1, <2>2, Grows DEF GroundInv
<1>19. /\ \A u \in Tid : u # t => vector_clocks'[u] = vector_clocks[u]
       /\ Own(t)' = At(c, t)
       /\ \A u \in Tid : u # t => Own(u)' = Own(u)
  BY <1>1, <1>2, <1>18, GrownFacts DEF GroundInv, Grown
<1>20. NextClock(t, c) /\ Moves(t)
  BY <1>13, <1>14, <1>15, <1>17 DEF NextClock, Moves
<1>21. ArePast(more)
  <2>1. ASSUME NEW x \in Tid, NEW i \in Nat, <<x, i>> \in more
        PROVE  i \in Segments(x)
    <3>1. m \in 1 .. Len(past[q])
      BY <1>7
    <3>2. IF x = q THEN i \in 1 .. m ELSE i \in Segments(x)
      BY <1>2, <1>8, <2>1, <3>1 DEF GroundInv, PastExists
    <3>3. QED BY <1>5, <3>2 DEF Segments
  <2>2. QED BY <2>1 DEF ArePast
<1>22. /\ SegmentsCounted' /\ OwnGrows' /\ OwnPast' /\ PastExists'
       /\ Bounds' /\ OwnAdvances
  BY <1>1, <1>2, <1>18, <1>20, <1>21, GrownGround
<1>23. /\ CreatingOK' /\ MainOK'
       /\ UnreadAbove => UnreadAbove'
       /\ UnreadExact => UnreadExact'
  BY <1>2, <1>16, <1>17, <1>18, <1>20, GrownRest
<1>24. Bounded'
  <2>1. \A x \in Tid : Own(x) \in Nat /\ Own(x)' \in Nat /\ Own(x) <= Own(x)'
    BY <1>15, <1>19, <1>22, ClockFacts DEF OwnAdvances
  <2>2. ASSUME NEW x \in Tid
        PROVE  /\ At(creator_thread_clock, x) <= Own(x)'
               /\ \A u \in Tid : At(exit_threads_clock[u], x) <= Own(x)'
    <3>1. /\ At(creator_thread_clock, x) <= Own(x)
          /\ \A u \in Tid : At(exit_threads_clock[u], x) <= Own(x)
      BY <1>2 DEF GroundInv, Bounded
    <3>2. /\ At(creator_thread_clock, x) \in Nat
          /\ \A u \in Tid : At(exit_threads_clock[u], x) \in Nat
      BY ClockFacts
    <3>3. QED BY <2>1, <3>1, <3>2
  <2>3. QED BY <1>16, <1>22, <2>2 DEF Bounded, Bounds
<1>25. EndingOK'
  BY <1>2, <1>16, <1>17, <1>19 DEF GroundInv, EndingOK
<1>26. GroundInv'
  BY <1>22, <1>23, <1>24, <1>25 DEF GroundInv
(* A join that finds its thread reads the clock of that thread's last       *)
(* segment.                                                                 *)
<1>27. ~misjoined' => ~misjoined /\ D = vector_clocks[q][m]
  <2>1. exit_threads_clock[q] = vector_clocks[q][m]
    BY <1>2, <1>4, <1>5 DEF GroundInv, EndingOK
  <2>2. QED BY <1>9, <1>11, <2>1
<1>28. BelowInv'
  <2>1. SUFFICES ASSUME ~misjoined', "other" \notin overtaken'
                 PROVE  PastBelow' /\ UnreadAbove'
    BY DEF BelowInv
  <2>2. PastBelow /\ UnreadAbove
    BY <1>16, <1>27, <2>1 DEF OrderInv, BelowInv
  <2>3. Below(vector_clocks[t][n], c)
    <3>1. ASSUME NEW x \in Tid PROVE At(L, x) <= At(c, x)
      <4>1. CASE x = t
        BY <1>13, <1>14, <4>1
      <4>2. CASE x # t
        BY <1>13, <1>14, <4>2
      <4>3. QED BY <4>1, <4>2
    <3>2. QED BY <1>10, <3>1 DEF Below
  <2>4. Below(D, c)
    <3>1. ASSUME NEW x \in Tid PROVE At(D, x) <= At(c, x)
      <4>1. CASE x = t
        BY <1>13, <1>14, <4>1
      <4>2. CASE x # t
        BY <1>13, <1>14, <4>2
      <4>3. QED BY <4>1, <4>2
    <3>2. QED BY <3>1 DEF Below
  <2>5. ASSUME NEW x \in Tid, NEW i \in Segments(x), <<x, i>> \in more
        PROVE  Below(vector_clocks[x][i], c)
    <3>1. Below(vector_clocks[x][i], D)
      BY <1>7, <1>8, <1>27, <2>1, <2>2, <2>5 DEF PastBelow
    <3>2. \A y \in Tid : At(vector_clocks[x][i], y) \in Nat
      BY ClockFacts DEF Stamp
    <3>3. QED BY <1>13, <1>15, <2>4, <3>1, <3>2 DEF Below
  <2>6. PastBelow'
    BY <1>1, <1>2, <1>15, <1>18, <2>2, <2>3, <2>5, GrownBelow
  <2>7. QED BY <1>23, <2>2, <2>6
<1>29. KnownInv'
  <2>1. SUFFICES ASSUME ~misjoined', overtaken' = {}
                 PROVE  Known' /\ UnreadExact'
    BY DEF KnownInv
  <2>2. Known /\ UnreadExact
    BY <1>16, <1>27, <2>1 DEF OrderInv, KnownInv
  <2>3. ASSUME NEW x \in Tid, x # t, NEW i \in Segments(x),
               Stamp(x, i, x) <= At(c, x)
        PROVE  <<x, i>> \in past[t][n] \cup more
    <3>1. CASE Stamp(x, i, x) <= At(L, x)
      BY <1>3, <1>10, <2>2, <2>3, <3>1 DEF Known, Stamp
    <3>2. CASE Stamp(x, i, x) <= At(D, x)
      <4>1. CASE x = q
        BY <1>7, <1>8, <4>1
      <4>2. CASE x # q
        <5>1. Stamp(x, i, x) <= Stamp(q, m, x)
          BY <1>27, <2>1, <3>2 DEF Stamp
        <5>2. QED BY <1>7, <1>8, <2>2, <4>2, <5>1 DEF Known
      <4>3. QED BY <4>1, <4>2
    <3>3. QED BY <1>14, <2>3, <3>1, <3>2
  <2>4. Own(t) < At(c, t)
    BY <1>13, <1>14
  <2>5. Known'
    BY <1>1, <1>2, <1>15, <1>18, <2>2, <2>3, <2>4, GrownKnown
  <2>6. QED BY <1>23, <2>2, <2>5
<1>30. QED BY <1>26, <1>28, <1>29 DEF OrderInv

(* A new thread gets its first clock.  Until then nobody knows of it.       *)
LEMMA ThreadStartInitOrdered ==
  ASSUME TypeInv, OrderInv, NEW t \in Tid, ThreadStartInit(t)
  PROVE  OrderInv'
<1>1. /\ SegmentsCounted /\ Bounded /\ OwnGrows /\ OwnPast /\ PastExists
      /\ CreatingOK /\ EndingOK /\ MainOK /\ pc[t] = "signalled"
  BY DEF OrderInv, GroundInv, ThreadStartInit
<1>2. /\ vector_clocks[t] = <<>> /\ Len(vector_clocks[t]) = 0
      /\ Segments(t) = {} /\ Own(t) = 0 /\ Len(past[t]) = 1
  <2>1. Len(vector_clocks[t]) = 0 /\ Len(past[t]) = 1
    BY <1>1 DEF SegmentsCounted, Started
  <2>2. vector_clocks[t] \in Seq({vector_clocks[t][i] : i \in DOMAIN vector_clocks[t]})
    BY DEF TypeInv, ClockInv, ClockTypes, IsClockSequence
  <2>3. vector_clocks[t] = <<>>
    BY <2>1, <2>2
  <2>4. QED BY <2>1, <2>3 DEF Segments, Own
<1>3. PICK cc : cc = IF creator_thread_id # NoTid THEN creator_thread_clock
                                                  ELSE EmptyClock
  OBVIOUS
<1>4. PICK F : F = Tick(Tick(cc, t), t)
  OBVIOUS
<1>5. IsClock(cc, Tid) /\ \A x \in Tid : At(cc, x) \in Nat /\ At(cc, x) <= Own(x)
  <2>1. IsClock(EmptyClock, Tid) /\ \A x \in Tid : At(EmptyClock, x) = 0
    BY DEF IsClock, EmptyClock, At
  <2>2. IsClock(creator_thread_clock, Tid)
    BY DEF TypeInv, ClockInv, ClockTypes
  <2>3. \A x \in Tid : /\ At(creator_thread_clock, x) \in Nat
                       /\ At(creator_thread_clock, x) <= Own(x)
                       /\ Own(x) \in Nat
    BY <1>1, ClockFacts DEF Bounded
  <2>4. CASE creator_thread_id # NoTid
    BY <1>3, <2>2, <2>3, <2>4
  <2>5. CASE creator_thread_id = NoTid
    BY <1>3, <2>1, <2>3, <2>5
  <2>6. QED BY <2>4, <2>5
<1>6. At(F, t) = 2 /\ \A x \in Tid : x # t => At(F, x) = At(cc, x)
  <2>1. IsClock(Tick(cc, t), Tid)
    BY <1>5, TickIsClock
  <2>2. \A x \in Tid : At(Tick(cc, t), x) = IF x = t THEN At(cc, x) + 1 ELSE At(cc, x)
    BY <1>5, AtTick
  <2>3. \A x \in Tid :
          At(F, x) = IF x = t THEN At(Tick(cc, t), x) + 1 ELSE At(Tick(cc, t), x)
    BY <1>4, <2>1, AtTick
  <2>4. At(cc, t) = 0
    BY <1>2, <1>5
  <2>5. QED BY <2>2, <2>3, <2>4
<1>7. /\ vector_clocks' = [vector_clocks EXCEPT ![t] = Append(@, F)]
      /\ pc' = [pc EXCEPT ![t] = "running"]
      /\ UNCHANGED <<creator_thread_id, creator_thread_clock, parent, joining,
                     exit_threads_clock, past, overtaken, misjoined>>
  BY <1>3, <1>4 DEF ThreadStartInit, FirstClock, handshake, maps, library, ghosts
<1>8. /\ pc'[t] = "running" /\ \A u \in Tid : u # t => pc'[u] = pc[u]
      /\ Started(t)' /\ ~Started(t)
      /\ \A u \in Tid : u # t => (Started(u)' <=> Started(u))
  BY <1>1, <1>7 DEF TypeInv, ControlInv, ControlTypes, Started
<1>9. /\ vector_clocks'[t] = <<F>>
      /\ \A u \in Tid : u # t => vector_clocks'[u] = vector_clocks[u]
  <2>1. vector_clocks = [u \in Tid |-> vector_clocks[u]]
    BY DEF TypeInv, ClockInv, ClockTypes
  <2>2. Append(vector_clocks[t], F) = <<F>>
    BY <1>2
  <2>3. QED BY <1>7, <2>1, <2>2
<1>10. /\ Len(vector_clocks'[t]) = 1 /\ vector_clocks'[t][1] = F
       /\ Segments(t)' = {1}
       /\ \A u \in Tid : u # t =>
            Segments(u)' = Segments(u) /\ Own(u)' = Own(u)
       /\ \A u \in Tid : Segments(u) \subseteq Segments(u)'
       /\ \A u, x \in Tid : u # t => \A i : Stamp(u, i, x)' = Stamp(u, i, x)
       /\ \A x \in Tid : Stamp(t, 1, x)' = At(F, x)
       /\ Own(t)' = At(F, t)
  <2>1. Len(vector_clocks'[t]) = 1 /\ vector_clocks'[t][1] = F
    BY <1>9
  <2>2. Segments(t)' = {1}
    BY <2>1 DEF Segments
  <2>3. \A u \in Tid : u # t => Segments(u)' = Segments(u) /\ Own(u)' = Own(u)
    BY <1>9 DEF Segments, Own, Stamp
  <2>4. \A u, x \in Tid : u # t => \A i : Stamp(u, i, x)' = Stamp(u, i, x)
    BY <1>9 DEF Stamp
  <2>5. \A x \in Tid : Stamp(t, 1, x)' = At(F, x)
    BY <2>1 DEF Stamp
  <2>6. Own(t)' = At(F, t)
    BY <2>1 DEF Own, Stamp
  <2>7. \A u \in Tid : Segments(u) \subseteq Segments(u)'
    BY <1>2, <2>3
  <2>8. QED BY <2>1, <2>2, <2>3, <2>4, <2>5, <2>6, <2>7
<1>11. /\ \A x \in Tid : Own(x) \in Nat /\ Own(x)' \in Nat /\ Own(x) <= Own(x)'
       /\ \A x \in Tid : At(F, x) \in Nat /\ At(F, x) <= Own(x)'
  <2>1. \A x \in Tid : Own(x) \in Nat
    BY ClockFacts
  <2>2. ASSUME NEW x \in Tid
        PROVE  /\ Own(x)' \in Nat /\ Own(x) <= Own(x)'
               /\ At(F, x) \in Nat /\ At(F, x) <= Own(x)'
    <3>1. CASE x = t
      BY <1>2, <1>6, <1>10, <3>1
    <3>2. CASE x # t
      BY <1>5, <1>6, <1>10, <2>1, <3>2
    <3>3. QED BY <3>1, <3>2
  <2>3. QED BY <2>1, <2>2
<1>12. \A u \in Tid : u # t => \A j \in 1 .. Len(past[u]) : \A i \in Nat :
         <<t, i>> \notin past[u][j]
  BY <1>1, <1>2 DEF PastExists
<1>13. SegmentsCounted'
  <2>1. ASSUME NEW u \in Tid
        PROVE  (/\ Started(u) => /\ Len(past[u]) = Len(vector_clocks[u])
                                 /\ Len(vector_clocks[u]) >= 1
                /\ ~Started(u) => Len(vector_clocks[u]) = 0
                /\ pc[u] \in {"starting", "signalled"} => Len(past[u]) = 1
                /\ pc[u] = "none" => Len(past[u]) = 0)'
    <3>1. CASE u = t
      <4>1. pc'[u] = "running"
        BY <1>8, <3>1
      <4>2. Len(vector_clocks'[u]) = 1
        BY <1>10, <3>1
      <4>3. Len(past'[u]) = 1
        BY <1>2, <1>7, <3>1
      <4>4. QED BY <4>1, <4>2, <4>3 DEF Started
    <3>2. CASE u # t
      BY <1>1, <1>7, <1>8, <1>9, <3>2 DEF SegmentsCounted, Started
    <3>3. QED BY <3>1, <3>2
  <2>2. QED BY <2>1 DEF SegmentsCounted
<1>14. Bounded'
  <2>1. ASSUME NEW x \in Tid
        PROVE  /\ At(creator_thread_clock, x) <= Own(x)'
               /\ \A u \in Tid : At(exit_threads_clock[u], x) <= Own(x)'
    <3>1. /\ At(creator_thread_clock, x) <= Own(x)
          /\ \A u \in Tid : At(exit_threads_clock[u], x) <= Own(x)
      BY <1>1 DEF Bounded
    <3>2. /\ At(creator_thread_clock, x) \in Nat
          /\ \A u \in Tid : At(exit_threads_clock[u], x) \in Nat
      BY ClockFacts
    <3>3. QED BY <1>11, <3>1, <3>2
  <2>2. ASSUME NEW u \in Tid, NEW x \in Tid, NEW j \in Segments(u)'
        PROVE  Stamp(u, j, x)' <= Own(x)'
    <3>1. CASE u = t
      BY <1>10, <1>11, <2>2, <3>1
    <3>2. CASE u # t
      <4>1. j \in Segments(u) /\ Stamp(u, j, x)' = Stamp(u, j, x)
        BY <1>10, <2>2, <3>2
      <4>2. Stamp(u, j, x) <= Own(x) /\ Stamp(u, j, x) \in Nat
        BY <1>1, <4>1, ClockFacts DEF Bounded
      <4>3. QED BY <1>11, <4>1, <4>2
    <3>3. QED BY <3>1, <3>2
  <2>3. QED BY <1>7, <2>1, <2>2 DEF Bounded
<1>15. OwnGrows'
  <2>1. ASSUME NEW u \in Tid, NEW i \in Segments(u)', NEW j \in Segments(u)', i < j
        PROVE  Stamp(u, i, u)' < Stamp(u, j, u)'
    <3>1. CASE u = t
      BY <1>10, <2>1, <3>1
    <3>2. CASE u # t
      BY <1>1, <1>10, <2>1, <3>2 DEF OwnGrows
    <3>3. QED BY <3>1, <3>2
  <2>2. QED BY <2>1 DEF OwnGrows
<1>16. OwnPast'
  BY <1>1, <1>7 DEF OwnPast
<1>17. PastExists'
  <2>1. ASSUME NEW x \in Tid, NEW u \in Tid, NEW j \in 1 .. Len(past[u]),
               NEW i \in Nat, <<x, i>> \in past[u][j]
        PROVE  IF x = u THEN i \in 1 .. j ELSE i \in Segments(x)'
    BY <1>1, <1>10, <2>1 DEF PastExists
  <2>2. QED BY <1>7, <2>1 DEF PastExists
<1>18. CreatingOK'
  BY <1>1, <1>7, <1>8, <1>9 DEF CreatingOK, Stamp
<1>19. EndingOK'
  BY <1>1, <1>7, <1>8, <1>9 DEF EndingOK
<1>20. MainOK'
  BY <1>1, <1>7, <1>8, TidFacts DEF MainOK, Exists
<1>21. GroundInv'
  BY <1>13, <1>14, <1>15, <1>16, <1>17, <1>18, <1>19, <1>20 DEF GroundInv
<1>22. /\ Unread' = Unread \ {t} /\ Unread \subseteq Tid
       /\ t # Main => t \in Unread
  BY <1>1, <1>8 DEF Unread
<1>23. ASSUME NEW u \in Tid, NEW v \in Tid, NEW k, ComesAfter(u, v, k)
       PROVE  v # t /\ ComesAfter(u, v, k)'
  BY <1>2, <1>7, <1>10, <1>23 DEF ComesAfter
<1>25. ASSUME ~misjoined, "other" \notin overtaken
       PROVE  PastBelow' /\ UnreadAbove'
  <2>1. PastBelow /\ UnreadAbove
    BY <1>25 DEF OrderInv, BelowInv
  <2>2. ASSUME NEW x \in Tid, x # t, NEW i \in Segments(x), <<x, i>> \in past[t][1]
        PROVE  Below(vector_clocks[x][i], F)
    <3>1. t # Main
      BY <1>1, <1>8, <2>2 DEF MainOK
    <3>2. PICK v \in Tid, k \in Nat :
            /\ creator_thread_id # NoTid
            /\ ComesAfter(t, v, k)
            /\ Below(vector_clocks[v][k], creator_thread_clock)
      BY <1>22, <2>1, <3>1 DEF UnreadAbove
    <3>3. k \in Segments(v) /\ <<x, i>> \in past[v][k]
      BY <2>2, <3>2 DEF ComesAfter
    <3>4. Below(vector_clocks[x][i], vector_clocks[v][k])
      BY <2>1, <2>2, <3>3 DEF PastBelow
    <3>5. cc = creator_thread_clock
      BY <1>3, <3>2
    <3>6. \A y \in Tid : /\ At(vector_clocks[x][i], y) \in Nat
                         /\ At(vector_clocks[v][k], y) \in Nat
      BY <2>2, <3>3, ClockFacts DEF Stamp
    <3>7. \A y \in Tid : At(cc, y) <= At(F, y) /\ At(F, y) \in Nat
      <4>1. ASSUME NEW y \in Tid PROVE At(cc, y) <= At(F, y)
        <5>1. CASE y = t
          BY <1>2, <1>5, <1>6, <5>1
        <5>2. CASE y # t
          BY <1>5, <1>6, <5>2
        <5>3. QED BY <5>1, <5>2
      <4>2. QED BY <1>11, <4>1
    <3>8. QED BY <1>5, <3>2, <3>4, <3>5, <3>6, <3>7 DEF Below
  <2>3. ASSUME NEW x \in Tid, NEW u \in Tid, NEW i \in Segments(x)',
               NEW j \in Segments(u)', <<x, i>> \in past[u][j]
        PROVE  Below(vector_clocks'[x][i], vector_clocks'[u][j])
    <3>1. CASE u # t
      <4>1. j \in Segments(u) /\ vector_clocks'[u] = vector_clocks[u]
        BY <1>9, <1>10, <2>3, <3>1
      <4>2. j \in 1 .. Len(past[u])
        BY <1>1, <4>1 DEF SegmentsCounted, Segments
      <4>3. x # t
        BY <1>10, <1>12, <2>3, <3>1, <4>2
      <4>4. i \in Segments(x) /\ vector_clocks'[x] = vector_clocks[x]
        BY <1>9, <1>10, <2>3, <4>3
      <4>5. QED BY <2>1, <2>3, <4>1, <4>4 DEF PastBelow
    <3>2. CASE u = t /\ x = t
      BY <1>10, <1>11, <2>3, <3>2 DEF Below
    <3>3. CASE u = t /\ x # t
      <4>1. j = 1 /\ i \in Segments(x) /\ vector_clocks'[x] = vector_clocks[x]
        BY <1>9, <1>10, <2>3, <3>3
      <4>2. QED BY <1>10, <2>2, <2>3, <3>3, <4>1
    <3>4. QED BY <3>1, <3>2, <3>3
  <2>4. PastBelow'
    BY <1>7, <2>3 DEF PastBelow
  <2>5. ASSUME NEW u \in Unread, u # t
        PROVE  (/\ creator_thread_id # NoTid
                /\ parent[u] \in Tid
                /\ \E k \in Nat :
                     /\ ComesAfter(u, parent[u], k)
                     /\ Below(vector_clocks[parent[u]][k], creator_thread_clock))'
    <3>1. creator_thread_id # NoTid /\ parent[u] \in Tid
      BY <2>1 DEF UnreadAbove
    <3>2. PICK k \in Nat : /\ ComesAfter(u, parent[u], k)
                           /\ Below(vector_clocks[parent[u]][k], creator_thread_clock)
      BY <2>1 DEF UnreadAbove
    <3>3. PICK v \in Tid : v = parent[u]
      BY <3>1
    <3>4. v # t /\ ComesAfter(u, v, k)' /\ vector_clocks'[v] = vector_clocks[v]
      BY <1>9, <1>22, <1>23, <3>2, <3>3
    <3>5. parent'[u] = v /\ creator_thread_clock' = creator_thread_clock
      BY <1>7, <3>3
    <3>6. (ComesAfter(u, parent[u], k))'
      BY <3>4, <3>5 DEF ComesAfter
    <3>7. (Below(vector_clocks[parent[u]][k], creator_thread_clock))'
      BY <3>2, <3>3, <3>4, <3>5
    <3>8. QED BY <1>7, <3>1, <3>6, <3>7
  <2>6. UnreadAbove'
    BY <1>22, <2>5 DEF UnreadAbove
  <2>7. QED BY <2>4, <2>6
<1>26. ASSUME ~misjoined, overtaken = {} PROVE Known' /\ UnreadExact'
  <2>1. Known /\ UnreadExact /\ UnreadAbove
    BY <1>26 DEF OrderInv, BelowInv, KnownInv
  <2>2. ASSUME NEW x \in Tid, x # t, NEW i \in Segments(x),
               Stamp(x, i, x) <= At(F, x)
        PROVE  <<x, i>> \in past[t][1]
    <3>1. t # Main
      <4>1. SUFFICES ASSUME t = Main PROVE FALSE
        OBVIOUS
      <4>2. pc[x] = "none"
        BY <1>1, <2>2, <4>1 DEF TypeInv, HandshakeInv, MainFirst
      <4>3. Segments(x) = {}
        BY <1>1, <4>2 DEF SegmentsCounted, Started, Segments
      <4>4. QED BY <2>2, <4>3
    <3>2. PICK v \in Tid, k \in Nat :
            /\ ComesAfter(t, v, k)
            /\ creator_thread_clock = Tick(vector_clocks[v][k], v)
            /\ k + 1 \in Segments(v)
            /\ Stamp(v, k, v) + 1 < Stamp(v, k + 1, v)
      BY <1>22, <2>1, <3>1 DEF UnreadExact
    <3>3. k \in Segments(v) /\ past[t][1] = past[v][k] \cup {<<t, 1>>}
      BY <3>2 DEF ComesAfter
    <3>4. cc = Tick(vector_clocks[v][k], v)
      BY <1>3, <1>22, <2>1, <3>1, <3>2 DEF UnreadAbove
    <3>5. Stamp(x, i, x) <= IF x = v THEN Stamp(v, k, x) + 1 ELSE Stamp(v, k, x)
      <4>1. IsClock(vector_clocks[v][k], Tid)
        BY <3>3, ClockFacts
      <4>2. At(cc, x) = IF x = v THEN Stamp(v, k, x) + 1 ELSE Stamp(v, k, x)
        BY <3>4, <4>1, AtTick DEF Stamp
      <4>3. QED BY <1>6, <2>2, <4>2
    <3>6. <<x, i>> \in past[v][k]
      <4>1. CASE x # v
        BY <2>1, <2>2, <3>3, <3>5, <4>1 DEF Known
      <4>2. CASE x = v
        <5>1. /\ Stamp(v, i, v) \in Nat /\ Stamp(v, k, v) \in Nat
              /\ Stamp(v, k + 1, v) \in Nat /\ i \in Nat
          BY <2>2, <3>2, <3>3, <4>2, ClockFacts DEF Segments
        <5>2. Stamp(v, i, v) < Stamp(v, k + 1, v)
          BY <3>2, <3>5, <4>2, <5>1
        <5>3. k + 1 < i => Stamp(v, k + 1, v) < Stamp(v, i, v)
          BY <1>1, <2>2, <3>2, <4>2 DEF OwnGrows
        <5>4. i <= k
          BY <5>1, <5>2, <5>3
        <5>5. k \in 1 .. Len(past[v]) /\ i \in 1 .. k
          BY <1>1, <2>2, <3>3, <4>2, <5>1, <5>4 DEF SegmentsCounted, Segments
        <5>6. QED BY <1>1, <4>2, <5>5 DEF OwnPast
      <4>3. QED BY <4>1, <4>2
    <3>7. QED BY <3>3, <3>6
  <2>3. ASSUME NEW x \in Tid, NEW u \in Tid, x # u, NEW i \in Segments(x)',
               NEW j \in Segments(u)', Stamp(x, i, x)' <= Stamp(u, j, x)'
        PROVE  <<x, i>> \in past[u][j]
    <3>1. CASE x = t
      <4>1. j \in Segments(u) /\ Stamp(u, j, t)' = Stamp(u, j, t)
        BY <1>10, <2>3, <3>1
      <4>2. Stamp(u, j, t) <= 0 /\ Stamp(u, j, t) \in Nat
        BY <1>1, <1>2, <4>1, ClockFacts DEF Bounded
      <4>3. Stamp(x, i, x)' = 2
        BY <1>6, <1>10, <2>3, <3>1
      <4>4. QED BY <2>3, <3>1, <4>1, <4>2, <4>3
    <3>2. CASE x # t /\ u = t
      <4>1. j = 1 /\ i \in Segments(x) /\ Stamp(x, i, x)' = Stamp(x, i, x)
        BY <1>10, <2>3, <3>2
      <4>2. Stamp(x, i, x) <= At(F, x)
        BY <1>10, <2>3, <3>2, <4>1
      <4>3. QED BY <2>2, <3>2, <4>1, <4>2
    <3>3. CASE x # t /\ u # t
      BY <1>10, <2>1, <2>3, <3>3 DEF Known
    <3>4. QED BY <3>1, <3>2, <3>3
  <2>4. Known'
    BY <1>7, <2>3 DEF Known
  <2>5. ASSUME NEW u \in Unread, u # t
        PROVE  (\E v \in Tid, k \in Nat :
                  /\ ComesAfter(u, v, k)
                  /\ creator_thread_clock = Tick(vector_clocks[v][k], v)
                  /\ k + 1 \in Segments(v)
                  /\ Stamp(v, k, v) + 1 < Stamp(v, k + 1, v))'
    <3>1. PICK v \in Tid, k \in Nat :
            /\ ComesAfter(u, v, k)
            /\ creator_thread_clock = Tick(vector_clocks[v][k], v)
            /\ k + 1 \in Segments(v)
            /\ Stamp(v, k, v) + 1 < Stamp(v, k + 1, v)
      BY <2>1 DEF UnreadExact
    <3>2. v # t /\ ComesAfter(u, v, k)'
      BY <1>22, <1>23, <3>1
    <3>3. vector_clocks'[v] = vector_clocks[v] /\ k + 1 \in Segments(v)'
      BY <1>9, <1>10, <3>1, <3>2
    <3>4. Stamp(v, k, v)' = Stamp(v, k, v) /\ Stamp(v, k + 1, v)' = Stamp(v, k + 1, v)
      BY <1>10, <3>2
    <3>5. QED BY <1>7, <3>1, <3>2, <3>3, <3>4
  <2>6. UnreadExact'
    BY <1>22, <2>5 DEF UnreadExact
  <2>7. QED BY <2>4, <2>6
<1>27. QED BY <1>7, <1>21, <1>25, <1>26 DEF OrderInv, BelowInv, KnownInv

(* A new thread comes after the segment its creator has just closed, and    *)
(* finds the clock of that segment, one tick on.                            *)
LEMMA CreateOriginalOrdered ==
  ASSUME TypeInv, OrderInv, NEW t \in Tid, CreateOriginal(t)
  PROVE  OrderInv'
<1>1. /\ SegmentsCounted /\ Bounded /\ OwnGrows /\ OwnPast /\ PastExists
      /\ CreatingOK /\ EndingOK /\ MainOK /\ pc[t] = "creating"
  BY DEF OrderInv, GroundInv, CreateOriginal
<1>2. PICK child \in Tid :
        /\ ~Exists(child)
        /\ pc' = [pc EXCEPT ![t] = "waiting", ![child] = "starting"]
        /\ parent' = [parent EXCEPT ![child] = t]
        /\ past' = [past EXCEPT ![child] =
                      << past[t][Len(past[t]) - 1] \cup {<<child, 1>>} >>]
  BY DEF CreateOriginal
<1>3. UNCHANGED <<vector_clocks, creator_thread_id, creator_thread_clock,
                  exit_threads_clock, joining, overtaken, misjoined>>
  BY DEF CreateOriginal, maps
<1>4. PICK n : n = Len(vector_clocks[t])
  OBVIOUS
<1>5. PICK k : k = n - 1
  OBVIOUS
<1>6. /\ n \in Nat /\ n >= 2 /\ Len(past[t]) = n /\ k \in Nat /\ k >= 1
      /\ k \in Segments(t) /\ k + 1 \in Segments(t) /\ k \in 1 .. Len(past[t])
      /\ creator_thread_id = t
      /\ creator_thread_clock = Tick(vector_clocks[t][k], t)
      /\ Stamp(t, k, t) + 1 < Stamp(t, k + 1, t)
  <2>1. n \in Nat /\ Started(t)
    BY <1>1, <1>4, ClockFacts DEF Started
  <2>2. /\ n >= 2 /\ creator_thread_id = t
        /\ creator_thread_clock = Tick(vector_clocks[t][n - 1], t)
        /\ Stamp(t, n - 1, t) + 1 < Stamp(t, n, t)
    BY <1>1, <1>4 DEF CreatingOK
  <2>3. Len(past[t]) = n
    BY <1>1, <1>4, <2>1 DEF SegmentsCounted
  <2>4. k + 1 = n /\ k \in Nat /\ k >= 1
    BY <1>5, <2>1, <2>2
  <2>5. k \in Segments(t) /\ k + 1 \in Segments(t) /\ k \in 1 .. Len(past[t])
    BY <1>4, <2>1, <2>3, <2>4 DEF Segments
  <2>6. QED BY <1>5, <2>1, <2>2, <2>3, <2>4, <2>5
<1>7. child # t /\ child # Main /\ pc[child] = "none" /\ ~Started(child)
  BY <1>1, <1>2 DEF MainOK, Exists, Started
<1>8. /\ pc'[t] = "waiting" /\ pc'[child] = "starting"
      /\ \A u \in Tid : u # t /\ u # child => pc'[u] = pc[u]
  BY <1>2, <1>7 DEF TypeInv, ControlInv, ControlTypes
<1>9. /\ past'[child] = << past[t][k] \cup {<<child, 1>>} >>
      /\ \A u \in Tid : u # child => past'[u] = past[u]
      /\ parent'[child] = t
      /\ \A u \in Tid : u # child => parent'[u] = parent[u]
  BY <1>2, <1>5, <1>6 DEF TypeInv, HistoryInv, HistoryTypes
<1>10. /\ Len(past'[child]) = 1
       /\ past'[child][1] = past[t][k] \cup {<<child, 1>>}
  BY <1>9
<1>11. Segments(child) = {} /\ Len(vector_clocks[child]) = 0
  BY <1>1, <1>7 DEF SegmentsCounted, Segments
<1>12. \A i : <<child, i>> \in past[t][k] /\ i \in Nat => FALSE
  BY <1>1, <1>6, <1>7, <1>11 DEF PastExists
<1>13. SegmentsCounted'
  <2>1. ASSUME NEW u \in Tid
        PROVE  (/\ Started(u) => /\ Len(past[u]) = Len(vector_clocks[u])
                                 /\ Len(vector_clocks[u]) >= 1
                /\ ~Started(u) => Len(vector_clocks[u]) = 0
                /\ pc[u] \in {"starting", "signalled"} => Len(past[u]) = 1
                /\ pc[u] = "none" => Len(past[u]) = 0)'
    <3>1. CASE u = child
      <4>1. pc'[u] = "starting" /\ Len(past'[u]) = 1 /\ Len(vector_clocks'[u]) = 0
        BY <1>3, <1>8, <1>10, <1>11, <3>1
      <4>2. QED BY <4>1 DEF Started
    <3>2. CASE u = t
      <4>1. /\ pc'[u] = "waiting" /\ Len(past'[u]) = n
            /\ Len(vector_clocks'[u]) = n
        BY <1>3, <1>4, <1>6, <1>7, <1>8, <1>9, <3>2
      <4>2. QED BY <1>6, <4>1 DEF Started
    <3>3. CASE u # child /\ u # t
      <4>1. /\ pc'[u] = pc[u] /\ past'[u] = past[u]
            /\ vector_clocks'[u] = vector_clocks[u]
        BY <1>3, <1>8, <1>9, <3>3
      <4>2. QED BY <1>1, <4>1 DEF SegmentsCounted, Started
    <3>4. QED BY <3>1, <3>2, <3>3
  <2>2. QED BY <2>1 DEF SegmentsCounted
<1>14. Bounded' /\ OwnGrows'
  BY <1>1, <1>3 DEF Bounded, OwnGrows, Segments, Stamp, Own
<1>15. OwnPast'
  <2>1. ASSUME NEW u \in Tid, NEW j \in 1 .. Len(past'[u]), NEW i \in 1 .. j
        PROVE  <<u, i>> \in past'[u][j]
    <3>1. CASE u = child
      <4>1. j = 1 /\ i = 1
        BY <1>10, <2>1, <3>1, SMTT(30)
      <4>2. QED BY <1>10, <3>1, <4>1
    <3>2. CASE u # child
      BY <1>1, <1>9, <2>1, <3>2 DEF OwnPast
    <3>3. QED BY <3>1, <3>2
  <2>2. QED BY <2>1 DEF OwnPast
<1>16. PastExists'
  <2>1. ASSUME NEW x \in Tid, NEW u \in Tid, NEW j \in 1 .. Len(past'[u]),
               NEW i \in Nat, <<x, i>> \in past'[u][j]
        PROVE  IF x = u THEN i \in 1 .. j ELSE i \in Segments(x)
    <3>1. CASE u # child
      BY <1>1, <1>9, <2>1, <3>1 DEF PastExists
    <3>2. CASE u = child
      <4>1. j = 1
        BY <1>10, <2>1, <3>2
      <4>2. <<x, i>> \in past[t][k] \/ (x = child /\ i = 1)
        BY <1>10, <2>1, <3>2, <4>1
      <4>3. CASE x = child
        <5>1. i = 1
          BY <1>12, <2>1, <4>2, <4>3
        <5>2. QED BY <3>2, <4>1, <4>3, <5>1
      <4>4. CASE x # child
        <5>1. <<x, i>> \in past[t][k]
          BY <4>2, <4>4
        <5>2. IF x = t THEN i \in 1 .. k ELSE i \in Segments(x)
          BY <1>1, <1>6, <5>1 DEF PastExists
        <5>3. 1 .. k \subseteq Segments(t)
          BY <1>4, <1>5, <1>6 DEF Segments
        <5>4. QED BY <3>2, <4>4, <5>2, <5>3
      <4>5. QED BY <4>3, <4>4
    <3>3. QED BY <3>1, <3>2
  <2>2. \A x \in Tid : Segments(x)' = Segments(x)
    BY <1>3 DEF Segments
  <2>3. QED BY <2>1, <2>2 DEF PastExists
<1>17. CreatingOK'
  <2>1. \A u \in Tid : pc'[u] = "creating" => pc[u] = "creating"
    BY <1>7, <1>8
  <2>2. QED BY <1>1, <1>3, <2>1 DEF CreatingOK, Stamp
<1>18. EndingOK'
  <2>1. \A u \in Tid : /\ pc'[u] = "exited" <=> pc[u] = "exited"
                       /\ pc'[u] = "joining" => pc[u] = "joining"
    BY <1>1, <1>7, <1>8
  <2>2. QED BY <1>1, <1>3, <2>1 DEF EndingOK
<1>19. MainOK'
  <2>1. Exists(Main)'
    BY <1>1, <1>7, <1>8, TidFacts DEF MainOK, Exists
  <2>2. ~Started(Main)' => ~Started(Main)
    BY <1>7, <1>8, TidFacts DEF Started
  <2>3. past'[Main] = past[Main]
    BY <1>7, <1>9, TidFacts
  <2>4. QED BY <1>1, <1>3, <2>1, <2>2, <2>3 DEF MainOK
<1>20. GroundInv'
  BY <1>13, <1>14, <1>15, <1>16, <1>17, <1>18, <1>19 DEF GroundInv
<1>21. /\ Unread' = Unread \cup {child} /\ child \notin Unread
       /\ Unread \subseteq Tid
  BY <1>1, <1>7, <1>8 DEF Unread
<1>22. ComesAfter(child, t, k)'
  BY <1>3, <1>6, <1>7, <1>9, <1>10 DEF ComesAfter, Segments
<1>23. ASSUME NEW u \in Unread, NEW v \in Tid, NEW i, ComesAfter(u, v, i)
       PROVE  ComesAfter(u, v, i)'
  <2>1. v # child /\ u # child /\ u \in Tid
    BY <1>11, <1>21, <1>23 DEF ComesAfter
  <2>2. past'[v] = past[v] /\ past'[u] = past[u]
    BY <1>9, <2>1
  <2>3. QED BY <1>3, <1>23, <2>2 DEF ComesAfter, Segments
<1>24. \A x, u \in Tid : \A i \in Segments(x), j \in Segments(u) :
         past'[u][j] = past[u][j]
  BY <1>9, <1>11
<1>25. ASSUME PastBelow, UnreadAbove PROVE PastBelow' /\ UnreadAbove'
  <2>1. PastBelow'
    BY <1>3, <1>24, <1>25 DEF PastBelow, Segments
  <2>2. ASSUME NEW u \in Unread
        PROVE  (/\ creator_thread_id # NoTid
                /\ parent[u] \in Tid
                /\ \E i \in Nat :
                     /\ ComesAfter(u, parent[u], i)
                     /\ Below(vector_clocks[parent[u]][i], creator_thread_clock))'
    <3>1. creator_thread_id # NoTid /\ parent[u] \in Tid
      BY <1>25 DEF UnreadAbove
    <3>2. PICK i \in Nat : /\ ComesAfter(u, parent[u], i)
                           /\ Below(vector_clocks[parent[u]][i], creator_thread_clock)
      BY <1>25 DEF UnreadAbove
    <3>3. PICK v \in Tid : v = parent[u]
      BY <3>1
    <3>4. ComesAfter(u, v, i)'
      BY <1>23, <3>2, <3>3
    <3>5. parent'[u] = v
      BY <1>9, <1>21, <3>3
    <3>6. (ComesAfter(u, parent[u], i))'
      BY <3>4, <3>5 DEF ComesAfter
    <3>7. (Below(vector_clocks[parent[u]][i], creator_thread_clock))'
      BY <1>3, <3>2, <3>3, <3>5
    <3>8. QED BY <1>3, <3>1, <3>5, <3>6, <3>7
  <2>3. (/\ creator_thread_id # NoTid
         /\ parent[child] \in Tid
         /\ \E i \in Nat :
              /\ ComesAfter(child, parent[child], i)
              /\ Below(vector_clocks[parent[child]][i], creator_thread_clock))'
    <3>1. Below(vector_clocks[t][k], creator_thread_clock)
      <4>1. IsClock(vector_clocks[t][k], Tid)
        BY <1>6, ClockFacts
      <4>2. \A x \in Tid : At(vector_clocks[t][k], x) \in Nat
        BY <4>1, AtNat
      <4>3. \A x \in Tid : At(creator_thread_clock, x) =
              IF x = t THEN At(vector_clocks[t][k], x) + 1
                       ELSE At(vector_clocks[t][k], x)
        BY <1>6, <4>1, AtTick
      <4>4. QED BY <4>2, <4>3 DEF Below
    <3>2. (ComesAfter(child, parent[child], k))'
      BY <1>9, <1>22 DEF ComesAfter
    <3>3. (Below(vector_clocks[parent[child]][k], creator_thread_clock))'
      BY <1>3, <1>9, <3>1
    <3>4. QED BY <1>3, <1>6, <1>9, <3>2, <3>3, TidFacts
  <2>4. UnreadAbove'
    BY <1>21, <2>2, <2>3 DEF UnreadAbove
  <2>5. QED BY <2>1, <2>4
<1>26. ASSUME Known, UnreadExact PROVE Known' /\ UnreadExact'
  <2>1. Known'
    BY <1>3, <1>24, <1>26 DEF Known, Segments, Stamp
  <2>2. ASSUME NEW u \in Unread
        PROVE  (\E v \in Tid, i \in Nat :
                  /\ ComesAfter(u, v, i)
                  /\ creator_thread_clock = Tick(vector_clocks[v][i], v)
                  /\ i + 1 \in Segments(v)
                  /\ Stamp(v, i, v) + 1 < Stamp(v, i + 1, v))'
    <3>1. PICK v \in Tid, i \in Nat :
            /\ ComesAfter(u, v, i)
            /\ creator_thread_clock = Tick(vector_clocks[v][i], v)
            /\ i + 1 \in Segments(v)
            /\ Stamp(v, i, v) + 1 < Stamp(v, i + 1, v)
      BY <1>26 DEF UnreadExact
    <3>2. ComesAfter(u, v, i)'
      BY <1>23, <3>1
    <3>3. QED BY <1>3, <3>1, <3>2 DEF Segments, Stamp
  <2>3. (\E v \in Tid, i \in Nat :
           /\ ComesAfter(child, v, i)
           /\ creator_thread_clock = Tick(vector_clocks[v][i], v)
           /\ i + 1 \in Segments(v)
           /\ Stamp(v, i, v) + 1 < Stamp(v, i + 1, v))'
    BY <1>3, <1>6, <1>22 DEF Segments, Stamp
  <2>4. UnreadExact'
    BY <1>21, <2>2, <2>3 DEF UnreadExact
  <2>5. QED BY <2>1, <2>4
<1>27. QED BY <1>3, <1>20, <1>25, <1>26 DEF OrderInv, BelowInv, KnownInv

-----------------------------------------------------------------------------
(* The other steps, and the theorems *)

(* No thread starts, exits or begins to create.                             *)
SamePhases ==
  \A u \in Tid : /\ pc'[u] \in {"starting", "signalled"} <=>
                      pc[u] \in {"starting", "signalled"}
                 /\ pc'[u] = "none" <=> pc[u] = "none"
                 /\ pc'[u] = "creating" => pc[u] = "creating"

LEMMA Unmoved ==
  ASSUME TypeInv, OrderInv, SamePhases, EndingOK',
         UNCHANGED <<vector_clocks, past, creator_thread_id,
                     creator_thread_clock, exit_threads_clock, parent,
                     overtaken, misjoined>>
  PROVE  OrderInv'
<1>1. /\ SegmentsCounted /\ Bounded /\ OwnGrows /\ OwnPast /\ PastExists
      /\ CreatingOK /\ MainOK
  BY DEF OrderInv, GroundInv
<1>2. SegmentsCounted'
  BY <1>1 DEF SegmentsCounted, SamePhases, Started
<1>3. Bounded' /\ OwnGrows' /\ OwnPast' /\ PastExists'
  BY <1>1 DEF Bounded, OwnGrows, OwnPast, PastExists, Segments, Stamp, Own
<1>4. CreatingOK'
  BY <1>1 DEF CreatingOK, SamePhases, Stamp
<1>5. MainOK'
  BY <1>1, TidFacts DEF MainOK, SamePhases, Exists, Started
<1>6. GroundInv'
  BY <1>2, <1>3, <1>4, <1>5 DEF GroundInv
<1>7. Unread' = Unread
  BY DEF Unread, SamePhases
<1>8. /\ PastBelow => PastBelow'
      /\ Known => Known'
  BY DEF PastBelow, Known, Segments, Stamp
<1>9. UnreadAbove => UnreadAbove'
  BY <1>7 DEF UnreadAbove, ComesAfter, Segments
<1>10. UnreadExact => UnreadExact'
  BY <1>7 DEF UnreadExact, ComesAfter, Segments, Stamp
<1>11. QED BY <1>6, <1>8, <1>9, <1>10 DEF OrderInv, BelowInv, KnownInv

LEMMA OrderInit == Init => OrderInv
<1> SUFFICES ASSUME Init PROVE OrderInv
  OBVIOUS
<1>1. /\ pc[Main] = "starting" /\ \A u \in Tid : u # Main => pc[u] = "none"
      /\ \A u \in Tid : vector_clocks[u] = <<>>
      /\ \A u \in Tid : exit_threads_clock[u] = EmptyClock
      /\ past[Main] = << {<<Main, 1>>} >>
      /\ \A u \in Tid : u # Main => past[u] = <<>>
      /\ creator_thread_id = NoTid /\ creator_thread_clock = EmptyClock
  BY TidFacts DEF Init
<1>2. /\ \A u \in Tid : Len(vector_clocks[u]) = 0 /\ Segments(u) = {} /\ Own(u) = 0
      /\ \A u \in Tid : ~Started(u)
  BY <1>1 DEF Segments, Own, Started
<1>3. /\ Len(past[Main]) = 1 /\ past[Main][1] = {<<Main, 1>>}
      /\ \A u \in Tid : u # Main => Len(past[u]) = 0
  BY <1>1
<1>4. SegmentsCounted
  BY <1>1, <1>2, <1>3 DEF SegmentsCounted
<1>5. Bounded /\ OwnGrows
  <2>1. \A x : At(EmptyClock, x) = 0
    BY DEF At, EmptyClock
  <2>2. QED BY <1>1, <1>2, <2>1 DEF Bounded, OwnGrows
<1>6. OwnPast
  <2>1. ASSUME NEW u \in Tid, NEW j \in 1 .. Len(past[u]), NEW i \in 1 .. j
        PROVE  <<u, i>> \in past[u][j]
    <3>1. u = Main
      BY <1>3
    <3>2. j = 1 /\ i = 1
      <4>1. Len(past[u]) = 1
        BY <1>3, <3>1
      <4>2. j \in 1 .. 1
        BY <4>1
      <4>3. QED BY <4>2
    <3>3. QED BY <1>3, <3>1, <3>2
  <2>2. QED BY <2>1 DEF OwnPast
<1>7. PastExists
  <2>1. ASSUME NEW x \in Tid, NEW u \in Tid, NEW j \in 1 .. Len(past[u]),
               NEW i \in Nat, <<x, i>> \in past[u][j]
        PROVE  IF x = u THEN i \in 1 .. j ELSE i \in Segments(x)
    <3>1. u = Main
      BY <1>3
    <3>2. j = 1
      BY <1>3, <3>1
    <3>3. x = Main /\ i = 1
      BY <1>3, <2>1, <3>1, <3>2
    <3>4. QED BY <3>1, <3>2, <3>3
  <2>2. QED BY <2>1 DEF PastExists
<1>8. CreatingOK /\ EndingOK /\ MainOK
  BY <1>1, <1>3, TidFacts DEF CreatingOK, EndingOK, MainOK, Exists
<1>9. GroundInv
  BY <1>4, <1>5, <1>6, <1>7, <1>8 DEF GroundInv
<1>10. Unread = {}
  BY <1>1 DEF Unread
<1>11. PastBelow /\ Known /\ UnreadAbove /\ UnreadExact
  BY <1>2, <1>10 DEF PastBelow, Known, UnreadAbove, UnreadExact
<1>12. QED BY <1>9, <1>11 DEF OrderInv, BelowInv, KnownInv

LEMMA OrderStep == TypeInv /\ OrderInv /\ [Next]_vars => OrderInv'
<1> SUFFICES ASSUME TypeInv, OrderInv, [Next]_vars PROVE OrderInv'
  OBVIOUS
<1>1. EndingOK /\ pc = [u \in Tid |-> pc[u]] /\ joining = [u \in Tid |-> joining[u]]
  BY DEF OrderInv, GroundInv, TypeInv, ControlInv, ControlTypes
<1>2. ASSUME NEW t \in Tid, CreateFail(t) PROVE OrderInv'
  <2>1. SamePhases
    BY <1>1, <1>2 DEF SamePhases, CreateFail
  <2>2. EndingOK'
    BY <1>1, <1>2 DEF EndingOK, CreateFail, maps, library
  <2>3. QED BY <1>2, <2>1, <2>2, Unmoved DEF CreateFail, maps, library, ghosts
<1>3. ASSUME NEW t \in Tid, CreateWait(t) PROVE OrderInv'
  <2>1. SamePhases
    BY <1>1, <1>3 DEF SamePhases, CreateWait
  <2>2. EndingOK'
    BY <1>1, <1>3 DEF EndingOK, CreateWait, maps, library
  <2>3. QED BY <1>3, <2>1, <2>2, Unmoved DEF CreateWait, maps, library, ghosts
<1>4. ASSUME NEW t \in Tid, CreateMap(t) PROVE OrderInv'
  <2>1. SamePhases
    BY <1>1, <1>4 DEF SamePhases, CreateMap
  <2>2. EndingOK'
    BY <1>1, <1>4 DEF EndingOK, CreateMap, library
  <2>3. QED BY <1>4, <2>1, <2>2, Unmoved DEF CreateMap, library, ghosts
<1>5. ASSUME NEW t \in Tid, ThreadStartSignal(t) PROVE OrderInv'
  <2>1. SamePhases
    BY <1>1, <1>5 DEF SamePhases, ThreadStartSignal
  <2>2. EndingOK'
    BY <1>1, <1>5 DEF EndingOK, ThreadStartSignal, maps, library
  <2>3. QED BY <1>5, <2>1, <2>2, Unmoved DEF ThreadStartSignal, maps, library, ghosts
<1>6. ASSUME NEW t \in Tid, JoinOriginal(t) PROVE OrderInv'
  <2>1. SamePhases
    BY <1>1, <1>6 DEF SamePhases, JoinOriginal
  <2>2. EndingOK'
    BY <1>1, <1>6 DEF EndingOK, JoinOriginal, maps
  <2>3. QED BY <1>6, <2>1, <2>2, Unmoved DEF JoinOriginal, handshake, maps, ghosts
<1>7. CASE UNCHANGED vars
  <2>1. SamePhases
    BY <1>7 DEF SamePhases, vars
  <2>2. EndingOK'
    BY <1>1, <1>7 DEF EndingOK, vars, maps, library
  <2>3. QED BY <1>7, <2>1, <2>2, Unmoved DEF vars, handshake, maps, library, ghosts
<1>8. QED
  BY <1>2, <1>3, <1>4, <1>5, <1>6, <1>7, CreateBeginOrdered,
     CreateOriginalOrdered, ThreadStartInitOrdered, JoinEndOrdered,
     ThreadExitOrdered
  DEF Next, Step, Finished

LEMMA TypesAndOrder == Spec => [](TypeInv /\ OrderInv)
<1>1. Init => TypeInv /\ OrderInv
  BY TypesInit, HandshakeInit, OrderInit DEF TypeInv
<1>2. TypeInv /\ OrderInv /\ [Next]_vars => (TypeInv /\ OrderInv)'
  <2>1. TypeInv /\ [Next]_vars => TypeInv'
    BY ControlStep, ClockStep, HistoryStep, HandshakeStep DEF TypeInv
  <2>2. QED BY <2>1, OrderStep
<1>3. QED BY <1>1, <1>2, PTL DEF Spec

(* is_concurrent on the clocks of two segments, in terms of Below.          *)
LEMMA ConcurrentSegments ==
  ASSUME TypeInv, NEW t \in Tid, NEW u \in Tid,
         NEW i \in Segments(t), NEW j \in Segments(u)
  PROVE  IsConcurrent(vector_clocks[t][i], vector_clocks[u][j]) <=>
           /\ ~Below(vector_clocks[t][i], vector_clocks[u][j])
           /\ ~Below(vector_clocks[u][j], vector_clocks[t][i])
<1>1. IsClock(vector_clocks[t][i], Tid) /\ IsClock(vector_clocks[u][j], Tid)
  BY ClockFacts
<1>2. QED BY <1>1, LeqBelow, IsConcurrentCorrect DEF Incomparable

(* Two segments that are ordered never have concurrent clocks, unless a     *)
(* thread other than its creator overtakes a child or a join reads another  *)
(* thread's id: ProcessThreadCreate, ...Init, ...Join and ...Exit never     *)
(* lose an order that pthread_create or pthread_join establishes, for any   *)
(* number of threads and any interleaving of their handshakes.              *)
THEOREM NoConcurrencyInvented == Spec => []NoFalseConcurrency
<1>1. TypeInv /\ OrderInv => NoFalseConcurrency
  <2>1. SUFFICES ASSUME TypeInv, OrderInv, ~misjoined, "other" \notin overtaken,
                        NEW t \in Tid, NEW u \in Tid, t # u,
                        NEW i \in Segments(t), NEW j \in Segments(u),
                        IsConcurrent(vector_clocks[t][i], vector_clocks[u][j])
                 PROVE  Unordered(t, i, u, j)
    BY DEF NoFalseConcurrency
  <2>2. PastBelow
    BY <2>1 DEF OrderInv, BelowInv
  <2>3. /\ ~Below(vector_clocks[t][i], vector_clocks[u][j])
        /\ ~Below(vector_clocks[u][j], vector_clocks[t][i])
    BY <2>1, ConcurrentSegments
  <2>4. QED BY <2>2, <2>3 DEF Unordered, PastBelow
<1>2. QED BY <1>1, TypesAndOrder, PTL

(* And when every child reads the clock its creator published, they are     *)
(* concurrent exactly when neither segment happens before the other: the    *)
(* second tick of ProcessThreadCreate and the two of ProcessThreadInit keep *)
(* what a creator does after the creation apart from what its child does.   *)
THEOREM ClocksAreExact == Spec => []ClocksExact
<1>1. TypeInv /\ OrderInv => ClocksExact
  <2>1. SUFFICES ASSUME TypeInv, OrderInv, ~misjoined, overtaken = {},
                        NEW t \in Tid, NEW u \in Tid, t # u,
                        NEW i \in Segments(t), NEW j \in Segments(u)
                 PROVE  IsConcurrent(vector_clocks[t][i], vector_clocks[u][j])
                          <=> Unordered(t, i, u, j)
    BY DEF ClocksExact
  <2>2. PastBelow /\ Known
    BY <2>1 DEF OrderInv, BelowInv, KnownInv
  <2>3. Below(vector_clocks[t][i], vector_clocks[u][j]) <=> <<t, i>> \in past[u][j]
    BY <2>1, <2>2 DEF PastBelow, Known, Below, Stamp
  <2>4. Below(vector_clocks[u][j], vector_clocks[t][i]) <=> <<u, j>> \in past[t][i]
    BY <2>1, <2>2 DEF PastBelow, Known, Below, Stamp
  <2>5. QED BY <2>1, <2>3, <2>4, ConcurrentSegments DEF Unordered
<1>2. QED BY <1>1, TypesAndOrder, PTL

-----------------------------------------------------------------------------
(* Segments of different threads while both run, for the modules that      *)
(* compose this one.                                                        *)

(* A thread that runs is ahead of what the others know of it, also of what  *)
(* it has published: a child that reads its clock comes after an earlier    *)
(* timestamp.                                                               *)
Running(t) == Started(t) /\ pc[t] # "exited"

Ahead ==
  \A t \in Tid : Running(t) =>
    /\ At(creator_thread_clock, t) < Own(t)
    /\ \A u \in Tid : /\ At(exit_threads_clock[u], t) < Own(t)
                      /\ u # t => \A j \in Segments(u) : Stamp(u, j, t) < Own(t)

PastMonotone ==
  \A t \in Tid : \A i, j \in 1 .. Len(past[t]) :
    i <= j => past[t][i] \subseteq past[t][j]

(* A thread is joined once, and until then nobody comes after its end.      *)
JoinedOnce ==
  \A t \in Tid : joining[t] # NoTid =>
    joining[t] \in joined /\ \A u \in Tid : u # t => joining[u] # joining[t]

Awaited(x) == pc[x] = "exited" /\ (x \in joined => \E y \in Tid : joining[y] = x)

EndUnknown ==
  \A x \in Tid : Awaited(x) =>
    \A u \in Tid : u # x =>
      \A j \in 1 .. Len(past[u]) : <<x, Len(past[x])>> \notin past[u][j]

SegmentInv == Ahead /\ PastMonotone /\ JoinedOnce /\ EndUnknown

LEMMA SegmentInit == Init => SegmentInv
<1> SUFFICES ASSUME Init PROVE SegmentInv
  OBVIOUS
<1>1. /\ \A u \in Tid : pc[u] = "starting" \/ pc[u] = "none"
      /\ \A u \in Tid : joining[u] = NoTid
  <2>1. /\ pc = [t \in Tid |-> IF t = Main THEN "starting" ELSE "none"]
        /\ joining = [t \in Tid |-> NoTid]
    BY DEF Init
  <2>2. QED BY <2>1
<1>2. /\ past[Main] = << {<<Main, 1>>} >>
      /\ \A u \in Tid : u # Main => past[u] = <<>>
  BY TidFacts DEF Init
<1>3. Ahead
  BY <1>1 DEF Ahead, Running, Started
<1>4. \A u \in Tid : Len(past[u]) = 0 \/ Len(past[u]) = 1
  <2>1. Len(<< {<<Main, 1>>} >>) = 1 /\ Len(<<>>) = 0
    OBVIOUS
  <2>2. QED BY <1>2, <2>1
<1>5. PastMonotone
  <2> SUFFICES ASSUME NEW t \in Tid, NEW i \in 1 .. Len(past[t]),
                      NEW j \in 1 .. Len(past[t])
               PROVE  past[t][i] = past[t][j]
    BY DEF PastMonotone
  <2>1. i = 1 /\ j = 1
    <3>1. PICK k : k = Len(past[t])
      OBVIOUS
    <3>2. k \in {0, 1} /\ i \in 1 .. k /\ j \in 1 .. k
      BY <1>4, <3>1
    <3>3. QED BY <3>2
  <2>2. QED BY <2>1
<1>6. JoinedOnce
  BY <1>1 DEF JoinedOnce
<1>7. EndUnknown
  BY <1>1 DEF EndUnknown, Awaited
<1>8. QED BY <1>3, <1>5, <1>6, <1>7 DEF SegmentInv

(* The past of t grows with its segments.                                  *)
LEMMA GrownPast ==
  ASSUME TypeInv, GroundInv, PastMonotone, NEW t \in Tid, Started(t), NEW c,
         NEW more, NEW n, n = Len(vector_clocks[t]),
         Grown(t, c, past[t][n] \cup more \cup {<<t, n + 1>>})
  PROVE  PastMonotone'
<1> DEFINE p == past[t][n] \cup more \cup {<<t, n + 1>>}
<1>1. /\ n \in Nat /\ n >= 1 /\ Len(past[t]) = n
      /\ Len(past'[t]) = n + 1 /\ past'[t][n + 1] = p
      /\ \A i \in 1 .. n : past'[t][i] = past[t][i]
      /\ \A u \in Tid : u # t => past'[u] = past[u]
  BY GrownFacts DEF GroundInv
<1>2. \A i \in 1 .. n : past[t][i] \subseteq past[t][n]
  BY <1>1 DEF PastMonotone
<1>3. past[t][n] \subseteq p
  OBVIOUS
<1> HIDE DEF p
<1>4. SUFFICES ASSUME NEW u \in Tid, NEW i \in 1 .. Len(past'[u]),
                      NEW j \in 1 .. Len(past'[u]), i <= j
               PROVE  past'[u][i] \subseteq past'[u][j]
  BY DEF PastMonotone
<1>5. CASE u # t
  BY <1>1, <1>4, <1>5 DEF PastMonotone
<1>6. CASE u = t /\ j = n + 1
  <2>1. i \in 1 .. n \/ i = j
    BY <1>1, <1>4, <1>6
  <2>2. QED BY <1>1, <1>2, <1>3, <1>6, <2>1
<1>7. CASE u = t /\ j # n + 1
  <2>1. i \in 1 .. n /\ j \in 1 .. n
    BY <1>1, <1>4, <1>7
  <2>2. QED BY <1>1, <1>4, <1>7, <2>1 DEF PastMonotone
<1>8. QED BY <1>5, <1>6, <1>7

(* Its clock tells of a running thread only what was known.                *)
LEMMA GrownAhead ==
  ASSUME TypeInv, GroundInv, Ahead, NEW t \in Tid, Started(t), NEW c, NEW p,
         Grown(t, c, p), Moves(t), Own(t) < At(c, t), At(c, t) \in Nat,
         \A x \in Tid : x # t /\ Running(x) => At(c, x) < Own(x),
         \A x \in Tid : Running(x)' =>
           /\ At(creator_thread_clock, x)' < Own(x)'
           /\ \A u \in Tid : At(exit_threads_clock[u], x)' < Own(x)'
  PROVE  Ahead'
<1>1. PICK n : n = Len(vector_clocks[t])
  OBVIOUS
<1>2. /\ n \in Nat /\ n >= 1
      /\ Segments(t) = 1 .. n /\ Segments(t)' = 1 .. n + 1
      /\ Own(t)' = At(c, t)
      /\ \A x \in Tid : Stamp(t, n + 1, x)' = At(c, x)
      /\ \A u \in Tid : u # t => Segments(u)' = Segments(u) /\ Own(u)' = Own(u)
      /\ \A u, x \in Tid : \A i \in Segments(u) : Stamp(u, i, x)' = Stamp(u, i, x)
  BY <1>1, GrownFacts DEF GroundInv
<1>3. SUFFICES ASSUME NEW x \in Tid, Running(x)', NEW u \in Tid, u # x,
                      NEW j \in Segments(u)'
               PROVE  Stamp(u, j, x)' < Own(x)'
  BY DEF Ahead
<1>4. CASE x = t
  <2>1. j \in Segments(u) /\ Stamp(u, j, x)' = Stamp(u, j, x)
    BY <1>2, <1>3, <1>4
  <2>2. Stamp(u, j, x) <= Own(x)
    BY <2>1 DEF GroundInv, Bounded
  <2>3. Stamp(u, j, x) \in Nat /\ Own(x) \in Nat
    BY <2>1, ClockFacts
  <2>4. QED BY <1>2, <1>4, <2>1, <2>2, <2>3
<1>5. CASE x # t
  <2>1. Running(x)
    BY <1>3, <1>5 DEF Running, Started, Moves
  <2>2. CASE u = t /\ j = n + 1
    BY <1>2, <1>5, <2>1, <2>2
  <2>3. CASE ~(u = t /\ j = n + 1)
    <3>1. j \in Segments(u)
      BY <1>2, <1>3, <2>3
    <3>2. QED BY <1>2, <1>3, <1>5, <2>1, <3>1 DEF Ahead
  <2>4. QED BY <2>2, <2>3
<1>6. QED BY <1>4, <1>5

(* A new segment of t that learns of no thread's end keeps them unknown.    *)
LEMMA EndsKept ==
  ASSUME TypeInv, EndUnknown, NEW t \in Tid, pc[t] # "exited", pc'[t] # "exited",
         NEW n \in Nat, n >= 1, Len(past[t]) = n, Len(past'[t]) = n + 1,
         NEW more, past'[t][n + 1] = past[t][n] \cup more \cup {<<t, n + 1>>},
         \A i \in 1 .. n : past'[t][i] = past[t][i],
         \A u \in Tid : u # t => past'[u] = past[u] /\ pc'[u] = pc[u],
         \A x \in Tid : Awaited(x)' => Awaited(x),
         \A x \in Tid : Awaited(x)' => <<x, Len(past[x])>> \notin more
  PROVE  EndUnknown'
<1> SUFFICES ASSUME NEW x \in Tid, Awaited(x)', NEW u \in Tid, u # x,
                    NEW j \in 1 .. Len(past'[u])
             PROVE  <<x, Len(past'[x])>> \notin past'[u][j]
  BY DEF EndUnknown
<1>1. Awaited(x) /\ x # t /\ past'[x] = past[x]
  BY DEF Awaited
<1>2. \A k \in 1 .. Len(past[u]) : <<x, Len(past[x])>> \notin past[u][k]
  BY <1>1 DEF EndUnknown
<1>3. CASE u # t
  BY <1>1, <1>2, <1>3
<1>4. CASE u = t /\ j # n + 1
  <2>1. j \in 1 .. n
    BY <1>4
  <2>2. QED BY <1>1, <1>2, <1>4, <2>1
<1>5. CASE u = t /\ j = n + 1
  <2>1. <<x, Len(past[x])>> \notin past[t][n]
    BY <1>2, <1>5
  <2>2. QED BY <1>1, <1>5, <2>1
<1>6. QED BY <1>3, <1>4, <1>5

LEMMA CreateBeginSegment ==
  ASSUME TypeInv, OrderInv, SegmentInv, NEW t \in Tid, CreateBegin(t)
  PROVE  SegmentInv'
<1>1. PICK n : n = Len(vector_clocks[t])
  OBVIOUS
<1>2. /\ GroundInv /\ Started(t) /\ pc[t] = "running"
      /\ Ahead /\ PastMonotone /\ JoinedOnce /\ EndUnknown
  BY DEF OrderInv, SegmentInv, CreateBegin, Started
<1>3. /\ n \in Nat /\ n >= 1 /\ n \in Segments(t) /\ Len(past[t]) = n
      /\ Last(vector_clocks[t]) = vector_clocks[t][n]
      /\ IsClock(vector_clocks[t][n], Tid)
      /\ Own(t) = At(vector_clocks[t][n], t)
      /\ \A x \in Tid : At(vector_clocks[t][n], x) \in Nat
  BY <1>1, <1>2, Current
<1>4. PICK L : L = vector_clocks[t][n]
  OBVIOUS
<1>5. PICK d : d = Tick(L, t)
  OBVIOUS
<1>6. PICK c : c = Tick(d, t)
  OBVIOUS
<1>7. IsClock(L, Tid) /\ IsClock(d, Tid)
  BY <1>3, <1>4, <1>5, TickIsClock
<1>8. \A x \in Tid : /\ At(L, x) \in Nat
                     /\ At(d, x) = IF x = t THEN At(L, x) + 1 ELSE At(L, x)
                     /\ At(c, x) = IF x = t THEN At(L, x) + 2 ELSE At(L, x)
  <2>1. \A x \in Tid : At(L, x) \in Nat
    BY <1>7, AtNat
  <2>2. \A x \in Tid : At(d, x) = IF x = t THEN At(L, x) + 1 ELSE At(L, x)
    BY <1>5, <1>7, AtTick
  <2>3. \A x \in Tid : At(c, x) = IF x = t THEN At(d, x) + 1 ELSE At(d, x)
    BY <1>6, <1>7, AtTick
  <2>4. QED BY <2>1, <2>2, <2>3
<1>9. PICK none : none = {}
  OBVIOUS
<1>10. /\ NewSegment(t, c, none)
       /\ creator_thread_clock' = d
       /\ pc' = [pc EXCEPT ![t] = "creating"]
       /\ UNCHANGED <<joining, joined, exit_threads_clock>>
  BY <1>3, <1>4, <1>5, <1>6, <1>9
  DEF CreateBegin, ClockForChild, ClockAfterCreate, maps, library
<1>11. Grown(t, c, past[t][n] \cup none \cup {<<t, n + 1>>})
  BY <1>2, <1>3, <1>9, <1>10, Grows DEF GroundInv
<1>12. /\ pc'[t] = "creating" /\ \A u \in Tid : u # t => pc'[u] = pc[u]
       /\ Started(t)'
  BY <1>10 DEF TypeInv, ControlInv, ControlTypes, Started
<1>13. Moves(t)
  BY <1>12 DEF Moves
<1>14. /\ Len(past'[t]) = n + 1
       /\ past'[t][n + 1] = past[t][n] \cup none \cup {<<t, n + 1>>}
       /\ \A i \in 1 .. n : past'[t][i] = past[t][i]
       /\ \A u \in Tid : u # t => past'[u] = past[u] /\ Own(u)' = Own(u)
       /\ Own(t)' = At(c, t)
  BY <1>1, <1>2, <1>11, GrownFacts DEF GroundInv
<1>15. \A x \in Tid : x # t /\ Running(x) => At(L, x) < Own(x)
  <2> SUFFICES ASSUME NEW x \in Tid, x # t, Running(x)
               PROVE  At(L, x) < Own(x)
    OBVIOUS
  <2>1. Stamp(t, n, x) < Own(x)
    BY <1>2, <1>3 DEF Ahead
  <2>2. QED BY <1>4, <2>1 DEF Stamp
<1>16. Ahead'
  <2>1. Own(t) < At(c, t) /\ At(c, t) \in Nat
    BY <1>3, <1>4, <1>8
  <2>2. \A x \in Tid : x # t /\ Running(x) => At(c, x) < Own(x)
    BY <1>8, <1>15
  <2>3. ASSUME NEW x \in Tid, Running(x)'
        PROVE  /\ At(creator_thread_clock, x)' < Own(x)'
               /\ \A u \in Tid : At(exit_threads_clock[u], x)' < Own(x)'
    <3>1. CASE x = t
      <4>1. At(d, t) < At(c, t)
        BY <1>8
      <4>2. Running(t) /\ Own(t) \in Nat /\ \A u \in Tid : At(exit_threads_clock[u], t) \in Nat
        BY <1>2, ClockFacts DEF Running
      <4>3. \A u \in Tid : At(exit_threads_clock[u], t) < Own(t)
        BY <1>2, <4>2 DEF Ahead
      <4>4. QED BY <1>10, <1>14, <2>1, <3>1, <4>1, <4>2, <4>3
    <3>2. CASE x # t
      <4>1. Running(x) /\ Own(x)' = Own(x)
        BY <1>12, <1>14, <2>3, <3>2 DEF Running, Started
      <4>2. At(d, x) < Own(x)
        BY <1>8, <1>15, <3>2, <4>1
      <4>3. \A u \in Tid : At(exit_threads_clock[u], x) < Own(x)
        BY <1>2, <4>1 DEF Ahead
      <4>4. QED BY <1>10, <4>1, <4>2, <4>3
    <3>3. QED BY <3>1, <3>2
  <2>4. QED BY <1>2, <1>11, <1>13, <2>1, <2>2, <2>3, GrownAhead
<1>17. PastMonotone'
  BY <1>1, <1>2, <1>11, GrownPast
<1>18. JoinedOnce'
  BY <1>2, <1>10 DEF JoinedOnce
<1>19. EndUnknown'
  <2>1. pc[t] # "exited" /\ pc'[t] # "exited"
    BY <1>2, <1>12
  <2>2. \A u \in Tid : u # t => past'[u] = past[u] /\ pc'[u] = pc[u]
    BY <1>12, <1>14
  <2>3. \A x \in Tid : Awaited(x)' => Awaited(x)
    BY <1>10, <2>1, <2>2 DEF Awaited
  <2>4. \A x \in Tid : Awaited(x)' => <<x, Len(past[x])>> \notin none
    BY <1>9
  <2>5. QED BY <1>2, <1>3, <1>14, <2>1, <2>2, <2>3, <2>4, EndsKept
<1>20. QED BY <1>16, <1>17, <1>18, <1>19 DEF SegmentInv

LEMMA ThreadExitSegment ==
  ASSUME TypeInv, OrderInv, SegmentInv, NEW t \in Tid, ThreadExit(t)
  PROVE  SegmentInv'
<1>1. PICK n : n = Len(vector_clocks[t])
  OBVIOUS
<1>2. /\ GroundInv /\ Started(t) /\ pc[t] = "running"
      /\ Ahead /\ PastMonotone /\ JoinedOnce /\ EndUnknown
  BY DEF OrderInv, SegmentInv, ThreadExit, Started
<1>3. /\ n \in Nat /\ n >= 1 /\ n \in Segments(t) /\ Len(past[t]) = n
      /\ Last(vector_clocks[t]) = vector_clocks[t][n]
      /\ IsClock(vector_clocks[t][n], Tid)
      /\ Own(t) = At(vector_clocks[t][n], t)
  BY <1>1, <1>2, Current
<1>4. PICK L : L = vector_clocks[t][n]
  OBVIOUS
<1>5. PICK c : c = Tick(L, t)
  OBVIOUS
<1>6. \A x \in Tid : /\ At(L, x) \in Nat
                     /\ At(c, x) = IF x = t THEN At(L, x) + 1 ELSE At(L, x)
  BY <1>3, <1>4, <1>5, AtNat, AtTick
<1>7. PICK none : none = {}
  OBVIOUS
<1>8. /\ NewSegment(t, c, none)
      /\ exit_threads_clock' = [exit_threads_clock EXCEPT ![t] = c]
      /\ pc' = [pc EXCEPT ![t] = "exited"]
      /\ UNCHANGED <<creator_thread_clock, joining, joined>>
  BY <1>3, <1>4, <1>5, <1>7 DEF ThreadExit, handshake, library
<1>9. /\ pc'[t] = "exited" /\ \A u \in Tid : u # t => pc'[u] = pc[u]
      /\ Started(t)'
  BY <1>8 DEF TypeInv, ControlInv, ControlTypes, Started
<1>10. /\ exit_threads_clock'[t] = c
       /\ \A u \in Tid : u # t => exit_threads_clock'[u] = exit_threads_clock[u]
  BY <1>8 DEF TypeInv, ClockInv, ClockTypes
<1>11. Grown(t, c, past[t][n] \cup none \cup {<<t, n + 1>>}) /\ Moves(t)
  BY <1>2, <1>3, <1>7, <1>8, <1>9, Grows DEF GroundInv, Moves
<1>12. /\ Len(past'[t]) = n + 1
       /\ past'[t][n + 1] = past[t][n] \cup none \cup {<<t, n + 1>>}
       /\ \A i \in 1 .. n : past'[t][i] = past[t][i]
       /\ \A u \in Tid : u # t => past'[u] = past[u] /\ Own(u)' = Own(u)
       /\ Segments(t) = 1 .. n
  BY <1>1, <1>2, <1>11, GrownFacts DEF GroundInv
<1>13. \A x \in Tid : x # t /\ Running(x) => At(c, x) < Own(x)
  <2> SUFFICES ASSUME NEW x \in Tid, x # t, Running(x)
               PROVE  At(c, x) < Own(x)
    OBVIOUS
  <2>1. Stamp(t, n, x) < Own(x)
    BY <1>2, <1>3 DEF Ahead
  <2>2. QED BY <1>4, <1>6, <2>1 DEF Stamp
<1>14. Ahead'
  <2>1. Own(t) < At(c, t) /\ At(c, t) \in Nat
    BY <1>3, <1>4, <1>6
  <2>2. ASSUME NEW x \in Tid, Running(x)'
        PROVE  /\ At(creator_thread_clock, x)' < Own(x)'
               /\ \A u \in Tid : At(exit_threads_clock[u], x)' < Own(x)'
    <3>1. x # t /\ Running(x) /\ Own(x)' = Own(x)
      BY <1>9, <1>12, <2>2 DEF Running, Started
    <3>2. /\ At(creator_thread_clock, x) < Own(x)
          /\ \A u \in Tid : At(exit_threads_clock[u], x) < Own(x)
      BY <1>2, <3>1 DEF Ahead
    <3>3. QED BY <1>8, <1>10, <1>13, <3>1, <3>2
  <2>3. QED BY <1>2, <1>11, <1>13, <2>1, <2>2, GrownAhead
<1>15. PastMonotone'
  BY <1>1, <1>2, <1>11, GrownPast
<1>16. JoinedOnce'
  BY <1>2, <1>8 DEF JoinedOnce
<1>17. EndUnknown'
  <2> SUFFICES ASSUME NEW x \in Tid, Awaited(x)', NEW u \in Tid, u # x,
                      NEW j \in 1 .. Len(past'[u])
               PROVE  <<x, Len(past'[x])>> \notin past'[u][j]
    BY DEF EndUnknown
\* Nobody can know the segment that only begins here.
  <2>1. CASE x = t
    <3>1. past'[u] = past[u] /\ Len(past'[x]) = n + 1
      BY <1>12, <2>1
    <3>2. n + 1 \in Nat /\ n + 1 \notin Segments(t)
      BY <1>3, <1>12
    <3>3. QED BY <1>2, <2>1, <3>1, <3>2 DEF GroundInv, PastExists
  <2>2. CASE x # t
    <3>1. Awaited(x) /\ past'[x] = past[x]
      BY <1>8, <1>9, <1>12, <2>2 DEF Awaited
    <3>2. \A k \in 1 .. Len(past[u]) : <<x, Len(past[x])>> \notin past[u][k]
      BY <1>2, <3>1 DEF EndUnknown
    <3>3. CASE u # t
      BY <1>12, <3>1, <3>2, <3>3
    <3>4. CASE u = t /\ j # n + 1
      <4>1. j \in 1 .. n
        BY <1>3, <1>12, <3>4
      <4>2. QED BY <1>3, <1>12, <3>1, <3>2, <3>4, <4>1
    <3>5. CASE u = t /\ j = n + 1
      <4>1. <<x, Len(past[x])>> \notin past[t][n]
        BY <1>3, <3>2, <3>5
      <4>2. QED BY <1>7, <1>12, <2>2, <3>1, <3>5, <4>1
    <3>6. QED BY <3>3, <3>4, <3>5
  <2>3. QED BY <2>1, <2>2
<1>18. QED BY <1>14, <1>15, <1>16, <1>17 DEF SegmentInv

LEMMA JoinEndSegment ==
  ASSUME TypeInv, OrderInv, SegmentInv, NEW t \in Tid, JoinEnd(t)
  PROVE  SegmentInv'
<1>1. PICK n : n = Len(vector_clocks[t])
  OBVIOUS
<1>2. /\ GroundInv /\ Started(t) /\ pc[t] = "joining"
      /\ Ahead /\ PastMonotone /\ JoinedOnce /\ EndUnknown
  BY DEF OrderInv, SegmentInv, JoinEnd, Started
<1>3. /\ n \in Nat /\ n >= 1 /\ n \in Segments(t) /\ Len(past[t]) = n
      /\ Last(vector_clocks[t]) = vector_clocks[t][n]
      /\ IsClock(vector_clocks[t][n], Tid)
      /\ Own(t) = At(vector_clocks[t][n], t)
  BY <1>1, <1>2, Current
<1>4. PICK q \in Tid : q = joining[t] /\ pc[q] = "exited"
  BY <1>2 DEF GroundInv, EndingOK
<1>5. PICK m : m = Len(vector_clocks[q])
  OBVIOUS
<1>6. Started(q) /\ q # t /\ joining[t] # NoTid
  BY <1>2, <1>4, TidFacts DEF Started
<1>7. m >= 1 /\ m \in Nat /\ Len(past[q]) = m /\ Last(past[q]) = past[q][m]
  BY <1>2, <1>5, <1>6, Current
<1>8. PICK more : more = past[q][m]
  OBVIOUS
<1>9. PICK e \in Tid : NewSegment(t, Merge(Tick(vector_clocks[t][n], t),
                                          exit_threads_clock[e]), more)
  <2>1. Lookups(handle[joining[t]]) \subseteq Tid
    BY <1>4, TidFacts DEF Lookups, TypeInv, ControlInv, ControlTypes
  <2>2. QED BY <1>3, <1>4, <1>7, <1>8, <2>1 DEF JoinEnd, ClockAfterJoin
<1>10. PICK L : L = vector_clocks[t][n]
  OBVIOUS
<1>11. PICK D : D = exit_threads_clock[e]
  OBVIOUS
<1>12. PICK c : c = Merge(Tick(L, t), D)
  OBVIOUS
<1>13. /\ \A x \in Tid : At(L, x) \in Nat
       /\ \A x \in Tid : At(D, x) \in Nat
       /\ Own(t) = At(L, t)
  BY <1>2, <1>3, <1>10, <1>11, ClockFacts, AtNat
<1>14. \A x \in Tid : At(c, x) =
         IF At(Tick(L, t), x) < At(D, x) THEN At(D, x) ELSE At(Tick(L, t), x)
  <2>1. IsClock(L, Tid) /\ IsClock(D, Tid)
    BY <1>3, <1>10, <1>11 DEF TypeInv, ClockInv, ClockTypes
  <2>2. IsClock(Tick(L, t), Tid)
    BY <2>1, TickIsClock
  <2>3. QED BY <1>12, <2>1, <2>2, AtMerge
<1>15. \A x \in Tid :
         At(Tick(L, t), x) = IF x = t THEN At(L, x) + 1 ELSE At(L, x)
  BY <1>3, <1>10, AtTick
<1>16. /\ pc' = [pc EXCEPT ![t] = "running"]
       /\ joining' = [joining EXCEPT ![t] = NoTid]
       /\ UNCHANGED <<creator_thread_clock, joined, exit_threads_clock>>
  BY DEF JoinEnd, handshake, maps
<1>17. /\ pc'[t] = "running" /\ \A u \in Tid : u # t => pc'[u] = pc[u]
       /\ joining'[t] = NoTid
       /\ \A u \in Tid : u # t => joining'[u] = joining[u]
       /\ Started(t)'
  BY <1>16 DEF TypeInv, ControlInv, ControlTypes, Started
<1>18. Grown(t, c, past[t][n] \cup more \cup {<<t, n + 1>>}) /\ Moves(t)
  <2>1. more \in SUBSET (Tid \X Nat)
    <3>1. past[q] \in Seq(SUBSET (Tid \X Nat))
      BY DEF TypeInv, HistoryInv, HistoryTypes
    <3>2. PICK S : S = SUBSET (Tid \X Nat)
      OBVIOUS
    <3>3. past[q] \in Seq(S) /\ Len(past[q]) = m
      BY <1>7, <3>1, <3>2
    <3>4. past[q][m] \in S
      BY <1>7, <3>3
    <3>5. QED BY <1>8, <3>2, <3>4
  <2>2. NewSegment(t, c, more)
    BY <1>9, <1>10, <1>11, <1>12
  <2>3. QED BY <1>2, <1>3, <1>17, <2>1, <2>2, Grows DEF GroundInv, Moves
<1>19. /\ Len(past'[t]) = n + 1
       /\ past'[t][n + 1] = past[t][n] \cup more \cup {<<t, n + 1>>}
       /\ \A i \in 1 .. n : past'[t][i] = past[t][i]
       /\ \A u \in Tid : u # t => past'[u] = past[u] /\ Own(u)' = Own(u)
       /\ Own(t)' = At(c, t)
  BY <1>1, <1>2, <1>18, GrownFacts DEF GroundInv
<1>20. \A x \in Tid : x # t /\ Running(x) => At(L, x) < Own(x) /\ At(D, x) < Own(x)
  <2> SUFFICES ASSUME NEW x \in Tid, x # t, Running(x)
               PROVE  At(L, x) < Own(x) /\ At(D, x) < Own(x)
    OBVIOUS
  <2>1. Stamp(t, n, x) < Own(x) /\ At(exit_threads_clock[e], x) < Own(x)
    BY <1>2, <1>3 DEF Ahead
  <2>2. QED BY <1>10, <1>11, <2>1 DEF Stamp
<1>21. Ahead'
  <2>1. Own(t) < At(c, t) /\ At(c, t) \in Nat
    BY <1>13, <1>14, <1>15
  <2>2. \A x \in Tid : x # t /\ Running(x) => At(c, x) < Own(x)
    BY <1>14, <1>15, <1>20
  <2>3. ASSUME NEW x \in Tid, Running(x)'
        PROVE  /\ At(creator_thread_clock, x)' < Own(x)'
               /\ \A u \in Tid : At(exit_threads_clock[u], x)' < Own(x)'
    <3>1. Running(x)
      BY <1>2, <1>17, <2>3 DEF Running, Started
    <3>2. /\ At(creator_thread_clock, x) < Own(x)
          /\ \A u \in Tid : At(exit_threads_clock[u], x) < Own(x)
      BY <1>2, <3>1 DEF Ahead
    <3>3. Own(x) <= Own(x)' /\ Own(x) \in Nat /\ Own(x)' \in Nat
      <4>1. Own(x) \in Nat
        BY ClockFacts
      <4>2. CASE x = t
        BY <1>19, <2>1, <4>1, <4>2
      <4>3. CASE x # t
        BY <1>19, <4>1, <4>3
      <4>4. QED BY <4>1, <4>2, <4>3
    <3>4. /\ At(creator_thread_clock, x) \in Nat
          /\ \A u \in Tid : At(exit_threads_clock[u], x) \in Nat
      BY ClockFacts
    <3>5. /\ At(creator_thread_clock, x) < Own(x)'
          /\ \A u \in Tid : At(exit_threads_clock[u], x) < Own(x)'
      BY <3>2, <3>3, <3>4
    <3>6. QED BY <1>16, <3>5
  <2>4. QED BY <1>2, <1>18, <2>1, <2>2, <2>3, GrownAhead
<1>22. PastMonotone'
  BY <1>1, <1>2, <1>18, GrownPast
<1>23. JoinedOnce'
  BY <1>2, <1>16, <1>17 DEF JoinedOnce
<1>24. EndUnknown'
  <2>1. pc[t] # "exited" /\ pc'[t] # "exited"
    BY <1>2, <1>17
  <2>2. \A u \in Tid : u # t => past'[u] = past[u] /\ pc'[u] = pc[u]
    BY <1>17, <1>19
  <2>3. ASSUME NEW x \in Tid, Awaited(x)'
        PROVE  Awaited(x) /\ x # q
    <3>1. pc[x] = "exited" /\ joined' = joined
      BY <1>16, <1>17, <2>3 DEF Awaited
    <3>2. CASE x \notin joined
      <4>1. q \in joined
        BY <1>2, <1>4, <1>6 DEF JoinedOnce
      <4>2. QED BY <3>1, <3>2, <4>1 DEF Awaited
    <3>3. CASE x \in joined
      <4>1. PICK y \in Tid : joining'[y] = x
        BY <2>3, <3>1, <3>3 DEF Awaited
      <4>2. y # t /\ joining[y] = x
        BY <1>17, <4>1, TidFacts
      <4>3. x # q
        BY <1>2, <1>4, <1>6, <4>2 DEF JoinedOnce
      <4>4. QED BY <3>1, <4>2, <4>3 DEF Awaited
    <3>4. QED BY <3>2, <3>3
  <2>4. \A x \in Tid : Awaited(x)' => <<x, Len(past[x])>> \notin more
    <3> SUFFICES ASSUME NEW x \in Tid, Awaited(x)'
                 PROVE  <<x, Len(past[x])>> \notin past[q][m]
      BY <1>8
    <3>1. m \in 1 .. Len(past[q])
      BY <1>7
    <3>2. QED BY <1>2, <2>3, <3>1 DEF EndUnknown
  <2>5. \A x \in Tid : Awaited(x)' => Awaited(x)
    BY <2>3
  <2>6. QED BY <1>2, <1>3, <1>19, <2>1, <2>2, <2>4, <2>5, EndsKept
<1>25. QED BY <1>21, <1>22, <1>23, <1>24 DEF SegmentInv

LEMMA ThreadStartInitSegment ==
  ASSUME TypeInv, OrderInv, SegmentInv, NEW t \in Tid, ThreadStartInit(t)
  PROVE  SegmentInv'
<1>1. /\ SegmentsCounted /\ Bounded /\ pc[t] = "signalled"
      /\ Ahead /\ PastMonotone /\ JoinedOnce /\ EndUnknown
  BY DEF OrderInv, GroundInv, SegmentInv, ThreadStartInit
<1>2. vector_clocks[t] = <<>> /\ Own(t) = 0
  <2>1. Len(vector_clocks[t]) = 0
    BY <1>1 DEF SegmentsCounted, Started
  <2>2. vector_clocks[t] \in Seq({vector_clocks[t][i] : i \in DOMAIN vector_clocks[t]})
    BY DEF TypeInv, ClockInv, ClockTypes, IsClockSequence
  <2>3. vector_clocks[t] = <<>>
    BY <2>1, <2>2
  <2>4. QED BY <2>1, <2>3 DEF Own
<1>3. PICK cc : cc = IF creator_thread_id # NoTid THEN creator_thread_clock
                                                  ELSE EmptyClock
  OBVIOUS
<1>4. PICK F : F = Tick(Tick(cc, t), t)
  OBVIOUS
<1>5. /\ IsClock(cc, Tid)
      /\ \A x \in Tid : /\ At(cc, x) \in Nat
                        /\ At(cc, x) = 0 \/ At(cc, x) = At(creator_thread_clock, x)
                        /\ At(cc, x) <= Own(x)
  <2>1. IsClock(EmptyClock, Tid) /\ \A x \in Tid : At(EmptyClock, x) = 0
    BY DEF IsClock, EmptyClock, At
  <2>2. IsClock(creator_thread_clock, Tid)
    BY DEF TypeInv, ClockInv, ClockTypes
  <2>3. \A x \in Tid : /\ At(creator_thread_clock, x) \in Nat
                       /\ At(creator_thread_clock, x) <= Own(x)
                       /\ Own(x) \in Nat
    BY <1>1, ClockFacts DEF Bounded
  <2>4. CASE creator_thread_id # NoTid
    BY <1>3, <2>2, <2>3, <2>4
  <2>5. CASE creator_thread_id = NoTid
    BY <1>3, <2>1, <2>3, <2>5
  <2>6. QED BY <2>4, <2>5
<1>6. At(F, t) = 2 /\ \A x \in Tid : x # t => At(F, x) = At(cc, x)
  <2>1. IsClock(Tick(cc, t), Tid)
    BY <1>5, TickIsClock
  <2>2. \A x \in Tid : At(Tick(cc, t), x) = IF x = t THEN At(cc, x) + 1 ELSE At(cc, x)
    BY <1>5, AtTick
  <2>3. \A x \in Tid :
          At(F, x) = IF x = t THEN At(Tick(cc, t), x) + 1 ELSE At(Tick(cc, t), x)
    BY <1>4, <2>1, AtTick
  <2>4. At(cc, t) = 0
    BY <1>2, <1>5
  <2>5. QED BY <2>2, <2>3, <2>4
<1>7. /\ vector_clocks' = [vector_clocks EXCEPT ![t] = Append(@, F)]
      /\ pc' = [pc EXCEPT ![t] = "running"]
      /\ UNCHANGED <<creator_thread_clock, exit_threads_clock, joining, joined, past>>
  BY <1>3, <1>4 DEF ThreadStartInit, FirstClock, handshake, maps, library, ghosts
<1>8. /\ pc'[t] = "running" /\ \A u \in Tid : u # t => pc'[u] = pc[u]
  BY <1>7 DEF TypeInv, ControlInv, ControlTypes
<1>9. /\ vector_clocks'[t] = <<F>>
      /\ \A u \in Tid : u # t => vector_clocks'[u] = vector_clocks[u]
  BY <1>2, <1>7 DEF TypeInv, ClockInv, ClockTypes
<1>10. /\ Segments(t)' = {1} /\ Own(t)' = 2
       /\ \A x \in Tid : Stamp(t, 1, x)' = At(F, x)
       /\ \A u \in Tid : u # t => Segments(u)' = Segments(u) /\ Own(u)' = Own(u)
       /\ \A u, x \in Tid : u # t =>
            \A j \in Segments(u) : Stamp(u, j, x)' = Stamp(u, j, x)
  <2>1. Len(vector_clocks'[t]) = 1 /\ vector_clocks'[t][1] = F
    BY <1>9
  <2>2. QED BY <1>6, <1>9, <2>1 DEF Segments, Own, Stamp
<1>11. Ahead'
  <2> SUFFICES ASSUME NEW x \in Tid, Running(x)'
               PROVE  /\ At(creator_thread_clock, x) < Own(x)'
                      /\ \A u \in Tid :
                           /\ At(exit_threads_clock[u], x) < Own(x)'
                           /\ u # x => \A j \in Segments(u)' : Stamp(u, j, x)' < Own(x)'
    BY <1>7 DEF Ahead
  <2>1. CASE x = t
    <3>1. At(creator_thread_clock, t) <= 0 /\ At(creator_thread_clock, t) \in Nat
      BY <1>1, <1>2, ClockFacts DEF Bounded
    <3>2. \A u \in Tid : /\ At(exit_threads_clock[u], t) <= 0
                         /\ At(exit_threads_clock[u], t) \in Nat
      BY <1>1, <1>2, ClockFacts DEF Bounded
    <3>3. \A u \in Tid : \A j \in Segments(u) :
            Stamp(u, j, t) <= 0 /\ Stamp(u, j, t) \in Nat
      BY <1>1, <1>2, ClockFacts DEF Bounded
    <3>4. \A u \in Tid : u # t => \A j \in Segments(u)' : Stamp(u, j, t)' < 2
      BY <1>10, <3>3
    <3>5. QED BY <1>10, <2>1, <3>1, <3>2, <3>4
  <2>2. CASE x # t
    <3>1. Running(x) /\ Own(x)' = Own(x)
      BY <1>8, <1>10, <2>2 DEF Running, Started
    <3>2. /\ At(creator_thread_clock, x) < Own(x)
          /\ \A u \in Tid : At(exit_threads_clock[u], x) < Own(x)
          /\ \A u \in Tid : u # x => \A j \in Segments(u) : Stamp(u, j, x) < Own(x)
      BY <1>1, <3>1 DEF Ahead
    <3>3. At(F, x) < Own(x)
      <4>1. At(creator_thread_clock, x) \in Nat /\ Own(x) \in Nat
        BY ClockFacts
      <4>2. At(cc, x) = 0 \/ At(cc, x) = At(creator_thread_clock, x)
        BY <1>5
      <4>3. At(F, x) = At(cc, x)
        BY <1>6, <2>2
      <4>4. QED BY <3>2, <4>1, <4>2, <4>3
    <3>4. ASSUME NEW u \in Tid, u # x, NEW j \in Segments(u)'
          PROVE  Stamp(u, j, x)' < Own(x)
      <4>1. CASE u = t
        BY <1>10, <3>3, <3>4, <4>1
      <4>2. CASE u # t
        BY <1>10, <3>2, <3>4, <4>2
      <4>3. QED BY <4>1, <4>2
    <3>5. QED BY <3>1, <3>2, <3>4
  <2>3. QED BY <2>1, <2>2
<1>12. PastMonotone' /\ JoinedOnce'
  BY <1>1, <1>7 DEF PastMonotone, JoinedOnce
<1>13. EndUnknown'
  <2>1. \A x \in Tid : Awaited(x)' => Awaited(x)
    BY <1>7, <1>8 DEF Awaited
  <2>2. QED BY <1>1, <1>7, <2>1 DEF EndUnknown
<1>14. QED BY <1>11, <1>12, <1>13 DEF SegmentInv

LEMMA CreateOriginalSegment ==
  ASSUME TypeInv, OrderInv, SegmentInv, NEW t \in Tid, CreateOriginal(t)
  PROVE  SegmentInv'
<1>1. /\ SegmentsCounted /\ CreatingOK /\ MainOK /\ pc[t] = "creating"
      /\ Ahead /\ PastMonotone /\ JoinedOnce /\ EndUnknown
  BY DEF OrderInv, GroundInv, SegmentInv, CreateOriginal
<1>2. PICK child \in Tid :
        /\ ~Exists(child)
        /\ pc' = [pc EXCEPT ![t] = "waiting", ![child] = "starting"]
        /\ past' = [past EXCEPT ![child] =
                      << past[t][Len(past[t]) - 1] \cup {<<child, 1>>} >>]
  BY DEF CreateOriginal
<1>3. UNCHANGED <<vector_clocks, creator_thread_clock, exit_threads_clock,
                  joining, joined>>
  BY DEF CreateOriginal, maps
<1>4. PICK n : n = Len(past[t])
  OBVIOUS
<1>5. n \in Nat /\ n - 1 \in 1 .. n
  <2>1. Len(vector_clocks[t]) \in Nat /\ Started(t)
    BY <1>1, ClockFacts DEF Started
  <2>2. Len(vector_clocks[t]) >= 2 /\ Len(past[t]) = Len(vector_clocks[t])
    BY <1>1, <2>1 DEF CreatingOK, SegmentsCounted
  <2>3. QED BY <1>4, <2>1, <2>2
<1>6. child # t /\ pc[child] = "none"
  BY <1>1, <1>2 DEF Exists
<1>7. /\ pc'[t] = "waiting" /\ pc'[child] = "starting"
      /\ \A u \in Tid : u # t /\ u # child => pc'[u] = pc[u]
  BY <1>2, <1>6 DEF TypeInv, ControlInv, ControlTypes
<1>8. /\ past'[child] = << past[t][n - 1] \cup {<<child, 1>>} >>
      /\ \A u \in Tid : u # child => past'[u] = past[u]
  BY <1>2, <1>4 DEF TypeInv, HistoryInv, HistoryTypes
<1>9. /\ Len(past'[child]) = 1
      /\ past'[child][1] = past[t][n - 1] \cup {<<child, 1>>}
  BY <1>8
<1>10. Ahead'
  <2>1. \A x \in Tid : Running(x)' => Running(x)
    BY <1>1, <1>7 DEF Running, Started
  <2>2. QED BY <1>1, <1>3, <2>1 DEF Ahead, Own, Stamp, Segments
<1>11. PastMonotone'
  <2> SUFFICES ASSUME NEW x \in Tid, NEW i \in 1 .. Len(past'[x]),
                      NEW j \in 1 .. Len(past'[x]), i <= j
               PROVE  past'[x][i] \subseteq past'[x][j]
    BY DEF PastMonotone
  <2>1. CASE x = child
    <3>1. i \in 1 .. 1 /\ j \in 1 .. 1
      BY <1>9, <2>1, Zenon
    <3>2. i = 1 /\ j = 1
      BY <3>1
    <3>3. QED BY <3>2
  <2>2. CASE x # child
    BY <1>1, <1>8, <2>2 DEF PastMonotone
  <2>3. QED BY <2>1, <2>2
<1>12. JoinedOnce'
  BY <1>1, <1>3 DEF JoinedOnce
<1>13. EndUnknown'
  <2> SUFFICES ASSUME NEW x \in Tid, Awaited(x)', NEW u \in Tid, u # x,
                      NEW j \in 1 .. Len(past'[u])
               PROVE  <<x, Len(past'[x])>> \notin past'[u][j]
    BY DEF EndUnknown
  <2>1. /\ Awaited(x) /\ x # child /\ x # t /\ past'[x] = past[x]
    BY <1>1, <1>3, <1>7, <1>8 DEF Awaited
  <2>2. \A v \in Tid : v # x =>
          \A k \in 1 .. Len(past[v]) : <<x, Len(past[x])>> \notin past[v][k]
    BY <1>1, <2>1 DEF EndUnknown
  <2>3. CASE u # child
    BY <1>8, <2>1, <2>2, <2>3
  <2>4. CASE u = child
    <3>4. j \in 1 .. 1
      BY <1>9, <2>4, Zenon
    <3>1. j = 1
      BY <3>4
    <3>2. <<x, Len(past[x])>> \notin past[t][n - 1]
      BY <1>4, <1>5, <2>1, <2>2
    <3>3. QED BY <1>9, <2>1, <2>4, <3>1, <3>2
  <2>5. QED BY <2>3, <2>4
<1>14. QED BY <1>10, <1>11, <1>12, <1>13 DEF SegmentInv

LEMMA SegmentUnmoved ==
  ASSUME TypeInv, SegmentInv,
         \A x \in Tid : Running(x)' => Running(x),
         \A x \in Tid : Awaited(x)' => Awaited(x), JoinedOnce',
         UNCHANGED <<vector_clocks, past, creator_thread_clock, exit_threads_clock>>
  PROVE  SegmentInv'
<1>1. Ahead /\ PastMonotone /\ EndUnknown
  BY DEF SegmentInv
<1>2. Ahead'
  BY <1>1 DEF Ahead, Own, Stamp, Segments
<1>3. PastMonotone' /\ EndUnknown'
  BY <1>1 DEF PastMonotone, EndUnknown
<1>4. QED BY <1>2, <1>3 DEF SegmentInv

LEMMA SegmentStep == TypeInv /\ OrderInv /\ SegmentInv /\ [Next]_vars => SegmentInv'
<1> SUFFICES ASSUME TypeInv, OrderInv, SegmentInv, [Next]_vars
             PROVE  SegmentInv'
  OBVIOUS
<1>1. JoinedOnce /\ pc \in [Tid -> Phases] /\ joining \in [Tid -> Tid \cup {NoTid}]
  BY DEF SegmentInv, TypeInv, ControlInv, ControlTypes
<1>2. ASSUME NEW t \in Tid,
             CreateFail(t) \/ CreateWait(t) \/ CreateMap(t) \/ ThreadStartSignal(t)
      PROVE  SegmentInv'
  <2>1. /\ UNCHANGED <<vector_clocks, past, creator_thread_clock, joining, joined,
                       exit_threads_clock>>
        /\ pc[t] \in {"creating", "waiting", "mapping", "starting"}
        /\ pc'[t] # "exited" /\ (pc[t] = "starting" => pc'[t] = "signalled")
        /\ \A u \in Tid : u # t => pc'[u] = pc[u]
    BY <1>1, <1>2
    DEF CreateFail, CreateWait, CreateMap, ThreadStartSignal, maps, library, ghosts
  <2>2. \A x \in Tid : (Running(x)' => Running(x)) /\ (Awaited(x)' => Awaited(x))
    BY <2>1 DEF Running, Started, Awaited
  <2>3. JoinedOnce'
    BY <1>1, <2>1 DEF JoinedOnce
  <2>4. QED BY <2>1, <2>2, <2>3, SegmentUnmoved
<1>3. ASSUME NEW t \in Tid, JoinOriginal(t)
      PROVE  SegmentInv'
  <2>1. PICK u \in Tid :
          /\ u \notin joined /\ pc[u] = "exited"
          /\ joining' = [joining EXCEPT ![t] = u]
          /\ joined' = joined \cup {u}
    BY <1>3 DEF JoinOriginal
  <2>2. /\ UNCHANGED <<vector_clocks, past, creator_thread_clock, exit_threads_clock>>
        /\ pc[t] = "running" /\ pc' = [pc EXCEPT ![t] = "joining"]
    BY <1>3 DEF JoinOriginal, handshake, maps, ghosts
  <2>3. /\ joining'[t] = u /\ \A x \in Tid : x # t => joining'[x] = joining[x]
        /\ pc'[t] = "joining" /\ \A x \in Tid : x # t => pc'[x] = pc[x]
    BY <1>1, <2>1, <2>2
  <2>4. \A x \in Tid : joining[x] # u
    BY <1>1, <2>1, TidFacts DEF JoinedOnce
  <2>5. joining[t] = NoTid
    BY <2>2 DEF TypeInv, ControlInv, JoinsExisting
  <2>6. \A x \in Tid : Running(x)' => Running(x)
    BY <2>2, <2>3 DEF Running, Started
  <2>7. ASSUME NEW x \in Tid, Awaited(x)'
        PROVE  Awaited(x)
    <3>1. pc[x] = "exited"
      BY <2>3, <2>7 DEF Awaited
    <3>2. CASE x \notin joined
      BY <3>1, <3>2 DEF Awaited
    <3>3. CASE x \in joined
      <4>1. x \in joined' /\ x # u
        BY <2>1, <3>3
      <4>2. PICK y \in Tid : joining'[y] = x
        BY <2>7, <4>1 DEF Awaited
      <4>3. joining[y] = x
        BY <2>3, <4>1, <4>2
      <4>4. QED BY <3>1, <4>3 DEF Awaited
    <3>4. QED BY <3>2, <3>3
  <2>8. JoinedOnce'
    BY <1>1, <2>1, <2>3, <2>4 DEF JoinedOnce
  <2>9. QED BY <2>2, <2>6, <2>7, <2>8, SegmentUnmoved
<1>4. CASE UNCHANGED vars
  <2>1. UNCHANGED <<pc, vector_clocks, past, creator_thread_clock, joining, joined,
                    exit_threads_clock>>
    BY <1>4 DEF vars, handshake, maps, library, ghosts
  <2>2. \A x \in Tid : (Running(x)' => Running(x)) /\ (Awaited(x)' => Awaited(x))
    BY <2>1 DEF Running, Started, Awaited
  <2>3. JoinedOnce'
    BY <1>1, <2>1 DEF JoinedOnce
  <2>4. QED BY <2>1, <2>2, <2>3, SegmentUnmoved
<1>5. QED
  BY <1>2, <1>3, <1>4, CreateBeginSegment, CreateOriginalSegment,
     ThreadStartInitSegment, JoinEndSegment, ThreadExitSegment
  DEF Next, Step, Finished

LEMMA SegmentsOrdered == Spec => [](TypeInv /\ OrderInv /\ SegmentInv)
<1>1. Init => TypeInv /\ OrderInv /\ SegmentInv
  BY TypesInit, HandshakeInit, OrderInit, SegmentInit DEF TypeInv
<1>2. TypeInv /\ OrderInv /\ SegmentInv /\ [Next]_vars
        => (TypeInv /\ OrderInv /\ SegmentInv)'
  <2>1. TypeInv /\ [Next]_vars => TypeInv'
    BY ControlStep, ClockStep, HistoryStep, HandshakeStep DEF TypeInv
  <2>2. QED BY <2>1, OrderStep, SegmentStep
<1>3. QED BY <1>1, <1>2, PTL DEF Spec

-----------------------------------------------------------------------------
(* What other modules need to know of the segments                         *)

ThreadsInv == TypeInv /\ OrderInv /\ SegmentInv

(* The i-th segment of t begins with a join: its past gains another         *)
(* thread's.                                                                *)
Gains(t, i) == past[t][i] # past[t][i - 1] \cup {<<t, i>>}

LEMMA SegmentFacts ==
  ASSUME ThreadsInv
  PROVE  /\ pc \in [Tid -> Phases]
         /\ \A t \in Tid : Len(vector_clocks[t]) \in Nat
         /\ \A t \in Tid : vector_clocks[t] = <<>> <=> Len(vector_clocks[t]) = 0
         /\ \A t \in Tid : Started(t) <=> Len(vector_clocks[t]) >= 1
         /\ \A t \in Tid : \A i \in 1 .. Len(vector_clocks[t]) :
              IsClock(vector_clocks[t][i], Tid)
         /\ \A t \in Tid : \A i, j \in 1 .. Len(vector_clocks[t]) :
              i <= j => past[t][i] \subseteq past[t][j]
<1>1. \A t \in Tid : Len(vector_clocks[t]) \in Nat
  BY ClockFacts DEF ThreadsInv
<1>2. \A t \in Tid : /\ Started(t) => /\ Len(past[t]) = Len(vector_clocks[t])
                                       /\ Len(vector_clocks[t]) >= 1
                     /\ ~Started(t) => Len(vector_clocks[t]) = 0
  BY DEF ThreadsInv, OrderInv, GroundInv, SegmentsCounted
<1>3. \A t \in Tid : Started(t) <=> Len(vector_clocks[t]) >= 1
  BY <1>1, <1>2
<1>4. \A t \in Tid : vector_clocks[t] = <<>> <=> Len(vector_clocks[t]) = 0
  <2> SUFFICES ASSUME NEW t \in Tid
               PROVE  vector_clocks[t] = <<>> <=> Len(vector_clocks[t]) = 0
    OBVIOUS
  <2>1. PICK S : S = {vector_clocks[t][i] : i \in DOMAIN vector_clocks[t]}
    OBVIOUS
  <2>2. vector_clocks[t] \in Seq(S)
    BY <2>1 DEF ThreadsInv, TypeInv, ClockInv, ClockTypes, IsClockSequence
  <2>3. QED BY <2>2
<1>5. \A t \in Tid : \A i, j \in 1 .. Len(vector_clocks[t]) :
        i <= j => past[t][i] \subseteq past[t][j]
  <2> SUFFICES ASSUME NEW t \in Tid, NEW i \in 1 .. Len(vector_clocks[t]),
                      NEW j \in 1 .. Len(vector_clocks[t]), i <= j
               PROVE  past[t][i] \subseteq past[t][j]
    OBVIOUS
  <2>1. Len(vector_clocks[t]) >= 1
    BY <1>1
  <2>2. Len(past[t]) = Len(vector_clocks[t])
    BY <1>2, <1>3, <2>1
  <2>3. QED BY <2>2 DEF ThreadsInv, SegmentInv, PastMonotone
<1>6. pc \in [Tid -> Phases]
  BY DEF ThreadsInv, TypeInv, ControlInv, ControlTypes
<1>7. \A t \in Tid : \A i \in 1 .. Len(vector_clocks[t]) : IsClock(vector_clocks[t][i], Tid)
  BY ClockFacts DEF ThreadsInv, Segments
<1>8. QED BY <1>1, <1>3, <1>4, <1>5, <1>6, <1>7

(* A step of the threads adds at most one segment to t.  It is entered by a *)
(* join, or t knows of the others what it knew before.                      *)
SegmentAdded(t) ==
  LET n == Len(vector_clocks[t])
  IN  /\ Len(vector_clocks'[t]) \in {n, n + 1}
      /\ \A i \in 1 .. n : vector_clocks'[t][i] = vector_clocks[t][i]
      /\ \A i \in 1 .. n : past'[t][i] = past[t][i]
      /\ n >= 1 /\ Len(vector_clocks'[t]) = n + 1 =>
           \/ past'[t][n + 1] # past[t][n] \cup {<<t, n + 1>>}
           \/ \A u \in Tid : u # t =>
                At(vector_clocks'[t][n + 1], u) = At(vector_clocks[t][n], u)

LEMMA SegmentGrown ==
  ASSUME ThreadsInv, NEW t \in Tid, Started(t), NEW c, NEW p, Grown(t, c, p),
         NEW n, n = Len(vector_clocks[t]),
         \/ p # past[t][n] \cup {<<t, n + 1>>}
         \/ \A u \in Tid : u # t => At(c, u) = At(vector_clocks[t][n], u)
  PROVE  \A u \in Tid : SegmentAdded(u)
<1>1. /\ \A u \in Tid : Len(vector_clocks[u]) \in Nat
      /\ \A u \in Tid : Started(u) <=> Len(vector_clocks[u]) >= 1
  BY SegmentFacts
<1>2. /\ Len(vector_clocks'[t]) = n + 1 /\ vector_clocks'[t][n + 1] = c
      /\ \A i \in 1 .. n : vector_clocks'[t][i] = vector_clocks[t][i]
      /\ \A u \in Tid : u # t => vector_clocks'[u] = vector_clocks[u]
  BY DEF Grown, Segments
<1>3. Len(past[t]) = n
  BY DEF ThreadsInv, OrderInv, GroundInv, SegmentsCounted
<1>4. /\ past'[t][n + 1] = p
      /\ \A i \in 1 .. n : past'[t][i] = past[t][i]
      /\ \A u \in Tid : u # t => past'[u] = past[u]
  BY <1>3 DEF Grown
<1>5. SegmentAdded(t)
  BY <1>2, <1>4 DEF SegmentAdded
<1>6. ASSUME NEW u \in Tid, u # t PROVE SegmentAdded(u)
  <2>1. /\ vector_clocks'[u] = vector_clocks[u] /\ past'[u] = past[u]
        /\ Len(vector_clocks[u]) \in Nat
    BY <1>1, <1>2, <1>4, <1>6
  <2>2. QED BY <2>1 DEF SegmentAdded
<1>7. QED BY <1>5, <1>6

LEMMA SegmentsKept ==
  ASSUME ThreadsInv, [Next]_vars
  PROVE  \A t \in Tid : SegmentAdded(t)
<1>0. /\ TypeInv /\ OrderInv /\ GroundInv /\ SegmentInv /\ EndUnknown /\ JoinedOnce
      /\ SegmentsCounted
  BY DEF ThreadsInv, OrderInv, GroundInv, SegmentInv
<1>1. /\ \A u \in Tid : Len(vector_clocks[u]) \in Nat
      /\ \A u \in Tid : vector_clocks[u] = <<>> <=> Len(vector_clocks[u]) = 0
      /\ \A u \in Tid : Started(u) <=> Len(vector_clocks[u]) >= 1
  BY SegmentFacts
<1>2. ASSUME UNCHANGED <<vector_clocks, past>>
      PROVE  \A t \in Tid : SegmentAdded(t)
  BY <1>1, <1>2 DEF SegmentAdded
<1>3. ASSUME NEW t \in Tid, CreateBegin(t) \/ ThreadExit(t)
      PROVE  \A u \in Tid : SegmentAdded(u)
  <2>1. PICK n : n = Len(vector_clocks[t])
    OBVIOUS
  <2>2. Started(t)
    BY <1>3 DEF CreateBegin, ThreadExit, Started
  <2>3. PICK L : L = vector_clocks[t][n]
    OBVIOUS
  <2>4. Last(vector_clocks[t]) = L /\ IsClock(L, Tid) /\ Len(past[t]) = n
    BY <1>0, <2>1, <2>2, <2>3, Current
  <2>5. PICK d : d = Tick(L, t)
    OBVIOUS
  <2>6. PICK c : NewSegment(t, c, {}) /\ (c = Tick(d, t) \/ c = d)
    BY <1>3, <2>4, <2>5 DEF CreateBegin, ThreadExit, ClockAfterCreate, ClockForChild
  <2>7. \A u \in Tid : u # t => At(c, u) = At(L, u)
    <3>1. \A u \in Tid : u # t => At(d, u) = At(L, u)
      BY <2>4, <2>5, AtTick
    <3>2. IsClock(d, Tid)
      BY <2>4, <2>5, TickIsClock
    <3>3. \A u \in Tid : u # t => At(Tick(d, t), u) = At(d, u)
      BY <3>2, AtTick
    <3>4. QED BY <2>6, <3>1, <3>3
  <2>8. PICK none : none = {}
    OBVIOUS
  <2>9. NewSegment(t, c, none)
    BY <2>6, <2>8
  <2>10. Grown(t, c, past[t][Len(past[t])] \cup none \cup {<<t, Len(past[t]) + 1>>})
    BY <1>0, <2>2, <2>8, <2>9, Grows
  <2>11. QED BY <2>1, <2>2, <2>3, <2>7, <2>10, SegmentGrown
<1>4. ASSUME NEW t \in Tid, JoinEnd(t)
      PROVE  \A u \in Tid : SegmentAdded(u)
  <2>1. PICK n : n = Len(vector_clocks[t])
    OBVIOUS
  <2>2. Started(t) /\ pc[t] = "joining"
    BY <1>4 DEF JoinEnd, Started
  <2>3. n \in Nat /\ n >= 1 /\ Len(past[t]) = n
    BY <1>0, <2>1, <2>2, Current
  <2>4. PICK q \in Tid : q = joining[t] /\ pc[q] = "exited"
    BY <1>0, <2>2 DEF GroundInv, EndingOK
  <2>5. PICK m : m = Len(past[q])
    OBVIOUS
  <2>6. Started(q) /\ q # t
    BY <2>2, <2>4 DEF Started
  <2>7. PICK more : more = Last(past[q])
    OBVIOUS
  <2>8. m \in Nat /\ m >= 1 /\ more = past[q][m] /\ <<q, m>> \in past[q][m]
    <3>1. Len(vector_clocks[q]) = m /\ m \in Nat /\ m >= 1
      BY <1>0, <1>1, <2>5, <2>6 DEF SegmentsCounted
    <3>2. more = past[q][m]
      BY <2>5, <2>7 DEF Last
    <3>3. QED BY <1>0, <2>5, <3>1, <3>2 DEF GroundInv, OwnPast
  <2>9. PICK c : NewSegment(t, c, more)
    <3>1. PICK exit_tid \in Lookups(handle[joining[t]]) :
            NewSegment(t, ClockAfterJoin(Last(vector_clocks[t]), t,
                                         exit_threads_clock[exit_tid]),
                       Last(past[joining[t]]))
      BY <1>4 DEF JoinEnd
    <3>2. Last(past[joining[t]]) = more
      BY <2>4, <2>7
    <3>3. PICK c : c = ClockAfterJoin(Last(vector_clocks[t]), t,
                                      exit_threads_clock[exit_tid])
      OBVIOUS
    <3>4. NewSegment(t, c, more)
      BY <3>1, <3>2, <3>3, Zenon
    <3>5. QED BY <3>4
  <2>10. more \in SUBSET (Tid \X Nat)
    <3>1. past[q] \in Seq(SUBSET (Tid \X Nat))
      BY <1>0 DEF TypeInv, HistoryInv, HistoryTypes
    <3>2. PICK S : S = SUBSET (Tid \X Nat)
      OBVIOUS
    <3>3. past[q] \in Seq(S)
      BY <3>1, <3>2
    <3>4. past[q][m] \in S
      BY <2>5, <2>8, <3>3
    <3>5. QED BY <2>8, <3>2, <3>4
  <2>11. PICK p : p = past[t][n] \cup more \cup {<<t, n + 1>>}
    OBVIOUS
  <2>12. Grown(t, c, p)
    BY <1>0, <2>2, <2>3, <2>9, <2>10, <2>11, Grows
\* The end of the joined thread is new to t.
  <2>13. Awaited(q)
    BY <2>4 DEF Awaited
  <2>14. <<q, m>> \notin past[t][n]
    <3>1. n \in 1 .. Len(past[t])
      BY <2>3
    <3>2. QED BY <1>0, <2>5, <2>6, <2>13, <3>1 DEF EndUnknown
  <2>15. p # past[t][n] \cup {<<t, n + 1>>}
    BY <2>6, <2>8, <2>11, <2>14
  <2>16. QED BY <2>1, <2>2, <2>12, <2>15, SegmentGrown
<1>5. ASSUME NEW t \in Tid, ThreadStartInit(t)
      PROVE  \A u \in Tid : SegmentAdded(u)
  <2>1. PICK F : vector_clocks' = [vector_clocks EXCEPT ![t] = Append(@, F)]
    BY <1>5 DEF ThreadStartInit
  <2>2. past' = past /\ pc[t] = "signalled"
    BY <1>5 DEF ThreadStartInit, ghosts
  <2>3. vector_clocks[t] = <<>> /\ Len(vector_clocks[t]) = 0
    BY <1>1, <2>2 DEF Started
  <2>4. /\ vector_clocks'[t] = <<F>>
        /\ \A u \in Tid : u # t => vector_clocks'[u] = vector_clocks[u]
    BY <1>0, <2>1, <2>3 DEF TypeInv, ClockInv, ClockTypes
  <2>5. SegmentAdded(t)
    <3>1. Len(vector_clocks'[t]) = 1
      BY <2>4
    <3>2. QED BY <2>2, <2>3, <3>1 DEF SegmentAdded
  <2>6. ASSUME NEW u \in Tid, u # t PROVE SegmentAdded(u)
    BY <1>1, <2>2, <2>4, <2>6 DEF SegmentAdded
  <2>7. QED BY <2>5, <2>6
<1>6. ASSUME NEW t \in Tid, CreateOriginal(t)
      PROVE  \A u \in Tid : SegmentAdded(u)
  <2>1. PICK child \in Tid :
          /\ ~Exists(child)
          /\ past' = [past EXCEPT ![child] =
                        << past[t][Len(past[t]) - 1] \cup {<<child, 1>>} >>]
    BY <1>6 DEF CreateOriginal
  <2>2. vector_clocks' = vector_clocks
    BY <1>6 DEF CreateOriginal
  <2>3. Len(vector_clocks[child]) = 0
    BY <1>0, <2>1 DEF SegmentsCounted, Started, Exists
  <2>4. \A u \in Tid : u # child => past'[u] = past[u]
    BY <1>0, <2>1 DEF TypeInv, HistoryInv, HistoryTypes
  <2>5. \A u \in Tid : \A i \in 1 .. Len(vector_clocks[u]) : past'[u][i] = past[u][i]
    <3> SUFFICES ASSUME NEW u \in Tid, NEW i \in 1 .. Len(vector_clocks[u])
                 PROVE  past'[u][i] = past[u][i]
      OBVIOUS
    <3>1. CASE u = child
      <4>1. i \in 1 .. 0
        BY <2>3, <3>1, Zenon
      <4>2. QED BY <4>1
    <3>2. CASE u # child
      BY <2>4, <3>2
    <3>3. QED BY <3>1, <3>2
  <2>6. QED BY <1>1, <2>2, <2>5 DEF SegmentAdded
<1>7. ASSUME NEW t \in Tid,
             CreateFail(t) \/ CreateWait(t) \/ CreateMap(t) \/ ThreadStartSignal(t)
               \/ JoinOriginal(t)
      PROVE  UNCHANGED <<vector_clocks, past>>
  BY <1>7 DEF CreateFail, CreateWait, CreateMap, ThreadStartSignal, JoinOriginal,
              ghosts, handshake, maps, library
<1>8. UNCHANGED vars => UNCHANGED <<vector_clocks, past>>
  BY DEF vars, ghosts
<1>9. QED
  BY <1>2, <1>3, <1>4, <1>5, <1>6, <1>7, <1>8 DEF Next, Step, Finished

(* When u made its j-th segment it had not been heard of by the e-th of t,  *)
(* nor t's e-th by u's, unless t has joined a thread since its segment      *)
(* `begin`.                                                                 *)
Apart(t, begin, e, u, j) ==
  /\ Stamp(u, j, t) < Stamp(t, e, t)
  /\ \/ \E i \in begin + 1 .. e : Gains(t, i)
     \/ Stamp(t, e, u) < Stamp(u, j, u)

(* Two threads that run are apart.                                          *)
LEMMA ApartNow ==
  ASSUME ThreadsInv, NEW t \in Tid, NEW u \in Tid, t # u, NEW begin,
         pc[t] \notin {"none", "starting", "signalled", "exited"},
         pc[u] \notin {"none", "starting", "signalled", "exited"}
  PROVE  Apart(t, begin, Len(vector_clocks[t]), u, Len(vector_clocks[u]))
<1>1. Running(t) /\ Running(u) /\ Ahead
  BY DEF Running, Started, ThreadsInv, SegmentInv
<1>2. /\ Len(vector_clocks[t]) \in Nat /\ Len(vector_clocks[t]) >= 1
      /\ Len(vector_clocks[u]) \in Nat /\ Len(vector_clocks[u]) >= 1
  BY <1>1, SegmentFacts DEF Running
<1>3. /\ Len(vector_clocks[t]) \in Segments(t) /\ Len(vector_clocks[u]) \in Segments(u)
  BY <1>2 DEF Segments
<1>4. /\ Own(t) = Stamp(t, Len(vector_clocks[t]), t)
      /\ Own(u) = Stamp(u, Len(vector_clocks[u]), u)
  BY <1>2 DEF Own
<1>5. QED BY <1>1, <1>3, <1>4 DEF Ahead, Apart

LEMMA ClockFactsNext ==
  ASSUME ThreadsInv'
  PROVE  \A t \in Tid : \A i \in Segments(t)' : IsClock(vector_clocks'[t][i], Tid)
<1> SUFFICES ASSUME NEW t \in Tid, NEW i \in Segments(t)'
             PROVE  IsClock(vector_clocks'[t][i], Tid)
  OBVIOUS
<1>1. IsClockSequence(vector_clocks[t])'
  BY DEF ThreadsInv, TypeInv, ClockInv, ClockTypes
<1>2. PICK s : s = vector_clocks'[t]
  OBVIOUS
<1>3. PICK S : S = {s[k] : k \in DOMAIN s}
  OBVIOUS
<1>4. s \in Seq(S) /\ \A k \in DOMAIN s : IsClock(s[k], Tid)
  BY <1>1, <1>2, <1>3 DEF IsClockSequence
<1>5. i \in DOMAIN s
  BY <1>2, <1>4 DEF Segments
<1>6. QED BY <1>2, <1>4, <1>5

(* They stay so, also as t goes on.                                         *)
LEMMA ApartKept ==
  ASSUME ThreadsInv, ThreadsInv', [Next]_vars,
         NEW t \in Tid, NEW u \in Tid, t # u, NEW begin \in Nat, begin >= 1,
         NEW e \in 1 .. Len(vector_clocks[t]), NEW j \in 1 .. Len(vector_clocks[u]),
         begin <= e, Apart(t, begin, e, u, j), NEW m, m = Len(vector_clocks'[t])
  PROVE  /\ Apart(t, begin, e, u, j)'
         /\ e = Len(vector_clocks[t]) => Apart(t, begin, m, u, j)'
<1>1. PICK n : n = Len(vector_clocks[t])
  OBVIOUS
<1>2. /\ n \in Nat /\ e \in Nat /\ e >= 1 /\ e <= n
      /\ j \in Nat /\ j >= 1 /\ j <= Len(vector_clocks[u])
      /\ Len(vector_clocks[u]) \in Nat /\ Len(vector_clocks'[u]) \in Nat
  <2>1. /\ Len(vector_clocks[t]) \in Nat /\ Len(vector_clocks[u]) \in Nat
        /\ \A x \in Tid : SegmentAdded(x)
    BY SegmentsKept, SegmentFacts
  <2>2. Len(vector_clocks'[u]) \in {Len(vector_clocks[u]), Len(vector_clocks[u]) + 1}
    BY <2>1 DEF SegmentAdded
  <2>3. QED BY <1>1, <2>1, <2>2
<1>3. /\ m \in {n, n + 1}
      /\ \A i \in 1 .. n : vector_clocks'[t][i] = vector_clocks[t][i]
      /\ \A i \in 1 .. n : past'[t][i] = past[t][i]
      /\ m = n + 1 =>
           \/ past'[t][n + 1] # past[t][n] \cup {<<t, n + 1>>}
           \/ \A v \in Tid : v # t =>
                At(vector_clocks'[t][n + 1], v) = At(vector_clocks[t][n], v)
      /\ vector_clocks'[u][j] = vector_clocks[u][j]
      /\ j <= Len(vector_clocks'[u])
  <2>1. SegmentAdded(t) /\ SegmentAdded(u)
    BY SegmentsKept
  <2>2. n >= 1
    BY <1>2
  <2>3. /\ vector_clocks'[u][j] = vector_clocks[u][j]
        /\ Len(vector_clocks'[u]) \in {Len(vector_clocks[u]), Len(vector_clocks[u]) + 1}
    BY <2>1 DEF SegmentAdded
  <2>4. QED BY <1>1, <1>2, <2>1, <2>2, <2>3 DEF SegmentAdded
<1>4. /\ \A v \in Tid : Stamp(t, e, v)' = Stamp(t, e, v)
      /\ \A v \in Tid : Stamp(u, j, v)' = Stamp(u, j, v)
  BY <1>2, <1>3 DEF Stamp
<1>5. ASSUME NEW i \in begin + 1 .. e, Gains(t, i)
      PROVE  Gains(t, i)'
  <2>1. i \in 1 .. n /\ i - 1 \in 1 .. n
    BY <1>2, <1>5
  <2>2. past'[t][i] = past[t][i] /\ past'[t][i - 1] = past[t][i - 1]
    BY <1>3, <2>1
  <2>3. QED BY <1>5, <2>2 DEF Gains
<1>6. Apart(t, begin, e, u, j)'
  <2>1. CASE \E i \in begin + 1 .. e : Gains(t, i)
    <3>1. \E i \in begin + 1 .. e : Gains(t, i)'
      BY <1>5, <2>1
    <3>2. QED BY <1>4, <3>1 DEF Apart
  <2>2. CASE Stamp(t, e, u) < Stamp(u, j, u)
    BY <1>4, <2>2 DEF Apart
  <2>3. QED BY <2>1, <2>2 DEF Apart
<1>7. ASSUME e = n, m = n + 1
      PROVE  Apart(t, begin, m, u, j)'
  <2>1. /\ n \in Segments(t)' /\ m \in Segments(t)' /\ n < m
        /\ j \in Segments(u)'
    BY <1>2, <1>3, <1>7 DEF Segments
  <2>2. Stamp(t, n, t)' < Stamp(t, m, t)'
    BY <2>1 DEF ThreadsInv, OrderInv, GroundInv, OwnGrows
  <2>3. /\ Stamp(t, n, t)' \in Nat /\ Stamp(t, m, t)' \in Nat
        /\ Stamp(u, j, t)' \in Nat
    <3>1. /\ IsClock(vector_clocks'[t][n], Tid) /\ IsClock(vector_clocks'[t][m], Tid)
          /\ IsClock(vector_clocks'[u][j], Tid)
      BY <2>1, ClockFactsNext
    <3>2. QED BY <3>1 DEF Stamp, IsClock, At
  <2>4. Stamp(u, j, t)' < Stamp(t, m, t)'
    BY <1>6, <1>7, <2>2, <2>3 DEF Apart
  <2>5. CASE \E i \in begin + 1 .. e : Gains(t, i)
    <3>1. PICK i \in begin + 1 .. e : Gains(t, i)'
      BY <1>5, <2>5
    <3>2. i \in begin + 1 .. m
      BY <1>2, <1>7
    <3>3. QED BY <2>4, <3>1, <3>2 DEF Apart
  <2>6. CASE Stamp(t, e, u) < Stamp(u, j, u)
    <3>1. CASE past'[t][n + 1] # past[t][n] \cup {<<t, n + 1>>}
      <4>1. Gains(t, m)'
        <5>1. m - 1 = n
          BY <1>2, <1>7
        <5>2. QED BY <1>3, <1>7, <3>1, <5>1, <1>2 DEF Gains
      <4>2. m \in begin + 1 .. m
        BY <1>2, <1>7
      <4>3. QED BY <2>4, <4>1, <4>2 DEF Apart
    <3>2. CASE \A v \in Tid : v # t =>
                 At(vector_clocks'[t][n + 1], v) = At(vector_clocks[t][n], v)
      <4>1. Stamp(t, m, u)' = Stamp(t, e, u)
        BY <1>7, <3>2 DEF Stamp
      <4>2. Stamp(t, m, u)' < Stamp(u, j, u)'
        BY <1>4, <2>6, <4>1
      <4>3. QED BY <2>4, <4>2 DEF Apart
    <3>3. QED BY <1>3, <1>7, <3>1, <3>2
  <2>7. QED BY <2>5, <2>6 DEF Apart
<1>8. QED BY <1>1, <1>2, <1>3, <1>6, <1>7

(* Threads that are apart are concurrent to the tool, unless the clocks say *)
(* too much and t has joined a thread, or the second segment is before the  *)
(* first.                                                                   *)
LEMMA ApartConcurrent ==
  ASSUME ThreadsInv, NEW t \in Tid, NEW u \in Tid, t # u, NEW begin,
         NEW e \in 1 .. Len(vector_clocks[t]), NEW j \in 1 .. Len(vector_clocks[u]),
         Apart(t, begin, e, u, j), ~misjoined,
         overtaken = {} \/ ~\E i \in begin + 1 .. e : Gains(t, i),
         <<u, j>> \notin past[t][e]
  PROVE  ~Leq(vector_clocks[t][e], vector_clocks[u][j]) /\
         ~Leq(vector_clocks[u][j], vector_clocks[t][e])
<1>1. /\ e \in Segments(t) /\ j \in Segments(u)
      /\ IsClock(vector_clocks[t][e], Tid) /\ IsClock(vector_clocks[u][j], Tid)
  BY SegmentFacts DEF Segments
<1>2. \A x, y \in Tid : \A i \in Segments(x) : Stamp(x, i, y) \in Nat
  BY ClockFacts DEF ThreadsInv
<1>3. ~Below(vector_clocks[t][e], vector_clocks[u][j])
  BY <1>1, <1>2 DEF Apart, Below, Stamp
<1>4. Stamp(t, e, u) < Stamp(u, j, u)
  <2>1. CASE overtaken = {}
    <3>1. Known
      BY <2>1 DEF ThreadsInv, OrderInv, KnownInv
    <3>2. ~(Stamp(u, j, u) <= Stamp(t, e, u))
      BY <1>1, <3>1 DEF Known
    <3>3. QED BY <1>1, <1>2, <3>2
  <2>2. CASE ~\E i \in begin + 1 .. e : Gains(t, i)
    BY <2>2 DEF Apart
  <2>3. QED BY <2>1, <2>2
<1>5. ~Below(vector_clocks[u][j], vector_clocks[t][e])
  BY <1>1, <1>2, <1>4 DEF Below, Stamp
<1>6. QED BY <1>1, <1>3, <1>5, LeqBelow
=============================================================================
