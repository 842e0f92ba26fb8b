---------------------------- MODULE HawkSetProofs ----------------------------
(***************************************************************************)
(* What the tool as a whole reports, for any application, any number of    *)
(* threads, locks and bytes, and any limit of the heuristic.               *)
(*                                                                         *)
(* The proofs rest on those about its parts: TP for the threads, RP for    *)
(* the race analysis, and IP for the heuristic.                            *)
(***************************************************************************)
EXTENDS HawkSet, FiniteSetTheorems, TLAPS

TP == INSTANCE ThreadClocksProofs
IP == INSTANCE IrhTrackerProofs WITH
        Thread <- Tid, MaxSize <- 1, TidBits <- 1, aborted <- analysed,
        asked <- accessors, inside <- caught, ignored_at <- now,
        reported_at <- now

-----------------------------------------------------------------------------
(* The threads behave as ThreadClocks has it                               *)

LEMMA SameClocks ==
  /\ T!EmptyClock = TP!EmptyClock
  /\ \A c, t : T!Tick(c, t) = TP!Tick(c, t)
  /\ \A c, d : T!Merge(c, d) = TP!Merge(c, d)
  /\ \A s : T!Last(s) = TP!Last(s)
<1>1. T!EmptyClock = TP!EmptyClock
  BY DEF T!EmptyClock, TP!EmptyClock
<1>2. \A c, t : T!Tick(c, t) = TP!Tick(c, t)
  BY DEF T!Tick, TP!Tick, T!At, TP!At
<1>3. \A c, d : T!Merge(c, d) = TP!Merge(c, d)
  BY DEF T!Merge, TP!Merge
<1>4. \A s : T!Last(s) = TP!Last(s)
  BY DEF T!Last, TP!Last
<1>5. QED BY <1>1, <1>2, <1>3, <1>4

LEMMA ThreadsStart == Init => TP!Init
<1>1. T!Init => TP!Init
  BY SameClocks
  DEF T!Init, TP!Init, T!Tid, TP!Tid, T!Main, TP!Main, T!NoTid, TP!NoTid
<1>2. QED BY <1>1 DEF Init

LEMMA SameSegments ==
  ASSUME NEW t, NEW c, NEW more
  PROVE  T!NewSegment(t, c, more) <=> TP!NewSegment(t, c, more)
BY SameClocks DEF T!NewSegment, TP!NewSegment, T!Last, TP!Last

LEMMA SameActions ==
  ASSUME NEW t \in Tid
  PROVE  /\ T!CreateBegin(t) <=> TP!CreateBegin(t)
         /\ T!CreateOriginal(t) <=> TP!CreateOriginal(t)
         /\ T!CreateWait(t) <=> TP!CreateWait(t)
         /\ T!CreateMap(t) <=> TP!CreateMap(t)
         /\ T!ThreadStartSignal(t) <=> TP!ThreadStartSignal(t)
         /\ T!ThreadStartInit(t) <=> TP!ThreadStartInit(t)
         /\ T!JoinOriginal(t) <=> TP!JoinOriginal(t)
         /\ T!JoinEnd(t) <=> TP!JoinEnd(t)
         /\ T!ThreadExit(t) <=> TP!ThreadExit(t)
<1> USE DEF T!handshake, TP!handshake, T!maps, TP!maps, T!library, TP!library,
            T!ghosts, TP!ghosts, T!Tid, TP!Tid, T!Main, TP!Main, T!NoTid, TP!NoTid
<1>1. T!CreateBegin(t) <=> TP!CreateBegin(t)
  BY DEF T!CreateBegin, TP!CreateBegin, T!ClockForChild, TP!ClockForChild,
         T!ClockAfterCreate, TP!ClockAfterCreate, T!NewSegment, TP!NewSegment,
         T!Last, TP!Last, T!Tick, TP!Tick, T!At, TP!At, T!Unread, TP!Unread
<1>2. T!CreateOriginal(t) <=> TP!CreateOriginal(t)
  BY DEF T!CreateOriginal, TP!CreateOriginal, T!Exists, TP!Exists, T!Owns, TP!Owns
<1>3. T!CreateWait(t) <=> TP!CreateWait(t)
  BY DEF T!CreateWait, TP!CreateWait, T!SemaphoreAfterWait, TP!SemaphoreAfterWait
<1>4. T!CreateMap(t) <=> TP!CreateMap(t)
  BY DEF T!CreateMap, TP!CreateMap
<1>5. T!ThreadStartSignal(t) <=> TP!ThreadStartSignal(t)
  BY DEF T!ThreadStartSignal, TP!ThreadStartSignal, T!SemaphoreAfterStart,
         TP!SemaphoreAfterStart
<1>6. T!ThreadStartInit(t) <=> TP!ThreadStartInit(t)
  BY DEF T!ThreadStartInit, TP!ThreadStartInit, T!FirstClock, TP!FirstClock,
         T!Tick, TP!Tick, T!At, TP!At, T!EmptyClock, TP!EmptyClock
<1>7. T!JoinOriginal(t) <=> TP!JoinOriginal(t)
  BY DEF T!JoinOriginal, TP!JoinOriginal
<1>8. T!JoinEnd(t) <=> TP!JoinEnd(t)
  BY DEF T!JoinEnd, TP!JoinEnd, T!Lookups, TP!Lookups, T!NewSegment,
         TP!NewSegment, T!ClockAfterJoin, TP!ClockAfterJoin, T!Last, TP!Last,
         T!Merge, TP!Merge, T!Tick, TP!Tick, T!At, TP!At
<1>9. T!ThreadExit(t) <=> TP!ThreadExit(t)
  BY DEF T!ThreadExit, TP!ThreadExit, T!NewSegment, TP!NewSegment, T!Last,
         TP!Last, T!Tick, TP!Tick, T!At, TP!At
<1>10. QED BY <1>1, <1>2, <1>3, <1>4, <1>5, <1>6, <1>7, <1>8, <1>9

(* The threads of an application move as ThreadClocks lets them.            *)
LEMMA ThreadsMove == [Next]_vars => [TP!Next]_(TP!vars)
<1> SUFFICES ASSUME [Next]_vars PROVE [TP!Next]_(TP!vars)
  OBVIOUS
<1>1. UNCHANGED threads => UNCHANGED TP!vars
  BY DEF threads, TP!vars, TP!handshake, TP!maps, TP!library, TP!ghosts
<1>2. UNCHANGED vars \/ Analyse \/ Finished => UNCHANGED threads
  BY DEF vars, Analyse, Finished
<1>3. ASSUME NEW t \in Tid, Step(t)
      PROVE  UNCHANGED threads \/ TP!Step(t)
  <2>1. Store(t) \/ RMW(t) \/ Load(t) \/ Flush(t) \/ Fence(t) \/ Acquire(t)
          \/ Release(t) \/ Publish(t) \/ Await(t) => UNCHANGED threads
    BY DEF Store, RMW, Load, Flush, Fence, Acquire, Release, Publish, Await
  <2>2. CreateBegin(t) \/ CreateOriginal(t) \/ CreateWait(t) \/ CreateMap(t)
          \/ ThreadStart(t) \/ JoinOriginal(t) \/ JoinEnd(t) \/ ThreadExit(t)
          => \/ T!CreateBegin(t) \/ T!CreateOriginal(t) \/ T!CreateWait(t)
             \/ T!CreateMap(t) \/ T!ThreadStartSignal(t)
             \/ T!ThreadStartInit(t) \/ T!JoinOriginal(t) \/ T!JoinEnd(t)
             \/ T!ThreadExit(t)
    BY DEF CreateBegin, CreateOriginal, CreateWait, CreateMap, ThreadStart,
           JoinOriginal, JoinEnd, ThreadExit
  <2>3. QED BY <1>3, <2>1, <2>2, SameActions DEF Step, TP!Step
<1>4. Tid = TP!Tid
  BY DEF Tid, TP!Tid
<1>5. QED BY <1>1, <1>2, <1>3, <1>4 DEF Next, TP!Next

(* Whatever the application does, its threads behave as ThreadClocks has    *)
(* it: the handlers of stores, loads and locks leave clocks and handshakes  *)
(* alone, and those of creation, join and exit are its own.  What is proved *)
(* of the threads by themselves thus holds in the tool as a whole.          *)
THEOREM ThreadsImplemented == Spec => TP!Spec
<1>1. Init => TP!Init
  BY ThreadsStart
<1>2. [Next]_vars => [TP!Next]_(TP!vars)
  BY ThreadsMove
<1>3. QED BY <1>1, <1>2, PTL DEF Spec, TP!Spec

LEMMA ClocksHold ==
  Spec => [](TP!ThreadsInv /\ TP!NoFalseConcurrency /\ TP!ClocksExact)
<1>1. TP!Spec => [](TP!TypeInv /\ TP!OrderInv /\ TP!SegmentInv)
  BY HawkSetAssumption, TP!SegmentsOrdered
<1>2. TP!Spec => []TP!NoFalseConcurrency
  BY HawkSetAssumption, TP!NoConcurrencyInvented
<1>3. TP!Spec => []TP!ClocksExact
  BY HawkSetAssumption, TP!ClocksAreExact
<1>4. QED BY <1>1, <1>2, <1>3, ThreadsImplemented, PTL DEF TP!ThreadsInv

-----------------------------------------------------------------------------
(* The heuristic                                                           *)

Public(A, b) == Cardinality(A[b]) > N

\* The heuristic has been asked about each byte b by the threads A[b].
HeuristicOK(i, A) ==
  N # 0 => /\ IP!MapOK(i.map)
           /\ \A b \in Byte : /\ A[b] \subseteq DOMAIN i.map
                              /\ IP!Bits(i, b) = IP!BitsOf(i.map, A[b])

LEMMA SameCardinality ==
  /\ \A S : IP!IsFiniteSet(S) <=> IsFiniteSet(S)
  /\ \A S : IP!Cardinality(S) = Cardinality(S)
  /\ \A S : P!Cardinality(S) = IP!Cardinality(S)
  /\ \A S : Q!Cardinality(S) = IP!Cardinality(S)
<1>1. \A S : IP!IsFiniteSet(S) <=> IsFiniteSet(S)
  BY DEF IP!IsFiniteSet, IsFiniteSet
<1>2. \A S : IP!Cardinality(S) = Cardinality(S)
  BY DEF IP!Cardinality, Cardinality
<1>3. \A S : P!Cardinality(S) = IP!Cardinality(S)
  BY DEF P!Cardinality, IP!Cardinality
<1>4. \A S : Q!Cardinality(S) = IP!Cardinality(S)
  BY DEF Q!Cardinality, IP!Cardinality
<1>5. QED BY <1>1, <1>2, <1>3, <1>4

LEMMA SameBits ==
  /\ P!Unseen = IP!Unseen /\ Q!Unseen = IP!Unseen
  /\ \A i, b : P!Bits(i, b) = IP!Bits(i, b) /\ Q!Bits(i, b) = IP!Bits(i, b)
  /\ \A i, t : P!IndexOf(i, t) = IP!IndexOf(i, t) /\ Q!IndexOf(i, t) = IP!IndexOf(i, t)
  /\ \A x, i, n : /\ P!BitsAfter(x, i, n) = IP!BitsAfter(x, i, n)
                  /\ Q!BitsAfter(x, i, n) = IP!BitsAfter(x, i, n)
                  /\ P!IgnoreAnswer(x, i, n) <=> IP!IgnoreAnswer(x, i, n)
                  /\ Q!IgnoreAnswer(x, i, n) <=> IP!IgnoreAnswer(x, i, n)
<1>1. P!Unseen = IP!Unseen /\ Q!Unseen = IP!Unseen
  BY DEF P!Unseen, IP!Unseen, Q!Unseen
<1>2. \A i, b : P!Bits(i, b) = IP!Bits(i, b) /\ Q!Bits(i, b) = IP!Bits(i, b)
  BY <1>1 DEF P!Bits, IP!Bits, Q!Bits
<1>3. \A i, t : P!IndexOf(i, t) = IP!IndexOf(i, t) /\ Q!IndexOf(i, t) = IP!IndexOf(i, t)
  BY SameCardinality DEF P!IndexOf, IP!IndexOf, Q!IndexOf
<1>4. \A x, i, n : /\ P!BitsAfter(x, i, n) = IP!BitsAfter(x, i, n)
                   /\ Q!BitsAfter(x, i, n) = IP!BitsAfter(x, i, n)
  BY <1>1, SameCardinality DEF P!BitsAfter, IP!BitsAfter, Q!BitsAfter
<1>5. \A x, i, n : /\ P!IgnoreAnswer(x, i, n) <=> IP!IgnoreAnswer(x, i, n)
                   /\ Q!IgnoreAnswer(x, i, n) <=> IP!IgnoreAnswer(x, i, n)
  BY <1>1, SameCardinality DEF P!IgnoreAnswer, IP!IgnoreAnswer, Q!IgnoreAnswer
<1>6. QED BY <1>1, <1>2, <1>3, <1>4, <1>5

LEMMA SameQueries ==
  ASSUME NEW i, NEW t, NEW S, NEW n
  PROVE  /\ P!IgnoreAccess(i, t, S, n) = IP!IgnoreAccess(i, t, S, n)
         /\ Q!IgnoreAccess(i, t, S, n) = IP!IgnoreAccess(i, t, S, n)
<1>1. PICK x : x = IP!IndexOf(i, t)
  OBVIOUS
<1>2. /\ [b \in DOMAIN i.acc \cup S |->
            IF b \in S THEN P!BitsAfter(P!Bits(i, b), x, n) ELSE i.acc[b]] =
         [b \in DOMAIN i.acc \cup S |->
            IF b \in S THEN IP!BitsAfter(IP!Bits(i, b), x, n) ELSE i.acc[b]]
      /\ [b \in DOMAIN i.acc \cup S |->
            IF b \in S THEN Q!BitsAfter(Q!Bits(i, b), x, n) ELSE i.acc[b]] =
         [b \in DOMAIN i.acc \cup S |->
            IF b \in S THEN IP!BitsAfter(IP!Bits(i, b), x, n) ELSE i.acc[b]]
  BY SameBits
<1>3. P!IndexOf(i, t) = x /\ Q!IndexOf(i, t) = x
  BY <1>1, SameBits
<1>4. QED BY <1>1, <1>2, <1>3 DEF P!IgnoreAccess, IP!IgnoreAccess, Q!IgnoreAccess

LEMMA SameHeuristic ==
  /\ P!InitialIrh = IP!InitialIrh
  /\ \A i, t, S : /\ P!AfterBytes(i, t, S, N) = IP!AfterBytes(i, t, S, N)
                  /\ P!ReportedBytes(i, t, S, N) = IP!ReportedBytes(i, t, S, N)
                  /\ Q!AfterBytes(i, t, S, N) = IP!AfterBytes(i, t, S, N)
                  /\ Q!ReportedBytes(i, t, S, N) = IP!ReportedBytes(i, t, S, N)
  /\ \A i, t, b : /\ P!HandleAccess(i, t, b, 1, N) = IP!HandleAccess(i, t, b, 1, N)
                  /\ Q!HandleAccess(i, t, b, 1, N) = IP!HandleAccess(i, t, b, 1, N)
<1>1. P!InitialIrh = IP!InitialIrh
  BY DEF P!InitialIrh, IP!InitialIrh
<1>2. \A i, t, S : /\ P!AfterBytes(i, t, S, N) = IP!AfterBytes(i, t, S, N)
                   /\ Q!AfterBytes(i, t, S, N) = IP!AfterBytes(i, t, S, N)
  BY SameQueries DEF P!AfterBytes, IP!AfterBytes, Q!AfterBytes
<1>3. \A i, t, S : /\ P!ReportedBytes(i, t, S, N) = IP!ReportedBytes(i, t, S, N)
                   /\ Q!ReportedBytes(i, t, S, N) = IP!ReportedBytes(i, t, S, N)
  <2>1. \A i, t, b : /\ P!Ignored(i, t, b, N) <=> IP!Ignored(i, t, b, N)
                     /\ Q!Ignored(i, t, b, N) <=> IP!Ignored(i, t, b, N)
    BY SameBits DEF P!Ignored, IP!Ignored, Q!Ignored
  <2>2. QED BY <2>1 DEF P!ReportedBytes, IP!ReportedBytes, Q!ReportedBytes
<1>4. \A i, t, b : /\ P!HandleAccess(i, t, b, 1, N) = IP!HandleAccess(i, t, b, 1, N)
                   /\ Q!HandleAccess(i, t, b, 1, N) = IP!HandleAccess(i, t, b, 1, N)
  BY <1>2, SameBits DEF P!HandleAccess, IP!HandleAccess, Q!HandleAccess
<1>5. QED BY <1>1, <1>2, <1>3, <1>4

LEMMA TidFinite ==
  /\ IsFiniteSet(Tid)
  /\ \A A \in SUBSET Tid : /\ IsFiniteSet(A) /\ Cardinality(A) \in Nat
                           /\ Cardinality(A) > 0 <=> A # {}
<1>1. IsFiniteSet(Tid)
  BY HawkSetAssumption, FS_Interval DEF Tid
<1>2. ASSUME NEW A \in SUBSET Tid
      PROVE  /\ IsFiniteSet(A) /\ Cardinality(A) \in Nat
             /\ Cardinality(A) > 0 <=> A # {}
  <2>1. IsFiniteSet(A)
    BY <1>1, FS_Subset
  <2>2. Cardinality(A) \in Nat /\ (Cardinality(A) = 0 <=> A = {})
    BY <2>1, FS_CardinalityType, FS_EmptySet
  <2>3. QED BY <2>1, <2>2
<1>3. QED BY <1>1, <1>2

LEMMA HeuristicConstants ==
  /\ IsFiniteSet(Tid) /\ Byte \subseteq Nat /\ 1 \in Nat \ {0} /\ N \in Nat
BY TidFinite, HawkSetAssumption

(* Bits of an address stand for threads.                                    *)
LEMMA BitsOfThreads ==
  ASSUME NEW m, IP!MapOK(m), NEW A, A \subseteq DOMAIN m, A # {}
  PROVE  /\ IP!BitsOf(m, A) \subseteq Nat
         /\ IP!BitsOf(m, A) = {} <=> Cardinality(A) > N
         /\ IP!BitsOK(IP!BitsOf(m, A))
<1>1. IsFiniteSet(DOMAIN m) /\ Cardinality(DOMAIN m) \in Nat
  BY SameCardinality, FS_CardinalityType DEF IP!MapOK
<1>2. \A t \in DOMAIN m : m[t] \in Nat
  BY <1>1, SameCardinality DEF IP!MapOK
<1>3. {m[t] : t \in A} \subseteq Nat /\ {m[t] : t \in A} # {}
  BY <1>2
<1>4. QED BY <1>3, SameCardinality DEF IP!BitsOf, IP!BitsOK

(* Asked again by threads it knows of, it changes nothing and reports the   *)
(* bytes that are public.                                                   *)
LEMMA AskedAgain ==
  ASSUME NEW i, NEW A \in [Byte -> SUBSET Tid], HeuristicOK(i, A), NEW t,
         NEW asked, asked \subseteq Byte, \A b \in asked : t \in A[b],
         NEW k, k = IP!AfterBytes(i, t, asked, N)
  PROVE  /\ HeuristicOK(k, A)
         /\ IP!ReportedBytes(i, t, asked, N) = {b \in asked : Public(A, b)}
<1>1. \A b \in asked : /\ A[b] \subseteq Tid /\ A[b] # {} /\ Cardinality(A[b]) \in Nat
                       /\ Cardinality(A[b]) > 0
  BY TidFinite
<1>2. CASE N = 0
  <2>1. k = i /\ IP!ReportedBytes(i, t, asked, N) = asked
    BY <1>2 DEF IP!AfterBytes, IP!ReportedBytes
  <2>2. QED BY <1>1, <1>2, <2>1 DEF Public
<1>3. CASE N # 0 /\ asked = {}
  BY <1>3 DEF IP!AfterBytes, IP!ReportedBytes, IP!IgnoreAccess
<1>4. CASE N # 0 /\ asked # {}
  <2>1. PICK m : m = i.map
    OBVIOUS
  <2>2. /\ IP!MapOK(m) /\ t \in DOMAIN m
        /\ \A b \in Byte : A[b] \subseteq DOMAIN m /\ IP!Bits(i, b) = IP!BitsOf(m, A[b])
    BY <1>4, <2>1 DEF HeuristicOK
  <2>3. IP!IndexOf(i, t) = m[t] /\ m = [u \in DOMAIN m |-> m[u]]
    BY <2>1, <2>2 DEF IP!IndexOf, IP!MapOK
  <2>4. \A b \in asked : IP!BitsAfter(IP!Bits(i, b), m[t], N) = IP!BitsOf(m, A[b])
    <3> SUFFICES ASSUME NEW b \in asked
                 PROVE  IP!BitsAfter(IP!Bits(i, b), m[t], N) = IP!BitsOf(m, A[b])
      OBVIOUS
    <3>1. A[b] \cup {t} = A[b] /\ A[b] \subseteq DOMAIN m /\ IP!Bits(i, b) = IP!BitsOf(m, A[b])
      BY <2>2
    <3>2. PICK B : B = A[b]
      OBVIOUS
    <3>3. IP!BitsAfter(IP!BitsOf(m, B), m[t], N) = IP!BitsOf(m, B \cup {t})
      BY <1>4, <2>2, <3>1, <3>2, HeuristicConstants, SameCardinality, IP!BitsGrow
    <3>4. QED BY <3>1, <3>2, <3>3
  <2>5. PICK acc : acc = [b \in DOMAIN i.acc \cup asked |->
                            IF b \in asked THEN IP!BitsAfter(IP!Bits(i, b), m[t], N)
                                           ELSE i.acc[b]]
    OBVIOUS
  <2>6. k.map = m /\ k.acc = acc
    <3>1. [u \in DOMAIN m \cup {t} |-> IF u = t THEN m[t] ELSE m[u]] = m
      BY <2>2, <2>3
    <3>2. QED BY <1>4, <2>1, <2>3, <2>5, <3>1 DEF IP!AfterBytes, IP!IgnoreAccess
  <2>7. \A b \in Byte : IP!Bits(k, b) = IP!BitsOf(m, A[b])
    <3>1. \A b \in asked : IP!Bits(k, b) = IP!BitsOf(m, A[b])
      BY <2>4, <2>5, <2>6 DEF IP!Bits
    <3>2. \A b \in Byte \ asked : IP!Bits(k, b) = IP!Bits(i, b)
      BY <2>5, <2>6 DEF IP!Bits
    <3>3. QED BY <2>2, <3>1, <3>2
  <2>8. HeuristicOK(k, A)
    BY <2>2, <2>6, <2>7 DEF HeuristicOK
  <2>9. \A b \in asked : IP!Ignored(i, t, b, N) <=> ~Public(A, b)
    <3> SUFFICES ASSUME NEW b \in asked
                 PROVE  IP!Ignored(i, t, b, N) <=> ~Public(A, b)
      OBVIOUS
    <3>1. /\ IP!BitsOK(IP!Bits(i, b))
          /\ IP!BitsOf(m, A[b]) = {} <=> Cardinality(A[b]) > N
      BY <1>1, <2>2, BitsOfThreads
    <3>2. m[t] \in Nat
      <4>1. IP!Cardinality(DOMAIN m) \in Nat
        BY <2>2, SameCardinality, FS_CardinalityType DEF IP!MapOK
      <4>2. QED BY <2>2, <4>1 DEF IP!MapOK
    <3>3. IP!IgnoreAnswer(IP!Bits(i, b), m[t], N)
            <=> IP!BitsAfter(IP!Bits(i, b), m[t], N) # {}
      BY <3>1, <3>2, HeuristicConstants, SameCardinality, IP!AnswerIsPublished
    <3>4. QED BY <2>3, <2>4, <3>1, <3>3 DEF IP!Ignored, Public
  <2>10. IP!ReportedBytes(i, t, asked, N) = {b \in asked : Public(A, b)}
    BY <1>4, <2>9 DEF IP!ReportedBytes
  <2>11. QED BY <2>8, <2>10
<1>5. QED BY <1>2, <1>3, <1>4

\* The mask of an access to one byte that is reported.
Whole == {0}

(* Asked about an access, it counts the thread in, and reports the access   *)
(* if that makes the byte public.                                           *)
LEMMA AskedAnew ==
  ASSUME NEW i, NEW A \in [Byte -> SUBSET Tid], HeuristicOK(i, A), NEW t \in Tid,
         NEW b \in Byte, NEW B, B = [A EXCEPT ![b] = @ \cup {t}],
         NEW h, h = IP!HandleAccess(i, t, b, 1, N)
  PROVE  /\ HeuristicOK(h.irh, B)
         /\ B \in [Byte -> SUBSET Tid]
         /\ Public(B, b) => h.mask = Whole
         /\ ~Public(B, b) => h.mask = {}
<1>1. PICK k : k = IP!AfterBytes(i, t, {b}, N)
  OBVIOUS
<1>2. /\ h.irh = k
      /\ h.mask = IF N = 0 \/ IP!Bits(k, b) = {} THEN {0} ELSE {}
  BY <1>1 DEF IP!HandleAccess
<1>3. /\ B \in [Byte -> SUBSET Tid] /\ B[b] = A[b] \cup {t}
      /\ \A c \in Byte : c # b => B[c] = A[c]
      /\ B[b] # {} /\ Cardinality(B[b]) \in Nat /\ Cardinality(B[b]) > 0
  <2>1. B \in [Byte -> SUBSET Tid] /\ B[b] = A[b] \cup {t}
        /\ \A c \in Byte : c # b => B[c] = A[c]
    OBVIOUS
  <2>2. B[b] # {} /\ B[b] \in SUBSET Tid
    BY <2>1
  <2>3. QED BY <2>1, <2>2, TidFinite
<1>4. CASE N = 0
  BY <1>2, <1>3, <1>4 DEF HeuristicOK, Public, Whole
<1>5. CASE N # 0
  <2>1. PICK m : m = i.map
    OBVIOUS
  <2>2. /\ IP!MapOK(m)
        /\ \A c \in Byte : A[c] \subseteq DOMAIN m /\ IP!Bits(i, c) = IP!BitsOf(m, A[c])
    BY <1>5, <2>1 DEF HeuristicOK
  <2>3. k = IP!IgnoreAccess(i, t, {b}, N)
    BY <1>1, <1>5 DEF IP!AfterBytes
  <2>4. IP!Asked(i, t, b, k)
    BY <2>1, <2>2, <2>3, HeuristicConstants, SameCardinality, IP!QueryAsks
  <2>5. PICK n : n = k.map
    OBVIOUS
  <2>6. IP!MapOK(n)
    BY <2>1, <2>2, <2>4, <2>5, HeuristicConstants, SameCardinality, IP!MapExtended
  <2>7. DOMAIN n = DOMAIN m \cup {t} /\ n[t] = IP!IndexOf(i, t)
    BY <2>1, <2>4, <2>5 DEF IP!Asked
  <2>8. \A c \in Byte : IP!BitsOf(n, A[c]) = IP!BitsOf(m, A[c])
    <3> SUFFICES ASSUME NEW c \in Byte
                 PROVE  IP!BitsOf(n, A[c]) = IP!BitsOf(m, A[c])
      OBVIOUS
    <3>1. PICK C : C = A[c]
      OBVIOUS
    <3>2. C \subseteq DOMAIN i.map
      BY <2>1, <2>2, <3>1
    <3>3. IP!BitsOf(k.map, C) = IP!BitsOf(i.map, C)
      BY <2>4, <3>2, HeuristicConstants, SameCardinality, IP!BitsOfKept
    <3>4. QED BY <2>1, <2>5, <3>1, <3>3
  <2>9. /\ IP!Bits(k, b) = IP!BitsAfter(IP!Bits(i, b), n[t], N)
        /\ \A c : c # b => IP!Bits(k, c) = IP!Bits(i, c)
    BY <2>4, <2>7 DEF IP!Asked
  <2>10. IP!Bits(k, b) = IP!BitsOf(n, B[b])
    <3>1. PICK C : C = A[b]
      OBVIOUS
    <3>2. C \subseteq DOMAIN n /\ t \in DOMAIN n
      BY <2>2, <2>7, <3>1
    <3>3. IP!BitsAfter(IP!BitsOf(n, C), n[t], N) = IP!BitsOf(n, C \cup {t})
      BY <1>5, <2>6, <3>2, HeuristicConstants, SameCardinality, IP!BitsGrow
    <3>4. QED BY <1>3, <2>2, <2>8, <2>9, <3>1, <3>3
  <2>11. \A c \in Byte : B[c] \subseteq DOMAIN n /\ IP!Bits(k, c) = IP!BitsOf(n, B[c])
    <3> SUFFICES ASSUME NEW c \in Byte
                 PROVE  B[c] \subseteq DOMAIN n /\ IP!Bits(k, c) = IP!BitsOf(n, B[c])
      OBVIOUS
    <3>1. CASE c = b
      BY <1>3, <2>2, <2>7, <2>10, <3>1
    <3>2. CASE c # b
      BY <1>3, <2>2, <2>7, <2>8, <2>9, <3>2
    <3>3. QED BY <3>1, <3>2
  <2>12. HeuristicOK(k, B)
    BY <2>5, <2>6, <2>11 DEF HeuristicOK
  <2>13. IP!BitsOf(n, B[b]) = {} <=> Cardinality(B[b]) > N
    BY <1>3, <2>6, <2>11, BitsOfThreads
  <2>14. QED BY <1>2, <1>3, <1>5, <2>10, <2>12, <2>13 DEF Public, Whole
<1>6. QED BY <1>4, <1>5

-----------------------------------------------------------------------------
(* What the tracker holds of a thread, and what really happened            *)

\* No timestamp of t's locks has come again.
Fresh(t) == acquisitions[t] <= ClockModulus

\* t has a clock, and the interned lockset is not stale.
Tracked(t) ==
  /\ Len(vector_clocks[t]) \in Nat \ {0}
  /\ Segments[t] = Len(vector_clocks[t])
  /\ cached_timedlockset[t] \in {{}, {current_timedlockset[t]}}

IsWindow(w) ==
  /\ w = [store |-> w.store, byte |-> w.byte, locks |-> w.locks,
          flushed |-> w.flushed]
  /\ w.flushed \in BOOLEAN

\* t has taken these locks before.
Stamped(t, timed_lockset) ==
  Fresh(t) => \A l \in DOMAIN timed_lockset :
                timed_lockset[l] \in Nat /\ timed_lockset[l] < acquisitions[t]

\* The store `data` of byte b, in one of t's maps, stands for the window w.
Stands(t, w, b, data) ==
  /\ IsWindow(w) /\ w.byte = b /\ w.store = data.backtrace
  /\ w.locks \subseteq
       P!CommonLocks(current_timedlockset[t], data.timed_lockset)
  /\ Fresh(t) => w.locks =
       P!CommonLocks(current_timedlockset[t], data.timed_lockset)
  /\ Stamped(t, data.timed_lockset)

\* So it stands for one of the windows O or, of those of C, for one that is
\* kept too long.
StandsFor(t, b, data, O, C) ==
  \/ \E w \in O : Stands(t, w, b, data)
  \/ \E w \in C : KeptTooLong(t, w) /\ w.store = data.backtrace

\* The record r tells of the closed window w.
Tells(r, w) ==
  /\ r.write_trace = w.store /\ r.fence_trace = w.how /\ r.address = w.byte
  /\ r.persisted <=> w.how = "fence"
  /\ r.was_flushed = w.flushed
  /\ r.clock_i = (w.segment - 1) % IndexModulus
  /\ w.locks \subseteq r.common_set

IsRecord(t, r) ==
  /\ r = [common_set |-> r.common_set, clock_i |-> r.clock_i,
          write_trace |-> r.write_trace, fence_trace |-> r.fence_trace,
          address |-> r.address, persisted |-> r.persisted,
          was_flushed |-> r.was_flushed]
  /\ r.persisted \in BOOLEAN /\ r.address \in Byte
  /\ r.clock_i \in Nat /\ r.clock_i < Len(vector_clocks[t])

\* The records of t tell of its closed windows C, and of all of them that
\* are looked for and not excused by E.
RecordsOK(t, records, C, E) ==
  /\ \A r \in records :
       /\ IsRecord(t, r)
       /\ \E w \in C : \/ KeptTooLong(t, w) /\ w.store = r.write_trace
                       \/ Tells(r, w)
  /\ \A w \in C :
       LookedFor(w) /\ <<"window", t, w.store, w.byte>> \notin E =>
         \E r \in records : Tells(r, w) /\ (Fresh(t) => r.common_set = w.locks)

\* What P and Q work on.
IsData(d) ==
  d = [mem |-> d.mem, flushed |-> d.flushed, records |-> d.records,
       dropped |-> d.dropped, irh |-> d.irh]

\* The stores of t that are not persistent are those of its open windows O,
\* or are kept too long.
MapsOK(t, m, f, O, C, A) ==
  /\ DOMAIN m \subseteq Byte /\ DOMAIN f \subseteq Byte
  /\ \A b \in DOMAIN m \cup DOMAIN f : t \in A[b]
  /\ \A b \in DOMAIN m : \E w \in O : ~w.flushed /\ Stands(t, w, b, m[b])
  /\ \A b \in DOMAIN f : \/ \E w \in O : w.flushed /\ Stands(t, w, b, f[b])
                         \/ \E w \in C : KeptTooLong(t, w) /\ w.store = f[b].backtrace
  /\ \A w \in O :
       IF w.flushed THEN w.byte \in DOMAIN f /\ Stands(t, w, w.byte, f[w.byte])
                    ELSE w.byte \in DOMAIN m /\ Stands(t, w, w.byte, m[w.byte])
  /\ \A v, w \in O : v.byte = w.byte => v = w

\* The timestamps of t's locks, and the locks it really holds.
LocksOK(t) ==
  /\ held[t] = DOMAIN current_timedlockset[t]
  /\ cached_timedlockset[t] \in {{}, {current_timedlockset[t]}}
  /\ acquisitions[t] \in Nat
  /\ acquisitions[t] < ClockModulus => lock_clock[t] = acquisitions[t]
  /\ Stamped(t, current_timedlockset[t])
  /\ depth[t] \in [Lock -> Nat]
  /\ \A l \in held[t] : l \in Lock /\ depth[t][l] > 0

\* The windows V of t, closed.
ClosedBy(t, V, how) == {W!Closed(t, w, how) : w \in V}

OfByte(O, b) == {w \in O : w.byte = b}

NewWindow(t, b) == [store |-> now[t], byte |-> b, locks |-> held[t], flushed |-> FALSE]

NewStore(t) == [timed_lockset |-> current_timedlockset[t], backtrace |-> now[t]]

\* t's stores m once it has stored to b.
StoredOver(t, b, m) == P!Over([x \in {b} |-> NewStore(t)], m)

LEMMA Setting ==
  ASSUME NEW d, IsData(d), NEW V
  PROVE  /\ [d EXCEPT !.mem = V] =
              [mem |-> V, flushed |-> d.flushed, records |-> d.records,
               dropped |-> d.dropped, irh |-> d.irh]
         /\ [d EXCEPT !.flushed = V] =
              [mem |-> d.mem, flushed |-> V, records |-> d.records,
               dropped |-> d.dropped, irh |-> d.irh]
         /\ [d EXCEPT !.irh = V] =
              [mem |-> d.mem, flushed |-> d.flushed, records |-> d.records,
               dropped |-> d.dropped, irh |-> V]
BY DEF IsData

LEMMA SettingAll ==
  ASSUME NEW d, IsData(d), NEW V, NEW D, NEW I
  PROVE  [d EXCEPT !.records = V, !.dropped = D, !.irh = I] =
           [mem |-> d.mem, flushed |-> d.flushed, records |-> V, dropped |-> D,
            irh |-> I]
<1> DEFINE d1 == [d EXCEPT !.records = V]
           d2 == [d1 EXCEPT !.dropped = D]
           d3 == [d2 EXCEPT !.irh = I]
<1>1. d1 = [mem |-> d.mem, flushed |-> d.flushed, records |-> V,
            dropped |-> d.dropped, irh |-> d.irh]
  BY DEF IsData
<1> HIDE DEF d1
<1>2. d2 = [mem |-> d.mem, flushed |-> d.flushed, records |-> V, dropped |-> D,
            irh |-> d.irh]
  BY <1>1
<1> HIDE DEF d2
<1>3. d3 = [mem |-> d.mem, flushed |-> d.flushed, records |-> V, dropped |-> D,
            irh |-> I]
  BY <1>2
<1>4. QED BY <1>3, Zenon DEF d1, d2

(* A record says what closed the window and in which map its store was.     *)
RecordOf(t, b, data, end, map) ==
  P!Record(t, b, data, end, end = "fence", map = "flushed")

RecordsOf(t, f, asked, end, map) == {RecordOf(t, b, f[b], end, map) : b \in asked}

LEMMA RecordIs ==
  ASSUME NEW t, Tracked(t), NEW b, NEW data, NEW end, NEW map
  PROVE  /\ RecordOf(t, b, data, end, map) =
              [common_set  |-> P!CommonLocks(current_timedlockset[t],
                                             data.timed_lockset),
               clock_i     |-> (Segments[t] - 1) % IndexModulus,
               write_trace |-> data.backtrace,
               fence_trace |-> end,
               address     |-> b,
               persisted   |-> end = "fence",
               was_flushed |-> map = "flushed"]
         /\ Q!Record(t, b, data, end, end = "fence", map = "flushed") =
              RecordOf(t, b, data, end, map)
         /\ P!Timed(t) = current_timedlockset[t]
         /\ Q!Timed(t) = current_timedlockset[t]
<1>1. P!Timed(t) = current_timedlockset[t] /\ Q!Timed(t) = current_timedlockset[t]
  BY DEF Tracked, P!Timed, Q!Timed
<1>2. QED
  BY <1>1 DEF RecordOf, P!Record, Q!Record, P!CommonLocks, Q!CommonLocks,
              P!ClockIndex, Q!ClockIndex

\* e comes from d by a Register, of P or of Q.
IsRegistered(e, d, t, f, asked, end, map) ==
  \/ e = P!Register(d, t, f, asked, end, end = "fence", map = "flushed")
  \/ e = Q!Register(d, t, f, asked, end, end = "fence", map = "flushed")

LEMMA RegisterIs ==
  ASSUME NEW d, IsData(d), NEW t, Tracked(t), NEW f, NEW asked, NEW end, NEW map,
         NEW e, IsRegistered(e, d, t, f, asked, end, map)
  PROVE  /\ IsData(e) /\ e.mem = d.mem /\ e.flushed = d.flushed
         /\ e.records = d.records \cup
              RecordsOf(t, f, IP!ReportedBytes(d.irh, t, asked, N), end, map)
         /\ e.irh = IP!AfterBytes(d.irh, t, asked, N)
<1> DEFINE reported == IP!ReportedBytes(d.irh, t, asked, N)
           V == d.records \cup RecordsOf(t, f, reported, end, map)
           D == d.dropped \cup {<<f[b].backtrace, b>> : b \in asked \ reported}
           I == IP!AfterBytes(d.irh, t, asked, N)
<1>1. /\ P!ReportedBytes(d.irh, t, asked, N) = reported
      /\ Q!ReportedBytes(d.irh, t, asked, N) = reported
      /\ P!AfterBytes(d.irh, t, asked, N) = I
      /\ Q!AfterBytes(d.irh, t, asked, N) = I
  BY SameHeuristic
<1>2. \A b : Q!Record(t, b, f[b], end, end = "fence", map = "flushed") =
               RecordOf(t, b, f[b], end, map)
  BY RecordIs
<1> HIDE DEF reported
<1>3. {Q!Record(t, b, f[b], end, end = "fence", map = "flushed") : b \in reported} =
        RecordsOf(t, f, reported, end, map)
  BY <1>2 DEF RecordsOf
<1>4. {P!Record(t, b, f[b], end, end = "fence", map = "flushed") : b \in reported} =
        RecordsOf(t, f, reported, end, map)
  BY DEF RecordsOf, RecordOf
<1>5. P!Register(d, t, f, asked, end, end = "fence", map = "flushed") =
        [d EXCEPT !.records = V, !.dropped = D, !.irh = I]
  BY <1>1, <1>4 DEF P!Register
<1>6. Q!Register(d, t, f, asked, end, end = "fence", map = "flushed") =
        [d EXCEPT !.records = V, !.dropped = D, !.irh = I]
  BY <1>1, <1>3 DEF Q!Register
<1>7. IsData(d)
  OBVIOUS
<1> HIDE DEF V, D, I
<1>8. e = [mem |-> d.mem, flushed |-> d.flushed, records |-> V, dropped |-> D,
           irh |-> I]
  <2>1. e = [d EXCEPT !.records = V, !.dropped = D, !.irh = I]
    BY <1>5, <1>6, Zenon DEF IsRegistered
  <2>2. QED BY <1>7, <2>1, SettingAll, Zenon
<1>9. IsData(e) /\ e.mem = d.mem /\ e.flushed = d.flushed /\ e.records = V /\ e.irh = I
  BY <1>8 DEF IsData
<1>10. QED BY <1>9 DEF V, I, reported

\* The windows V of t are about to close: the stores that stand for them are
\* asked for, in one of the maps.
Closing(t, d, f, asked, end, map, A, C, V, D, E) ==
  /\ asked \subseteq Byte /\ \A b \in asked : t \in A[b]
  /\ A \in [Byte -> SUBSET Tid] /\ HeuristicOK(d.irh, A)
  /\ D = C \cup ClosedBy(t, V, end)
  /\ \A b \in asked : StandsFor(t, b, f[b], V, C)
  /\ \A w \in V : /\ w.byte \in asked /\ Stands(t, w, w.byte, f[w.byte])
                  /\ w.flushed <=> map = "flushed"
  /\ \A w \in D \ C : Cardinality(A[w.byte]) <= N =>
                        <<"window", t, w.store, w.byte>> \in E
  /\ RecordsOK(t, d.records, C, E)

LEMMA RegisterCloses ==
  ASSUME NEW t \in Tid, Tracked(t), NEW d, IsData(d), NEW f, NEW asked, NEW end,
         NEW map, NEW A, NEW C, NEW V, NEW D, NEW E, NEW e,
         Closing(t, d, f, asked, end, map, A, C, V, D, E),
         IsRegistered(e, d, t, f, asked, end, map)
  PROVE  /\ IsData(e) /\ e.mem = d.mem /\ e.flushed = d.flushed
         /\ HeuristicOK(e.irh, A)
         /\ RecordsOK(t, e.records, D, E)
<1>0. /\ asked \subseteq Byte /\ \A b \in asked : t \in A[b]
      /\ A \in [Byte -> SUBSET Tid] /\ HeuristicOK(d.irh, A)
      /\ D = C \cup ClosedBy(t, V, end)
      /\ \A b \in asked : StandsFor(t, b, f[b], V, C)
      /\ \A w \in V : /\ w.byte \in asked /\ Stands(t, w, w.byte, f[w.byte])
                      /\ w.flushed <=> map = "flushed"
      /\ \A w \in D \ C : Cardinality(A[w.byte]) <= N =>
                            <<"window", t, w.store, w.byte>> \in E
      /\ RecordsOK(t, d.records, C, E)
  BY Zenon DEF Closing
<1>1. PICK reported : reported = {b \in asked : Public(A, b)}
  OBVIOUS
<1>2. PICK k : k = IP!AfterBytes(d.irh, t, asked, N)
  OBVIOUS
<1>3. HeuristicOK(k, A) /\ reported = IP!ReportedBytes(d.irh, t, asked, N)
  <2>1. PICK i : i = d.irh
    OBVIOUS
  <2>2. HeuristicOK(i, A) /\ k = IP!AfterBytes(i, t, asked, N)
    BY <1>0, <1>2, <2>1
  <2>3. /\ HeuristicOK(k, A)
        /\ IP!ReportedBytes(i, t, asked, N) = {b \in asked : Public(A, b)}
    BY <1>0, <2>2, AskedAgain
  <2>4. QED BY <1>1, <2>1, <2>3
<1>4. /\ IsData(e) /\ e.mem = d.mem /\ e.flushed = d.flushed
      /\ e.records = d.records \cup RecordsOf(t, f, reported, end, map)
      /\ e.irh = k
  BY <1>2, <1>3, RegisterIs
<1>5. PICK n : n = Segments[t]
  OBVIOUS
<1>6. /\ n \in Nat /\ n >= 1 /\ Len(vector_clocks[t]) = n
      /\ (n - 1) % IndexModulus \in Nat /\ (n - 1) % IndexModulus < n
  <2>1. n \in Nat /\ n >= 1 /\ Len(vector_clocks[t]) = n
    BY <1>5 DEF Tracked
  <2>2. n - 1 \in Nat /\ IndexModulus \in Nat \ {0}
    BY <2>1, HawkSetAssumption
  <2>3. (n - 1) % IndexModulus \in Nat /\ (n - 1) % IndexModulus <= n - 1
    BY <2>2
  <2>4. QED BY <2>1, <2>3
<1>7. ASSUME NEW b \in asked
      PROVE  \E r : /\ r = RecordOf(t, b, f[b], end, map)
                    /\ IsRecord(t, r)
                    /\ r.write_trace = f[b].backtrace /\ r.fence_trace = end
                    /\ r.address = b /\ (r.persisted <=> end = "fence")
                    /\ (r.was_flushed <=> map = "flushed") /\ r.was_flushed \in BOOLEAN
                    /\ r.clock_i = (n - 1) % IndexModulus
                    /\ r.common_set = P!CommonLocks(current_timedlockset[t],
                                                    f[b].timed_lockset)
  <2>1. PICK r : r = RecordOf(t, b, f[b], end, map)
    OBVIOUS
  <2>2. r = [common_set  |-> P!CommonLocks(current_timedlockset[t],
                                           f[b].timed_lockset),
             clock_i     |-> (n - 1) % IndexModulus,
             write_trace |-> f[b].backtrace,
             fence_trace |-> end,
             address     |-> b,
             persisted   |-> end = "fence",
             was_flushed |-> map = "flushed"]
    BY <1>5, <2>1, RecordIs
  <2>3. /\ r.write_trace = f[b].backtrace /\ r.fence_trace = end
        /\ r.address = b /\ r.persisted = (end = "fence")
        /\ r.was_flushed = (map = "flushed")
        /\ r.clock_i = (n - 1) % IndexModulus
        /\ r.common_set = P!CommonLocks(current_timedlockset[t], f[b].timed_lockset)
    BY <2>2
  <2>4. r.persisted \in BOOLEAN /\ r.was_flushed \in BOOLEAN
    BY <2>3
  <2>5. b \in Byte
    BY <1>0
  <2>6. IsRecord(t, r)
    BY <1>6, <2>2, <2>3, <2>4, <2>5 DEF IsRecord
  <2>7. QED BY <2>1, <2>3, <2>4, <2>6
<1>8. ASSUME NEW w, NEW b, NEW r, Stands(t, w, b, f[b]), w.flushed <=> map = "flushed",
             r.write_trace = f[b].backtrace, r.fence_trace = end,
             r.address = b, r.persisted <=> end = "fence",
             r.was_flushed <=> map = "flushed", r.was_flushed \in BOOLEAN,
             r.clock_i = (n - 1) % IndexModulus,
             r.common_set = P!CommonLocks(current_timedlockset[t], f[b].timed_lockset)
      PROVE  /\ Tells(r, W!Closed(t, w, end))
             /\ Fresh(t) => r.common_set = W!Closed(t, w, end).locks
  <2>1. PICK c : c = W!Closed(t, w, end)
    OBVIOUS
  <2>2. /\ c.store = w.store /\ c.byte = w.byte /\ c.locks = w.locks
        /\ c.flushed = w.flushed /\ c.how = end /\ c.segment = n
    BY <1>5, <2>1 DEF W!Closed
  <2>3. c.flushed = r.was_flushed
    BY <1>8, <2>2 DEF Stands, IsWindow
  <2>4. QED BY <1>8, <2>1, <2>2, <2>3 DEF Stands, Tells
<1>9. ASSUME NEW b \in reported, NEW r, r = RecordOf(t, b, f[b], end, map)
      PROVE  /\ IsRecord(t, r)
             /\ \E w \in D : \/ KeptTooLong(t, w) /\ w.store = r.write_trace
                             \/ Tells(r, w)
  <2>1. b \in asked
    BY <1>1
  <2>2. /\ IsRecord(t, r)
        /\ r.write_trace = f[b].backtrace /\ r.fence_trace = end
        /\ r.address = b /\ (r.persisted <=> end = "fence")
        /\ (r.was_flushed <=> map = "flushed") /\ r.was_flushed \in BOOLEAN
        /\ r.clock_i = (n - 1) % IndexModulus
        /\ r.common_set = P!CommonLocks(current_timedlockset[t], f[b].timed_lockset)
    BY <1>7, <1>9, <2>1
  <2>3. CASE \E w \in V : Stands(t, w, b, f[b])
    <3>1. PICK w \in V : Stands(t, w, b, f[b])
      BY <2>3
    <3>2. (w.flushed <=> map = "flushed") /\ W!Closed(t, w, end) \in D
      BY <1>0 DEF ClosedBy
    <3>3. Tells(r, W!Closed(t, w, end))
      BY <1>8, <2>2, <3>1, <3>2
    <3>4. QED BY <2>2, <3>2, <3>3
  <2>4. CASE \E w \in C : KeptTooLong(t, w) /\ w.store = f[b].backtrace
    BY <1>0, <2>2, <2>4
  <2>5. QED BY <1>0, <2>1, <2>3, <2>4 DEF StandsFor
<1>10. \A r \in e.records :
         /\ IsRecord(t, r)
         /\ \E w \in D : \/ KeptTooLong(t, w) /\ w.store = r.write_trace
                         \/ Tells(r, w)
  <2> SUFFICES ASSUME NEW r \in e.records
               PROVE  /\ IsRecord(t, r)
                      /\ \E w \in D : \/ KeptTooLong(t, w) /\ w.store = r.write_trace
                                      \/ Tells(r, w)
    OBVIOUS
  <2>1. CASE r \in d.records
    BY <1>0, <2>1 DEF RecordsOK
  <2>2. CASE \E b \in reported : r = RecordOf(t, b, f[b], end, map)
    BY <1>9, <2>2
  <2>3. QED BY <1>4, <2>1, <2>2 DEF RecordsOf
<1>11. ASSUME NEW c \in D, LookedFor(c), <<"window", t, c.store, c.byte>> \notin E
       PROVE  \E r \in e.records : Tells(r, c) /\ (Fresh(t) => r.common_set = c.locks)
  <2>1. CASE c \in C
    BY <1>0, <1>4, <1>11, <2>1 DEF RecordsOK
  <2>2. CASE c \notin C
    <3>1. PICK w \in V : c = W!Closed(t, w, end)
      BY <1>0, <2>2 DEF ClosedBy
    <3>2. /\ w.byte \in asked /\ Stands(t, w, w.byte, f[w.byte])
          /\ w.flushed <=> map = "flushed"
      BY <1>0
    <3>3. c.byte = w.byte
      BY <3>1 DEF W!Closed
    <3>4. w.byte \in reported
      <4>1. ~(Cardinality(A[c.byte]) <= N)
        BY <1>0, <1>11, <2>2
      <4>2. Cardinality(A[w.byte]) \in Nat /\ N \in Nat
        BY <1>0, <3>2, TidFinite, HawkSetAssumption
      <4>3. QED BY <1>1, <3>2, <3>3, <4>1, <4>2 DEF Public
    <3>5. PICK b : b = w.byte
      OBVIOUS
    <3>6. PICK r : /\ r = RecordOf(t, b, f[b], end, map)
                   /\ r.write_trace = f[b].backtrace /\ r.fence_trace = end
                   /\ r.address = b /\ (r.persisted <=> end = "fence")
                   /\ (r.was_flushed <=> map = "flushed") /\ r.was_flushed \in BOOLEAN
                   /\ r.clock_i = (n - 1) % IndexModulus
                   /\ r.common_set = P!CommonLocks(current_timedlockset[t],
                                                   f[b].timed_lockset)
      BY <1>7, <3>2, <3>5
    <3>7. r \in e.records
      BY <1>4, <3>4, <3>5, <3>6 DEF RecordsOf
    <3>8. Tells(r, c) /\ (Fresh(t) => r.common_set = c.locks)
      BY <1>8, <3>1, <3>2, <3>5, <3>6
    <3>9. QED BY <3>7, <3>8
  <2>3. QED BY <2>1, <2>2
<1>12. RecordsOK(t, e.records, D, E)
  BY <1>10, <1>11 DEF RecordsOK
<1>13. QED BY <1>3, <1>4, <1>12

(* Windows that close without being looked for, and excuses, change nothing. *)
LEMMA RecordsWeaker ==
  ASSUME NEW t, NEW records, NEW C, NEW D, NEW E, NEW F, C \subseteq D, E \subseteq F,
         RecordsOK(t, records, C, E), \A w \in D \ C : ~LookedFor(w)
  PROVE  RecordsOK(t, records, D, F)
BY DEF RecordsOK

LEMMA WindowFields ==
  ASSUME NEW t, NEW w, NEW how, NEW c, c = W!Closed(t, w, how)
  PROVE  /\ c.store = w.store /\ c.byte = w.byte /\ c.locks = w.locks
         /\ c.flushed = w.flushed /\ c.how = how /\ c.segment = Segments[t]
BY DEF W!Closed

(* The stores a thread has pending once it has stored to byte b: on one map *)
(* the new store, on the other whatever the handler leaves there.           *)
LEMMA StoreMaps ==
  ASSUME NEW t \in Tid, LocksOK(t), NEW m, NEW f, NEW O, NEW C, NEW A,
         MapsOK(t, m, f, O, C, A), NEW b \in Byte, NEW B, t \in B[b],
         \A x \in Byte : A[x] \subseteq B[x],
         NEW over, over = OfByte(O, b),
         NEW D, D = C \cup ClosedBy(t, over, "store"),
         NEW new, new = NewWindow(t, b), NEW U, U = (O \ over) \cup {new},
         NEW n, n = StoredOver(t, b, m), NEW g,
         \/ check_unpersisted_stores /\ g = P!Without(f, {b})
         \/ ~check_unpersisted_stores /\ g = f
  PROVE  MapsOK(t, n, g, U, D, B)
<1> USE DEF OfByte
<1>0. PICK data : data = NewStore(t)
  OBVIOUS
<1>1. /\ DOMAIN n = DOMAIN m \cup {b} /\ n[b] = data
      /\ \A x \in DOMAIN m : x # b => n[x] = m[x]
  BY <1>0 DEF P!Over, StoredOver
<1>2. /\ DOMAIN g \subseteq DOMAIN f
      /\ \A x \in DOMAIN g : g[x] = f[x]
      /\ \A x \in DOMAIN f : x # b => x \in DOMAIN g
      /\ check_unpersisted_stores => b \notin DOMAIN g
  BY DEF P!Without
<1>3. /\ new.store = now[t] /\ new.byte = b /\ new.locks = held[t] /\ ~new.flushed
      /\ data.timed_lockset = current_timedlockset[t] /\ data.backtrace = now[t]
  BY <1>0 DEF NewStore, NewWindow
<1>4. Stands(t, new, b, data)
  <2>1. P!CommonLocks(current_timedlockset[t], data.timed_lockset) = held[t]
    BY <1>3 DEF LocksOK, P!CommonLocks
  <2>2. IsWindow(new)
    BY DEF IsWindow, NewWindow
  <2>3. QED BY <1>3, <2>1, <2>2 DEF Stands, LocksOK
<1>5. new \in U /\ \A w \in O : w.byte # b => w \in U
  OBVIOUS
<1>6. \A w \in U : w = new \/ (w \in O /\ w.byte # b)
  OBVIOUS
<1>7. DOMAIN n \subseteq Byte /\ DOMAIN g \subseteq Byte
      /\ \A x \in DOMAIN n \cup DOMAIN g : t \in B[x]
  BY <1>1, <1>2 DEF MapsOK
<1>8. \A x \in DOMAIN n : \E w \in U : ~w.flushed /\ Stands(t, w, x, n[x])
  <2> SUFFICES ASSUME NEW x \in DOMAIN n
               PROVE  \E w \in U : ~w.flushed /\ Stands(t, w, x, n[x])
    OBVIOUS
  <2>1. CASE x = b
    BY <1>1, <1>3, <1>4, <1>5, <2>1
  <2>2. CASE x # b
    <3>1. x \in DOMAIN m /\ n[x] = m[x]
      BY <1>1, <2>2
    <3>2. PICK w \in O : ~w.flushed /\ Stands(t, w, x, m[x])
      BY <3>1 DEF MapsOK
    <3>3. w \in U
      BY <1>5, <2>2, <3>2 DEF Stands
    <3>4. QED BY <3>1, <3>2, <3>3
  <2>3. QED BY <2>1, <2>2
<1>9. \A x \in DOMAIN g : \/ \E w \in U : w.flushed /\ Stands(t, w, x, g[x])
                          \/ \E w \in D : KeptTooLong(t, w) /\ w.store = g[x].backtrace
  <2> SUFFICES ASSUME NEW x \in DOMAIN g
               PROVE  \/ \E w \in U : w.flushed /\ Stands(t, w, x, g[x])
                      \/ \E w \in D : KeptTooLong(t, w) /\ w.store = g[x].backtrace
    OBVIOUS
  <2>1. x \in DOMAIN f /\ g[x] = f[x]
    BY <1>2
  <2>2. CASE \E w \in O : w.flushed /\ Stands(t, w, x, f[x])
    <3>1. PICK w \in O : w.flushed /\ Stands(t, w, x, f[x])
      BY <2>2
    <3>2. w.byte = x /\ w.store = f[x].backtrace
      BY <3>1 DEF Stands
    <3>3. CASE x # b
      BY <1>5, <2>1, <3>1, <3>2, <3>3
    <3>4. CASE x = b
      <4>1. PICK c : c = W!Closed(t, w, "store")
        OBVIOUS
      <4>2. c \in D
        BY <3>2, <3>4, <4>1 DEF ClosedBy
      <4>3. c.store = w.store /\ c.flushed = w.flushed /\ c.how = "store"
        BY <4>1, WindowFields
      <4>4. ~check_unpersisted_stores
        BY <1>2, <3>4
      <4>5. KeptTooLong(t, c) /\ c.store = g[x].backtrace
        BY <2>1, <3>1, <3>2, <4>3, <4>4 DEF KeptTooLong
      <4>6. QED BY <4>2, <4>5
    <3>5. QED BY <3>3, <3>4
  <2>3. CASE \E w \in C : KeptTooLong(t, w) /\ w.store = f[x].backtrace
    BY <2>1, <2>3
  <2>4. QED BY <2>1, <2>2, <2>3 DEF MapsOK
<1>10. ASSUME NEW w \in U
       PROVE  IF w.flushed THEN w.byte \in DOMAIN g /\ Stands(t, w, w.byte, g[w.byte])
                           ELSE w.byte \in DOMAIN n /\ Stands(t, w, w.byte, n[w.byte])
  <2>1. CASE w = new
    BY <1>1, <1>3, <1>4, <2>1
  <2>2. CASE w \in O /\ w.byte # b
    <3>1. CASE w.flushed
      <4>1. w.byte \in DOMAIN f /\ Stands(t, w, w.byte, f[w.byte])
        BY <2>2, <3>1 DEF MapsOK
      <4>2. w.byte \in DOMAIN g /\ g[w.byte] = f[w.byte]
        BY <1>2, <2>2, <4>1
      <4>3. QED BY <3>1, <4>1, <4>2
    <3>2. CASE ~w.flushed
      <4>1. w.byte \in DOMAIN m /\ Stands(t, w, w.byte, m[w.byte])
        BY <2>2, <3>2 DEF MapsOK
      <4>2. w.byte \in DOMAIN n /\ n[w.byte] = m[w.byte]
        BY <1>1, <2>2, <4>1
      <4>3. QED BY <3>2, <4>1, <4>2
    <3>3. QED BY <3>1, <3>2
  <2>3. QED BY <1>6, <2>1, <2>2
<1>11. \A v, w \in U : v.byte = w.byte => v = w
  BY <1>3, <1>6 DEF MapsOK
<1>12. QED BY <1>7, <1>8, <1>9, <1>10, <1>11 DEF MapsOK

(* What ProcessStore makes of d: it asks the heuristic about the access     *)
(* (d1), registers what it overwrites in the two maps (d2, d3), and stores. *)
StoreParts(t, b, d, d1, d2, d3, e) ==
  /\ IsData(d1) /\ d1.mem = d.mem /\ d1.flushed = d.flushed
  /\ d1.records = d.records /\ d1.irh = IP!HandleAccess(d.irh, t, b, 1, N).irh
  /\ \/ /\ check_unpersisted_stores
        /\ IsRegistered(d2, d1, t, d1.mem, {b} \cap DOMAIN d1.mem, "store", "mem")
        /\ IsRegistered(d3, d2, t, d2.flushed, {b} \cap DOMAIN d2.flushed,
                        "store", "flushed")
        /\ e.flushed = P!Without(d.flushed, {b})
     \/ /\ ~check_unpersisted_stores
        /\ d3 = d1
        /\ e.flushed = d.flushed
  /\ IsData(e) /\ e.mem = StoredOver(t, b, d.mem)
  /\ e.records = d3.records /\ e.irh = d3.irh

IsStored(e, d, t, b) ==
  \/ check_unpersisted_stores /\ e = P!AfterStore(d, t, b, 1)
  \/ ~check_unpersisted_stores /\ e = Q!AfterStore(d, t, b, 1)

LEMMA StoreIs ==
  ASSUME NEW t \in Tid, Tracked(t), NEW d, IsData(d), NEW b \in Byte, NEW e,
         IsStored(e, d, t, b)
  PROVE  \E d1, d2, d3 : StoreParts(t, b, d, d1, d2, d3, e)
<1>1. P!Bytes(b, 1) = {b} /\ Q!Bytes(b, 1) = {b}
  BY HawkSetAssumption DEF P!Bytes, Q!Bytes
<1>2. PICK h : h = IP!HandleAccess(d.irh, t, b, 1, N)
  OBVIOUS
<1>3. P!HandleAccess(d.irh, t, b, 1, N) = h /\ Q!HandleAccess(d.irh, t, b, 1, N) = h
  BY <1>2, SameHeuristic
<1>4. PICK d1 : d1 = [d EXCEPT !.irh = h.irh]
  OBVIOUS
<1>5. /\ IsData(d1) /\ d1.mem = d.mem /\ d1.flushed = d.flushed
      /\ d1.records = d.records /\ d1.irh = h.irh
  BY <1>4, Setting DEF IsData
<1>6. P!Timed(t) = current_timedlockset[t] /\ Q!Timed(t) = current_timedlockset[t]
  BY RecordIs
<1>7. PICK data : data = [x \in {b} |-> NewStore(t)]
  OBVIOUS
<1>8. PICK n : n = P!Over(data, d.mem) /\ n = StoredOver(t, b, d.mem)
  BY <1>7 DEF StoredOver
<1>9. CASE check_unpersisted_stores /\ e = P!AfterStore(d, t, b, 1)
  <2>1. PICK d2 : d2 = P!Register(d1, t, d1.mem, {b} \cap DOMAIN d1.mem,
                                  "store", FALSE, FALSE)
    OBVIOUS
  <2>2. PICK d3 : d3 = P!Register(d2, t, d1.flushed, {b} \cap DOMAIN d1.flushed,
                                  "store", FALSE, TRUE)
    OBVIOUS
  <2>3. /\ ("store" = "fence") = FALSE /\ ("mem" = "flushed") = FALSE
        /\ ("flushed" = "flushed") = TRUE
    OBVIOUS
  <2>4. /\ IsRegistered(d2, d1, t, d1.mem, {b} \cap DOMAIN d1.mem, "store", "mem")
        /\ IsRegistered(d3, d2, t, d1.flushed, {b} \cap DOMAIN d1.flushed,
                        "store", "flushed")
    BY <2>1, <2>2, <2>3 DEF IsRegistered
  <2>5. IsData(d2) /\ d2.mem = d1.mem /\ d2.flushed = d1.flushed
    BY <1>5, <2>4, RegisterIs
  <2>6. IsData(d3) /\ d3.mem = d2.mem /\ d3.flushed = d2.flushed
    BY <2>4, <2>5, RegisterIs
  <2>7. PICK o : o = [d3 EXCEPT !.flushed = P!Without(d3.flushed, {b})]
    OBVIOUS
  <2>8. /\ IsData(o) /\ o.mem = d3.mem /\ o.flushed = P!Without(d3.flushed, {b})
        /\ o.records = d3.records /\ o.irh = d3.irh
    BY <2>6, <2>7, Setting DEF IsData
  <2>9. o = P!Overwritten(d1, t, {b})
    BY <2>1, <2>2, <2>7 DEF P!Overwritten
  <2>10. e = [o EXCEPT !.mem = P!Over(data, o.mem)]
    BY <1>1, <1>3, <1>4, <1>6, <1>7, <1>9, <2>9 DEF P!AfterStore, NewStore
  <2>11. /\ IsData(e) /\ e.mem = P!Over(data, o.mem) /\ e.flushed = o.flushed
         /\ e.records = o.records /\ e.irh = o.irh
    BY <2>8, <2>10, Setting DEF IsData
  <2>12. /\ e.mem = n /\ e.flushed = P!Without(d.flushed, {b})
         /\ e.records = d3.records /\ e.irh = d3.irh
    BY <1>5, <1>8, <2>5, <2>6, <2>8, <2>11
  <2>13. StoreParts(t, b, d, d1, d2, d3, e)
    BY <1>2, <1>5, <1>8, <1>9, <2>4, <2>5, <2>11, <2>12 DEF StoreParts
  <2>14. QED BY <2>13
<1>10. CASE ~check_unpersisted_stores /\ e = Q!AfterStore(d, t, b, 1)
  <2>1. Q!Overwritten(d1, t, {b}) = d1
    BY DEF Q!Overwritten
  <2>2. n = Q!Over(data, d1.mem)
    BY <1>5, <1>8 DEF P!Over, Q!Over
  <2>3. e = [d1 EXCEPT !.mem = Q!Over(data, d1.mem)]
    BY <1>1, <1>3, <1>4, <1>6, <1>7, <1>10, <2>1 DEF Q!AfterStore, NewStore
  <2>4. /\ IsData(e) /\ e.mem = n /\ e.flushed = d1.flushed
        /\ e.records = d1.records /\ e.irh = d1.irh
    BY <1>5, <2>2, <2>3, Setting DEF IsData
  <2>5. StoreParts(t, b, d, d1, d1, d1, e)
    BY <1>2, <1>5, <1>8, <1>10, <2>4 DEF StoreParts
  <2>6. QED BY <2>5
<1>11. QED BY <1>9, <1>10 DEF IsStored

\* t's store to b makes e of d: it closes the windows `over`.
Storing(t, b, d, e, A, B, O, U, C, D, E, over) ==
  /\ IsData(d) /\ b \in Byte /\ IsStored(e, d, t, b)
  /\ A \in [Byte -> SUBSET Tid] /\ HeuristicOK(d.irh, A)
  /\ B = [A EXCEPT ![b] = @ \cup {t}]
  /\ MapsOK(t, d.mem, d.flushed, O, C, A) /\ RecordsOK(t, d.records, C, E)
  /\ over = OfByte(O, b)
  /\ D = C \cup ClosedBy(t, over, "store")
  /\ U = (O \ over) \cup {NewWindow(t, b)}
  /\ \A w \in D \ C : Cardinality(B[w.byte]) <= N =>
                        <<"window", t, w.store, w.byte>> \in E

(* A store closes the windows of its byte and opens one.                    *)
LEMMA StoreKeeps ==
  ASSUME NEW t \in Tid, Tracked(t), LocksOK(t), NEW b, NEW d, NEW e, NEW A, NEW B,
         NEW O, NEW U, NEW C, NEW D, NEW E, NEW over,
         Storing(t, b, d, e, A, B, O, U, C, D, E, over)
  PROVE  /\ IsData(e) /\ HeuristicOK(e.irh, B)
         /\ MapsOK(t, e.mem, e.flushed, U, D, B)
         /\ RecordsOK(t, e.records, D, E)
<1>0. /\ IsData(d) /\ b \in Byte /\ IsStored(e, d, t, b)
      /\ A \in [Byte -> SUBSET Tid] /\ HeuristicOK(d.irh, A)
      /\ B = [A EXCEPT ![b] = @ \cup {t}]
      /\ MapsOK(t, d.mem, d.flushed, O, C, A) /\ RecordsOK(t, d.records, C, E)
      /\ over = OfByte(O, b)
      /\ D = C \cup ClosedBy(t, over, "store")
      /\ U = (O \ over) \cup {NewWindow(t, b)}
      /\ \A w \in D \ C : Cardinality(B[w.byte]) <= N =>
                            <<"window", t, w.store, w.byte>> \in E
  BY DEF Storing
<1> USE <1>0
<1>1. PICK d1, d2, d3 : StoreParts(t, b, d, d1, d2, d3, e)
  BY StoreIs
<1>2. /\ IsData(d1) /\ d1.mem = d.mem /\ d1.flushed = d.flushed
      /\ d1.records = d.records /\ d1.irh = IP!HandleAccess(d.irh, t, b, 1, N).irh
      /\ IsData(e) /\ e.mem = StoredOver(t, b, d.mem)
      /\ e.records = d3.records /\ e.irh = d3.irh
  BY <1>1 DEF StoreParts
<1>3. HeuristicOK(d1.irh, B) /\ B \in [Byte -> SUBSET Tid]
  <2>1. PICK i, h : i = d.irh /\ h = IP!HandleAccess(i, t, b, 1, N)
    OBVIOUS
  <2>2. HeuristicOK(i, A) /\ d1.irh = h.irh
    BY <1>2, <2>1
  <2>3. HeuristicOK(h.irh, B) /\ B \in [Byte -> SUBSET Tid]
    BY <2>1, <2>2, AskedAnew
  <2>4. QED BY <2>2, <2>3
<1>4. t \in B[b] /\ \A x \in Byte : A[x] \subseteq B[x]
  OBVIOUS
<1>5. MapsOK(t, e.mem, e.flushed, U, D, B)
  <2>1. PICK m, f, g, n : /\ m = d.mem /\ f = d.flushed /\ g = e.flushed
                          /\ n = StoredOver(t, b, m)
    OBVIOUS
  <2>2. \/ check_unpersisted_stores /\ g = P!Without(f, {b})
        \/ ~check_unpersisted_stores /\ g = f
    BY <1>1, <2>1 DEF StoreParts
  <2>3. MapsOK(t, m, f, O, C, A) /\ n = e.mem
    BY <1>2, <2>1
  <2>4. PICK new : new = NewWindow(t, b)
    OBVIOUS
  <2>5. U = (O \ over) \cup {new}
    BY <2>4
  <2>6. MapsOK(t, n, g, U, D, B)
    BY <1>4, <2>1, <2>2, <2>3, <2>4, <2>5, StoreMaps
  <2>7. QED BY <2>1, <2>3, <2>6
<1>6. CASE check_unpersisted_stores
  <2>1. /\ IsRegistered(d2, d1, t, d1.mem, {b} \cap DOMAIN d1.mem, "store", "mem")
        /\ IsRegistered(d3, d2, t, d2.flushed, {b} \cap DOMAIN d2.flushed,
                        "store", "flushed")
    BY <1>1, <1>6 DEF StoreParts
  <2>2. PICK V1, V2, D1 : /\ V1 = {w \in over : ~w.flushed}
                          /\ V2 = {w \in over : w.flushed}
                          /\ D1 = C \cup ClosedBy(t, V1, "store")
    OBVIOUS
  <2>3. D = D1 \cup ClosedBy(t, V2, "store") /\ D1 \subseteq D
    BY <2>2 DEF ClosedBy
  <2>4. PICK f1, asked1 : f1 = d1.mem /\ asked1 = {b} \cap DOMAIN f1
    OBVIOUS
  <2>5. \A x \in asked1 : StandsFor(t, x, f1[x], V1, C)
    <3> SUFFICES ASSUME NEW x \in asked1 PROVE StandsFor(t, x, f1[x], V1, C)
      OBVIOUS
    <3>1. x = b /\ x \in DOMAIN d.mem /\ f1[x] = d.mem[x]
      BY <1>2, <2>4
    <3>2. PICK w \in O : ~w.flushed /\ Stands(t, w, x, d.mem[x])
      BY <3>1 DEF MapsOK
    <3>3. w \in V1
      BY <2>2, <3>1, <3>2 DEF Stands, OfByte
    <3>4. QED BY <3>1, <3>2, <3>3 DEF StandsFor
  <2>6. \A w \in V1 : /\ w.byte \in asked1 /\ Stands(t, w, w.byte, f1[w.byte])
                      /\ w.flushed <=> "mem" = "flushed"
    <3> SUFFICES ASSUME NEW w \in V1
                 PROVE  /\ w.byte \in asked1 /\ Stands(t, w, w.byte, f1[w.byte])
                        /\ w.flushed <=> "mem" = "flushed"
      OBVIOUS
    <3>1. w \in O /\ w.byte = b /\ ~w.flushed
      BY <2>2 DEF OfByte
    <3>2. w.byte \in DOMAIN d.mem /\ Stands(t, w, w.byte, d.mem[w.byte])
      BY <3>1 DEF MapsOK
    <3>3. "mem" # "flushed"
      OBVIOUS
    <3>4. QED BY <1>2, <2>4, <3>1, <3>2, <3>3
  <2>7. Closing(t, d1, f1, asked1, "store", "mem", B, C, V1, D1, E)
    <3>1. \A w \in D1 \ C : Cardinality(B[w.byte]) <= N =>
                              <<"window", t, w.store, w.byte>> \in E
      BY <2>3
    <3>2. asked1 \subseteq Byte /\ \A x \in asked1 : t \in B[x]
      BY <1>4, <2>4
    <3>3. RecordsOK(t, d1.records, C, E)
      BY <1>2
    <3>4. QED BY <1>3, <2>2, <2>5, <2>6, <3>1, <3>2, <3>3 DEF Closing
  <2>8. /\ IsData(d2) /\ d2.mem = d1.mem /\ d2.flushed = d1.flushed
        /\ HeuristicOK(d2.irh, B) /\ RecordsOK(t, d2.records, D1, E)
    <3>1. IsRegistered(d2, d1, t, f1, asked1, "store", "mem")
      BY <2>1, <2>4
    <3>2. QED BY <1>2, <2>7, <3>1, RegisterCloses
  <2>9. PICK f2, asked2 : f2 = d2.flushed /\ asked2 = {b} \cap DOMAIN f2
    OBVIOUS
  <2>10. f2 = d.flushed
    BY <1>2, <2>8, <2>9
  <2>11. \A x \in asked2 : StandsFor(t, x, f2[x], V2, D1)
    <3> SUFFICES ASSUME NEW x \in asked2 PROVE StandsFor(t, x, f2[x], V2, D1)
      OBVIOUS
    <3>1. x = b /\ x \in DOMAIN d.flushed /\ f2[x] = d.flushed[x]
      BY <2>9, <2>10
    <3>2. PICK w \in O : w.flushed /\ Stands(t, w, x, d.flushed[x])
      BY <1>6, <3>1 DEF MapsOK, KeptTooLong
    <3>3. w \in V2
      BY <2>2, <3>1, <3>2 DEF Stands, OfByte
    <3>4. QED BY <3>1, <3>2, <3>3 DEF StandsFor
  <2>12. \A w \in V2 : /\ w.byte \in asked2 /\ Stands(t, w, w.byte, f2[w.byte])
                       /\ w.flushed <=> "flushed" = "flushed"
    <3> SUFFICES ASSUME NEW w \in V2
                 PROVE  /\ w.byte \in asked2 /\ Stands(t, w, w.byte, f2[w.byte])
                        /\ w.flushed
      OBVIOUS
    <3>1. w \in O /\ w.byte = b /\ w.flushed
      BY <2>2 DEF OfByte
    <3>2. w.byte \in DOMAIN d.flushed /\ Stands(t, w, w.byte, d.flushed[w.byte])
      BY <3>1 DEF MapsOK
    <3>3. QED BY <2>9, <2>10, <3>1, <3>2
  <2>13. Closing(t, d2, f2, asked2, "store", "flushed", B, D1, V2, D, E)
    <3>1. \A w \in D \ D1 : Cardinality(B[w.byte]) <= N =>
                              <<"window", t, w.store, w.byte>> \in E
      BY <2>2
    <3>2. asked2 \subseteq Byte /\ \A x \in asked2 : t \in B[x]
      BY <1>4, <2>9
    <3>3. QED BY <1>3, <2>3, <2>8, <2>11, <2>12, <3>1, <3>2 DEF Closing
  <2>14. HeuristicOK(d3.irh, B) /\ RecordsOK(t, d3.records, D, E)
    <3>1. IsRegistered(d3, d2, t, f2, asked2, "store", "flushed")
      BY <2>1, <2>9
    <3>2. QED BY <2>8, <2>13, <3>1, RegisterCloses
  <2>15. QED BY <1>2, <1>5, <2>14
<1>7. CASE ~check_unpersisted_stores
  <2>1. d3 = d1
    BY <1>1, <1>7 DEF StoreParts
  <2>2. \A w \in D \ C : ~LookedFor(w)
    <3> SUFFICES ASSUME NEW c \in D \ C PROVE ~LookedFor(c)
      OBVIOUS
    <3>1. PICK w : c = W!Closed(t, w, "store")
      BY DEF ClosedBy
    <3>2. c.how = "store"
      BY <3>1, WindowFields
    <3>3. QED BY <1>7, <3>2 DEF LookedFor
  <2>3. C \subseteq D /\ E \subseteq E
    OBVIOUS
  <2>4. RecordsOK(t, d1.records, D, E)
    BY <1>2, <2>2, <2>3, RecordsWeaker
  <2>5. QED BY <1>2, <1>3, <1>5, <2>1, <2>4
<1>8. QED BY <1>6, <1>7

FlushedOf(O) == {w \in O : w.flushed}

\* The windows O after a flush of b's line, and once l protects them no more.
FlushedWith(w, b) == [w EXCEPT !.flushed = @ \/ W!Line(w.byte) = W!Line(b)]
FlushedAt(O, b) == {FlushedWith(w, b) : w \in O}
Unprotected(w, l) == [w EXCEPT !.locks = @ \ {l}]
UnprotectedBy(O, l) == {Unprotected(w, l) : w \in O}

\* t's fence makes e of d: it closes the windows V.
Fencing(t, d, e, A, O, U, C, D, E, V) ==
  /\ IsData(d) /\ (e = P!AfterFence(d, t) \/ e = Q!AfterFence(d, t))
  /\ A \in [Byte -> SUBSET Tid] /\ HeuristicOK(d.irh, A)
  /\ MapsOK(t, d.mem, d.flushed, O, C, A) /\ RecordsOK(t, d.records, C, E)
  /\ V = FlushedOf(O)
  /\ D = C \cup ClosedBy(t, V, "fence")
  /\ U = O \ V
  /\ \A w \in D \ C : Cardinality(A[w.byte]) <= N =>
                        <<"window", t, w.store, w.byte>> \in E

(* A fence closes the flushed windows.                                      *)
LEMMA FenceKeeps ==
  ASSUME NEW t \in Tid, Tracked(t), NEW d, NEW e, NEW A, NEW O, NEW U, NEW C, NEW D,
         NEW E, NEW V, Fencing(t, d, e, A, O, U, C, D, E, V)
  PROVE  /\ IsData(e) /\ HeuristicOK(e.irh, A)
         /\ MapsOK(t, e.mem, e.flushed, U, D, A)
         /\ RecordsOK(t, e.records, D, E)
<1>0. /\ IsData(d) /\ (e = P!AfterFence(d, t) \/ e = Q!AfterFence(d, t))
      /\ A \in [Byte -> SUBSET Tid] /\ HeuristicOK(d.irh, A)
      /\ MapsOK(t, d.mem, d.flushed, O, C, A) /\ RecordsOK(t, d.records, C, E)
      /\ V = FlushedOf(O)
      /\ D = C \cup ClosedBy(t, V, "fence")
      /\ U = O \ V
      /\ \A w \in D \ C : Cardinality(A[w.byte]) <= N =>
                            <<"window", t, w.store, w.byte>> \in E
  BY DEF Fencing
<1> USE <1>0
<1>1. PICK f, asked : f = d.flushed /\ asked = DOMAIN f
  OBVIOUS
<1>2. PICK d1 : /\ IsRegistered(d1, d, t, f, asked, "fence", "flushed")
                /\ e = [d1 EXCEPT !.flushed = P!NoStores]
  <2>1. ("fence" = "fence") = TRUE /\ ("flushed" = "flushed") = TRUE
    OBVIOUS
  <2>2. CASE e = P!AfterFence(d, t)
    <3>1. PICK d1 : d1 = P!Register(d, t, f, asked, "fence", TRUE, TRUE)
      OBVIOUS
    <3>2. e = [d1 EXCEPT !.flushed = P!NoStores]
      BY <1>1, <2>2, <3>1 DEF P!AfterFence
    <3>3. IsRegistered(d1, d, t, f, asked, "fence", "flushed")
      BY <2>1, <3>1 DEF IsRegistered
    <3>4. QED BY <3>2, <3>3
  <2>3. CASE e = Q!AfterFence(d, t)
    <3>1. PICK d1 : d1 = Q!Register(d, t, f, asked, "fence", TRUE, TRUE)
      OBVIOUS
    <3>2. e = [d1 EXCEPT !.flushed = Q!NoStores]
      BY <1>1, <2>3, <3>1 DEF Q!AfterFence
    <3>3. Q!NoStores = P!NoStores
      BY DEF Q!NoStores, P!NoStores
    <3>4. IsRegistered(d1, d, t, f, asked, "fence", "flushed")
      BY <2>1, <3>1 DEF IsRegistered
    <3>5. QED BY <3>2, <3>3, <3>4
  <2>4. QED BY <2>2, <2>3
<1>3. Closing(t, d, f, asked, "fence", "flushed", A, C, V, D, E)
  <2>1. asked \subseteq Byte /\ \A b \in asked : t \in A[b]
    BY <1>1 DEF MapsOK
  <2>2. \A b \in asked : StandsFor(t, b, f[b], V, C)
    BY <1>1 DEF MapsOK, StandsFor, FlushedOf
  <2>3. \A w \in V : /\ w.byte \in asked /\ Stands(t, w, w.byte, f[w.byte])
                     /\ w.flushed <=> "flushed" = "flushed"
    <3> SUFFICES ASSUME NEW w \in V
                 PROVE  w.byte \in asked /\ Stands(t, w, w.byte, f[w.byte]) /\ w.flushed
      OBVIOUS
    <3>1. w \in O /\ w.flushed
      BY DEF FlushedOf
    <3>2. QED BY <1>1, <3>1 DEF MapsOK
  <2>4. QED BY <2>1, <2>2, <2>3 DEF Closing
<1>4. /\ IsData(d1) /\ d1.mem = d.mem /\ d1.flushed = d.flushed
      /\ HeuristicOK(d1.irh, A) /\ RecordsOK(t, d1.records, D, E)
  BY <1>2, <1>3, RegisterCloses
<1>5. /\ IsData(e) /\ e.mem = d.mem /\ e.flushed = P!NoStores
      /\ e.records = d1.records /\ e.irh = d1.irh
  BY <1>2, <1>4, Setting DEF IsData
<1>6. DOMAIN P!NoStores = {}
  BY DEF P!NoStores
<1>7. \A w \in O : w \in U <=> ~w.flushed
  BY DEF FlushedOf
<1>8. PICK m, g : m = e.mem /\ g = e.flushed
  OBVIOUS
<1>9. MapsOK(t, m, g, U, D, A)
  <2>1. m = d.mem /\ DOMAIN g = {} /\ U \subseteq O
    BY <1>5, <1>6, <1>8
  <2>2. \A b \in DOMAIN m : \E w \in U : ~w.flushed /\ Stands(t, w, b, m[b])
    <3> SUFFICES ASSUME NEW b \in DOMAIN m
                 PROVE  \E w \in U : ~w.flushed /\ Stands(t, w, b, m[b])
      OBVIOUS
    <3>1. PICK w \in O : ~w.flushed /\ Stands(t, w, b, d.mem[b])
      BY <2>1 DEF MapsOK
    <3>2. QED BY <1>7, <2>1, <3>1
  <2>3. \A w \in U : ~w.flushed /\ w.byte \in DOMAIN m /\ Stands(t, w, w.byte, m[w.byte])
    <3> SUFFICES ASSUME NEW w \in U
                 PROVE  /\ ~w.flushed /\ w.byte \in DOMAIN m
                        /\ Stands(t, w, w.byte, m[w.byte])
      OBVIOUS
    <3>1. w \in O /\ ~w.flushed
      BY <1>7, <2>1
    <3>2. QED BY <2>1, <3>1 DEF MapsOK
  <2>4. /\ DOMAIN m \subseteq Byte /\ \A b \in DOMAIN m : t \in A[b]
        /\ \A v, w \in U : v.byte = w.byte => v = w
    BY <2>1 DEF MapsOK
  <2>5. QED BY <2>1, <2>2, <2>3, <2>4 DEF MapsOK
<1>10. QED BY <1>4, <1>5, <1>8, <1>9

\* t's end makes e of d: it closes all its windows O.
Ending(t, d, e, A, O, C, D, E) ==
  /\ IsData(d)
  /\ \/ check_unpersisted_stores /\ e = P!AfterExit(d, t)
     \/ ~check_unpersisted_stores /\ e = Q!AfterExit(d, t)
  /\ A \in [Byte -> SUBSET Tid] /\ HeuristicOK(d.irh, A)
  /\ MapsOK(t, d.mem, d.flushed, O, C, A) /\ RecordsOK(t, d.records, C, E)
  /\ D = C \cup ClosedBy(t, O, "exit")
  /\ \A w \in D \ C : Cardinality(A[w.byte]) <= N =>
                        <<"window", t, w.store, w.byte>> \in E

(* The end of a thread closes all its windows.                              *)
LEMMA ExitKeeps ==
  ASSUME NEW t \in Tid, Tracked(t), NEW d, NEW e, NEW A, NEW O, NEW C, NEW D, NEW E,
         Ending(t, d, e, A, O, C, D, E)
  PROVE  HeuristicOK(e.irh, A) /\ RecordsOK(t, e.records, D, E)
<1>0. /\ IsData(d)
      /\ \/ check_unpersisted_stores /\ e = P!AfterExit(d, t)
         \/ ~check_unpersisted_stores /\ e = Q!AfterExit(d, t)
      /\ A \in [Byte -> SUBSET Tid] /\ HeuristicOK(d.irh, A)
      /\ MapsOK(t, d.mem, d.flushed, O, C, A) /\ RecordsOK(t, d.records, C, E)
      /\ D = C \cup ClosedBy(t, O, "exit")
      /\ \A w \in D \ C : Cardinality(A[w.byte]) <= N =>
                            <<"window", t, w.store, w.byte>> \in E
  BY DEF Ending
<1> USE <1>0
<1>1. CASE check_unpersisted_stores /\ e = P!AfterExit(d, t)
  <2>1. PICK f1, asked1, f2, asked2 : /\ f1 = d.mem /\ asked1 = DOMAIN f1
                                      /\ f2 = d.flushed /\ asked2 = DOMAIN f2
    OBVIOUS
  <2>2. PICK d1 : d1 = P!Register(d, t, f1, asked1, "exit", FALSE, FALSE)
    OBVIOUS
  <2>3. e = P!Register(d1, t, f2, asked2, "exit", FALSE, TRUE)
    BY <1>1, <2>1, <2>2 DEF P!AfterExit
  <2>4. /\ ("exit" = "fence") = FALSE /\ ("mem" = "flushed") = FALSE
        /\ ("flushed" = "flushed") = TRUE
    OBVIOUS
  <2>5. /\ IsRegistered(d1, d, t, f1, asked1, "exit", "mem")
        /\ IsRegistered(e, d1, t, f2, asked2, "exit", "flushed")
    BY <2>2, <2>3, <2>4 DEF IsRegistered
  <2>6. PICK V1, V2, D1 : /\ V1 = {w \in O : ~w.flushed}
                          /\ V2 = {w \in O : w.flushed}
                          /\ D1 = C \cup ClosedBy(t, V1, "exit")
    OBVIOUS
  <2>7. D = D1 \cup ClosedBy(t, V2, "exit") /\ D1 \subseteq D
    BY <2>6 DEF ClosedBy
  <2>8. Closing(t, d, f1, asked1, "exit", "mem", A, C, V1, D1, E)
    <3>1. \A b \in asked1 : StandsFor(t, b, f1[b], V1, C)
      BY <2>1, <2>6 DEF MapsOK, StandsFor
    <3>2. \A w \in V1 : /\ w.byte \in asked1 /\ Stands(t, w, w.byte, f1[w.byte])
                        /\ w.flushed <=> "mem" = "flushed"
      BY <2>1, <2>6 DEF MapsOK
    <3>3. \A w \in D1 \ C : Cardinality(A[w.byte]) <= N =>
                              <<"window", t, w.store, w.byte>> \in E
      BY <2>7
    <3>4. asked1 \subseteq Byte /\ \A x \in asked1 : t \in A[x]
      BY <2>1 DEF MapsOK
    <3>5. QED BY <2>6, <3>1, <3>2, <3>3, <3>4 DEF Closing
  <2>9. IsData(d1) /\ HeuristicOK(d1.irh, A) /\ RecordsOK(t, d1.records, D1, E)
    BY <2>5, <2>8, RegisterCloses
  <2>10. Closing(t, d1, f2, asked2, "exit", "flushed", A, D1, V2, D, E)
    <3>1. \A b \in asked2 : StandsFor(t, b, f2[b], V2, D1)
      BY <1>1, <2>1, <2>6 DEF MapsOK, StandsFor, KeptTooLong
    <3>2. \A w \in V2 : /\ w.byte \in asked2 /\ Stands(t, w, w.byte, f2[w.byte])
                        /\ w.flushed <=> "flushed" = "flushed"
      BY <2>1, <2>6 DEF MapsOK
    <3>3. \A w \in D \ D1 : Cardinality(A[w.byte]) <= N =>
                              <<"window", t, w.store, w.byte>> \in E
      BY <2>6
    <3>4. asked2 \subseteq Byte /\ \A x \in asked2 : t \in A[x]
      BY <2>1 DEF MapsOK
    <3>5. QED BY <2>7, <2>9, <3>1, <3>2, <3>3, <3>4 DEF Closing
  <2>11. QED BY <2>5, <2>9, <2>10, RegisterCloses
<1>2. CASE ~check_unpersisted_stores /\ e = Q!AfterExit(d, t)
  <2>1. e = d
    BY <1>2 DEF Q!AfterExit
  <2>2. \A w \in D \ C : ~LookedFor(w)
    <3> SUFFICES ASSUME NEW c \in D \ C PROVE ~LookedFor(c)
      OBVIOUS
    <3>1. PICK w : c = W!Closed(t, w, "exit")
      BY DEF ClosedBy
    <3>2. c.how = "exit"
      BY <3>1, WindowFields
    <3>3. QED BY <1>2, <3>2 DEF LookedFor
  <2>3. C \subseteq D /\ E \subseteq E
    OBVIOUS
  <2>4. RecordsOK(t, d.records, D, E)
    BY <2>2, <2>3, RecordsWeaker
  <2>5. QED BY <2>1, <2>4
<1>3. QED BY <1>1, <1>2

LEMMA FlushedWindow ==
  ASSUME NEW t, NEW b, NEW w, IsWindow(w), NEW v,
         v = FlushedWith(w, b)
  PROVE  /\ IsWindow(v) /\ v.store = w.store /\ v.byte = w.byte /\ v.locks = w.locks
         /\ v.flushed <=> w.flushed \/ P!CacheLine(w.byte) = P!CacheLine(b)
         /\ \A x, data : Stands(t, w, x, data) => Stands(t, v, x, data)
<1>1. v = [store |-> w.store, byte |-> w.byte, locks |-> w.locks,
           flushed |-> w.flushed \/ W!Line(w.byte) = W!Line(b)]
  BY DEF IsWindow, FlushedWith
<1>2. /\ v.store = w.store /\ v.byte = w.byte /\ v.locks = w.locks
      /\ v.flushed = (w.flushed \/ W!Line(w.byte) = W!Line(b))
  BY <1>1
<1>3. IsWindow(v)
  BY <1>1, <1>2 DEF IsWindow
<1>4. W!Line(w.byte) = P!CacheLine(w.byte) /\ W!Line(b) = P!CacheLine(b)
  BY DEF W!Line, P!CacheLine
<1>5. v.flushed <=> w.flushed \/ P!CacheLine(w.byte) = P!CacheLine(b)
  BY <1>2, <1>4
<1>6. QED BY <1>2, <1>3, <1>5 DEF Stands

(* A flush moves the stores of its line.                                    *)
LEMMA FlushMaps ==
  ASSUME NEW t \in Tid, NEW m, NEW f, NEW O, NEW C, NEW A, MapsOK(t, m, f, O, C, A),
         NEW b, NEW line, line = P!InLine(m, b), NEW n, n = P!Without(m, line),
         NEW g, g = P!Over(P!Only(m, line), f), NEW U, U = FlushedAt(O, b)
  PROVE  MapsOK(t, n, g, U, C, A)
<1>1. /\ \A x \in DOMAIN m : x \in line <=> P!CacheLine(x) = P!CacheLine(b)
      /\ line \subseteq DOMAIN m
      /\ DOMAIN n = DOMAIN m \ line /\ \A x \in DOMAIN n : n[x] = m[x]
      /\ DOMAIN g = DOMAIN f \cup line
      /\ \A x \in line : g[x] = m[x]
      /\ \A x \in DOMAIN f : x \notin line => g[x] = f[x]
  BY DEF P!InLine, P!Without, P!Over, P!Only
<1>2. ASSUME NEW w \in O
      PROVE  \E v \in U : /\ v.byte = w.byte
                          /\ v.flushed <=> w.flushed \/ P!CacheLine(w.byte) = P!CacheLine(b)
                          /\ \A x, data : Stands(t, w, x, data) => Stands(t, v, x, data)
  <2>1. PICK v : v = FlushedWith(w, b)
    OBVIOUS
  <2>2. v \in U
    BY <2>1 DEF FlushedAt
  <2>3. IsWindow(w)
    BY DEF MapsOK, Stands
  <2>4. QED BY <2>1, <2>2, <2>3, FlushedWindow
<1>3. ASSUME NEW v \in U
      PROVE  \E w \in O : /\ v = FlushedWith(w, b)
                          /\ v.byte = w.byte
                          /\ v.flushed <=> w.flushed \/ P!CacheLine(w.byte) = P!CacheLine(b)
                          /\ \A x, data : Stands(t, w, x, data) => Stands(t, v, x, data)
  <2>1. PICK w \in O : v = FlushedWith(w, b)
    BY DEF FlushedAt
  <2>2. IsWindow(w)
    BY DEF MapsOK, Stands
  <2>3. /\ v.byte = w.byte
        /\ v.flushed <=> w.flushed \/ P!CacheLine(w.byte) = P!CacheLine(b)
        /\ \A x, data : Stands(t, w, x, data) => Stands(t, v, x, data)
    BY <2>1, <2>2, FlushedWindow
  <2>4. QED BY <2>1, <2>3
<1>4. /\ DOMAIN n \subseteq Byte /\ DOMAIN g \subseteq Byte
      /\ \A x \in DOMAIN n \cup DOMAIN g : t \in A[x]
  BY <1>1 DEF MapsOK
<1>5. \A x \in DOMAIN n : \E v \in U : ~v.flushed /\ Stands(t, v, x, n[x])
  <2> SUFFICES ASSUME NEW x \in DOMAIN n
               PROVE  \E v \in U : ~v.flushed /\ Stands(t, v, x, n[x])
    OBVIOUS
  <2>1. x \in DOMAIN m /\ n[x] = m[x] /\ P!CacheLine(x) # P!CacheLine(b)
    BY <1>1
  <2>2. PICK w \in O : ~w.flushed /\ Stands(t, w, x, m[x])
    BY <2>1 DEF MapsOK
  <2>3. w.byte = x
    BY <2>2 DEF Stands
  <2>4. QED BY <1>2, <2>1, <2>2, <2>3
<1>6. \A x \in DOMAIN g : \/ \E v \in U : v.flushed /\ Stands(t, v, x, g[x])
                          \/ \E w \in C : KeptTooLong(t, w) /\ w.store = g[x].backtrace
  <2> SUFFICES ASSUME NEW x \in DOMAIN g
               PROVE  \/ \E v \in U : v.flushed /\ Stands(t, v, x, g[x])
                      \/ \E w \in C : KeptTooLong(t, w) /\ w.store = g[x].backtrace
    OBVIOUS
  <2>1. CASE x \in line
    <3>1. x \in DOMAIN m /\ g[x] = m[x] /\ P!CacheLine(x) = P!CacheLine(b)
      BY <1>1, <2>1
    <3>2. PICK w \in O : ~w.flushed /\ Stands(t, w, x, m[x])
      BY <3>1 DEF MapsOK
    <3>3. w.byte = x
      BY <3>2 DEF Stands
    <3>4. QED BY <1>2, <3>1, <3>2, <3>3
  <2>2. CASE x \notin line
    <3>1. x \in DOMAIN f /\ g[x] = f[x]
      BY <1>1, <2>2
    <3>2. CASE \E w \in O : w.flushed /\ Stands(t, w, x, f[x])
      BY <1>2, <3>1, <3>2
    <3>3. CASE \E w \in C : KeptTooLong(t, w) /\ w.store = f[x].backtrace
      BY <3>1, <3>3
    <3>4. QED BY <3>1, <3>2, <3>3 DEF MapsOK
  <2>3. QED BY <2>1, <2>2
<1>7. ASSUME NEW v \in U
      PROVE  IF v.flushed THEN v.byte \in DOMAIN g /\ Stands(t, v, v.byte, g[v.byte])
                          ELSE v.byte \in DOMAIN n /\ Stands(t, v, v.byte, n[v.byte])
  <2>1. PICK w \in O : /\ v.byte = w.byte
                       /\ v.flushed <=> w.flushed \/ P!CacheLine(w.byte) = P!CacheLine(b)
                       /\ \A x, data : Stands(t, w, x, data) => Stands(t, v, x, data)
    BY <1>3
  <2>2. CASE w.flushed
    <3>1. w.byte \in DOMAIN f /\ Stands(t, w, w.byte, f[w.byte])
      BY <2>2 DEF MapsOK
    <3>2. w.byte \notin DOMAIN m
      <4> SUFFICES ASSUME w.byte \in DOMAIN m PROVE FALSE
        OBVIOUS
      <4>1. PICK u \in O : ~u.flushed /\ Stands(t, u, w.byte, m[w.byte])
        BY DEF MapsOK
      <4>2. u.byte = w.byte
        BY <4>1 DEF Stands
      <4>3. u = w
        BY <4>2 DEF MapsOK
      <4>4. QED BY <2>2, <4>1, <4>3
    <3>3. w.byte \in DOMAIN g /\ g[w.byte] = f[w.byte]
      BY <1>1, <3>1, <3>2
    <3>4. QED BY <2>1, <2>2, <3>1, <3>3
  <2>3. CASE ~w.flushed
    <3>1. w.byte \in DOMAIN m /\ Stands(t, w, w.byte, m[w.byte])
      BY <2>3 DEF MapsOK
    <3>2. CASE P!CacheLine(w.byte) = P!CacheLine(b)
      BY <1>1, <2>1, <3>1, <3>2
    <3>3. CASE P!CacheLine(w.byte) # P!CacheLine(b)
      BY <1>1, <2>1, <2>3, <3>1, <3>3
    <3>4. QED BY <3>2, <3>3
  <2>4. QED BY <2>2, <2>3
<1>8. ASSUME NEW u \in U, NEW v \in U, u.byte = v.byte
      PROVE  u = v
  <2>1. PICK w \in O : /\ u = FlushedWith(w, b)
                       /\ u.byte = w.byte
    BY <1>3
  <2>2. PICK x \in O : /\ v = FlushedWith(x, b)
                       /\ v.byte = x.byte
    BY <1>3
  <2>3. x = w
    BY <1>8, <2>1, <2>2 DEF MapsOK
  <2>4. QED BY <2>1, <2>2, <2>3
<1>9. QED BY <1>4, <1>5, <1>6, <1>7, <1>8 DEF MapsOK


(* Once l is taken or given up, no window is protected by it any more.      *)
LEMMA StandsUnprotected ==
  ASSUME NEW t \in Tid, LocksOK(t), NEW l, NEW w, NEW b, NEW data,
         Stands(t, w, b, data), NEW v, v = Unprotected(w, l),
         \/ /\ current_timedlockset'[t] =
                 P!TimedLock(current_timedlockset[t], l, lock_clock[t])
            /\ acquisitions'[t] = acquisitions[t] + 1
         \/ /\ current_timedlockset'[t] = P!TimedUnlock(current_timedlockset[t], l)
            /\ acquisitions'[t] = acquisitions[t]
  PROVE  Stands(t, v, b, data)' /\ v.flushed = w.flushed /\ v.byte = w.byte
<1>1. PICK old, new, s : /\ old = current_timedlockset[t] /\ new = current_timedlockset'[t]
                         /\ s = data.timed_lockset
  OBVIOUS
<1>2. /\ IsWindow(w) /\ w.byte = b /\ w.store = data.backtrace
      /\ w.locks \subseteq P!CommonLocks(old, s)
      /\ Fresh(t) => w.locks = P!CommonLocks(old, s)
      /\ Stamped(t, s)
  BY <1>1 DEF Stands
<1>3. /\ v.store = w.store /\ v.byte = w.byte /\ v.locks = w.locks \ {l}
      /\ v.flushed = w.flushed /\ IsWindow(v)
  <2>1. v = [store |-> w.store, byte |-> w.byte, locks |-> w.locks \ {l},
             flushed |-> w.flushed]
    BY <1>2 DEF IsWindow, Unprotected
  <2>2. QED BY <1>2, <2>1 DEF IsWindow
<1>4. /\ acquisitions[t] \in Nat /\ ClockModulus \in Nat /\ acquisitions'[t] \in Nat
      /\ acquisitions[t] <= acquisitions'[t]
  BY HawkSetAssumption DEF LocksOK
<1>5. Fresh(t)' => Fresh(t)
  BY <1>4 DEF Fresh
<1>6. P!CommonLocks(old, s) \ {l} \subseteq P!CommonLocks(new, s)
  BY <1>1 DEF P!CommonLocks, P!TimedLock, P!TimedUnlock
<1>7. ASSUME Fresh(t)' PROVE P!CommonLocks(old, s) \ {l} = P!CommonLocks(new, s)
  <2>1. CASE /\ new = P!TimedLock(old, l, lock_clock[t])
             /\ acquisitions'[t] = acquisitions[t] + 1
    <3>1. acquisitions[t] < ClockModulus
      BY <1>4, <1>7, <2>1 DEF Fresh
    <3>2. lock_clock[t] = acquisitions[t]
      BY <3>1 DEF LocksOK
    <3>3. \A k \in DOMAIN s : s[k] \in Nat /\ s[k] < acquisitions[t]
      BY <1>2, <1>5, <1>7 DEF Stamped
    <3>4. l \notin P!CommonLocks(new, s)
      BY <1>4, <2>1, <3>2, <3>3 DEF P!CommonLocks, P!TimedLock
    <3>5. \A k : k # l => (k \in P!CommonLocks(new, s) <=> k \in P!CommonLocks(old, s))
      BY <2>1 DEF P!CommonLocks, P!TimedLock
    <3>6. QED BY <3>4, <3>5
  <2>2. CASE new = P!TimedUnlock(old, l)
    BY <2>2 DEF P!CommonLocks, P!TimedUnlock
  <2>3. QED BY <1>1, <2>1, <2>2
<1>8. Stamped(t, s)'
  BY <1>2, <1>4, <1>5 DEF Stamped
<1>9. QED
  BY <1>1, <1>2, <1>3, <1>5, <1>6, <1>7, <1>8 DEF Stands, Stamped, Fresh

\* The stores of t and its windows, and its records and its windows.
MapsInv(t) ==
  MapsOK(t, mem_state[t], flushed_mem_state[t], open[t], closed[t], accessors)
RecordsInv(t) == RecordsOK(t, race_likely_stores[t], closed[t], initialising)

(* The stores m and f that a step leaves to t stand for the windows O it    *)
(* leaves open.                                                             *)
LEMMA MapsNext ==
  ASSUME NEW t \in Tid, current_timedlockset'[t] = current_timedlockset[t],
         acquisitions'[t] = acquisitions[t],
         check_unpersisted_stores' = check_unpersisted_stores,
         NEW m, NEW f, NEW O, NEW C, NEW A, MapsOK(t, m, f, O, C, A),
         mem_state'[t] = m, flushed_mem_state'[t] = f, open'[t] = O,
         closed'[t] = C, \A b \in Byte : A[b] \subseteq accessors'[b]
  PROVE  MapsInv(t)'
<1>1. \A w, b, data : Stands(t, w, b, data) => Stands(t, w, b, data)'
  BY DEF Stands, Stamped, Fresh
<1>2. \A w : KeptTooLong(t, w) => KeptTooLong(t, w)'
  BY DEF KeptTooLong
<1>3. MapsOK(t, m, f, O, C, accessors)'
  BY <1>1, <1>2 DEF MapsOK
<1>4. QED BY <1>3 DEF MapsInv, MapsOK

LEMMA RecordsNext ==
  ASSUME NEW t \in Tid, acquisitions[t] \in Nat, acquisitions'[t] \in Nat,
         acquisitions[t] <= acquisitions'[t],
         check_unpersisted_stores' = check_unpersisted_stores,
         Len(vector_clocks[t]) \in Nat, Len(vector_clocks'[t]) \in Nat,
         Len(vector_clocks[t]) <= Len(vector_clocks'[t]),
         NEW records, NEW C, NEW E, RecordsOK(t, records, C, E),
         race_likely_stores'[t] = records, closed'[t] = C, E \subseteq initialising'
  PROVE  RecordsInv(t)'
<1>1. Fresh(t)' => Fresh(t)
  BY HawkSetAssumption DEF Fresh
<1>2. \A r : IsRecord(t, r) => IsRecord(t, r)'
  BY DEF IsRecord
<1>3. \A w : /\ KeptTooLong(t, w)' <=> KeptTooLong(t, w)
             /\ LookedFor(w)' <=> LookedFor(w)
  BY DEF KeptTooLong, LookedFor
<1>4. RecordsOK(t, records, C, initialising)'
  <2>1. ASSUME NEW r \in records
        PROVE  /\ IsRecord(t, r)'
               /\ \E w \in C : \/ KeptTooLong(t, w)' /\ w.store = r.write_trace
                               \/ Tells(r, w)
    BY <1>2, <1>3 DEF RecordsOK
  <2>2. ASSUME NEW w \in C, LookedFor(w)',
               <<"window", t, w.store, w.byte>> \notin initialising'
        PROVE  \E r \in records : Tells(r, w) /\ (Fresh(t)' => r.common_set = w.locks)
    BY <1>1, <1>3, <2>2 DEF RecordsOK
  <2>3. QED BY <2>1, <2>2 DEF RecordsOK, Tells
<1>5. QED BY <1>4 DEF RecordsInv, RecordsOK, IsRecord, Tells, KeptTooLong, LookedFor, Fresh


LEMMA MapsUnprotected ==
  ASSUME NEW t \in Tid, LocksOK(t), NEW l,
         \/ /\ current_timedlockset'[t] =
                 P!TimedLock(current_timedlockset[t], l, lock_clock[t])
            /\ acquisitions'[t] = acquisitions[t] + 1
         \/ /\ current_timedlockset'[t] = P!TimedUnlock(current_timedlockset[t], l)
            /\ acquisitions'[t] = acquisitions[t],
         check_unpersisted_stores' = check_unpersisted_stores,
         NEW m, NEW f, NEW O, NEW C, NEW A, MapsOK(t, m, f, O, C, A),
         NEW U, U = UnprotectedBy(O, l),
         mem_state'[t] = m, flushed_mem_state'[t] = f, open'[t] = U,
         closed'[t] = C, \A b \in Byte : A[b] \subseteq accessors'[b]
  PROVE  MapsInv(t)'
<1>1. ASSUME NEW w, NEW b, NEW data, Stands(t, w, b, data)
      PROVE  \A v : v = Unprotected(w, l) =>
               Stands(t, v, b, data)' /\ v.flushed = w.flushed /\ v.byte = w.byte
  BY <1>1, StandsUnprotected
<1>2. \A w \in O : Unprotected(w, l) \in U
  BY DEF UnprotectedBy
<1>3. \A v \in U : \E w \in O : v = Unprotected(w, l)
  BY DEF UnprotectedBy
<1>4. \A w : KeptTooLong(t, w) => KeptTooLong(t, w)'
  BY DEF KeptTooLong
<1>5. \A w \in O : \E data : Stands(t, w, w.byte, data)
  BY DEF MapsOK
<1>6. MapsOK(t, m, f, U, C, accessors)'
  <2>1. /\ DOMAIN m \subseteq Byte /\ DOMAIN f \subseteq Byte
        /\ \A b \in DOMAIN m \cup DOMAIN f : t \in accessors'[b]
    BY DEF MapsOK
  <2>2. ASSUME NEW b \in DOMAIN m
        PROVE  \E v \in U : ~v.flushed /\ Stands(t, v, b, m[b])'
    <3>1. PICK w \in O : ~w.flushed /\ Stands(t, w, b, m[b])
      BY DEF MapsOK
    <3>2. PICK v : v = Unprotected(w, l)
      OBVIOUS
    <3>3. v \in U
      BY <1>2, <3>2
    <3>4. Stands(t, v, b, m[b])' /\ v.flushed = w.flushed
      BY <1>1, <3>1, <3>2
    <3>5. QED BY <3>1, <3>3, <3>4
  <2>3. ASSUME NEW b \in DOMAIN f
        PROVE  \/ \E v \in U : v.flushed /\ Stands(t, v, b, f[b])'
               \/ \E w \in C : KeptTooLong(t, w)' /\ w.store = f[b].backtrace
    <3>1. CASE \E w \in C : KeptTooLong(t, w) /\ w.store = f[b].backtrace
      BY <1>4, <3>1
    <3>2. CASE \E w \in O : w.flushed /\ Stands(t, w, b, f[b])
      <4>1. PICK w \in O : w.flushed /\ Stands(t, w, b, f[b])
        BY <3>2
      <4>2. PICK v : v = Unprotected(w, l)
        OBVIOUS
      <4>3. v \in U
        BY <1>2, <4>2
      <4>4. Stands(t, v, b, f[b])' /\ v.flushed = w.flushed
        BY <1>1, <4>1, <4>2
      <4>5. QED BY <4>1, <4>3, <4>4
    <3>3. QED BY <3>1, <3>2 DEF MapsOK
  <2>4. ASSUME NEW v \in U
        PROVE  IF v.flushed THEN v.byte \in DOMAIN f /\ Stands(t, v, v.byte, f[v.byte])'
                            ELSE v.byte \in DOMAIN m /\ Stands(t, v, v.byte, m[v.byte])'
    <3>1. PICK w \in O : v = Unprotected(w, l)
      BY <1>3
    <3>2. v.flushed = w.flushed /\ v.byte = w.byte
      BY <1>1, <1>5, <3>1
    <3>3. CASE w.flushed
      <4>1. w.byte \in DOMAIN f /\ Stands(t, w, w.byte, f[w.byte])
        BY <3>3 DEF MapsOK
      <4>2. Stands(t, v, w.byte, f[w.byte])'
        BY <1>1, <3>1, <4>1
      <4>3. QED BY <3>2, <3>3, <4>1, <4>2
    <3>4. CASE ~w.flushed
      <4>1. w.byte \in DOMAIN m /\ Stands(t, w, w.byte, m[w.byte])
        BY <3>4 DEF MapsOK
      <4>2. Stands(t, v, w.byte, m[w.byte])'
        BY <1>1, <3>1, <4>1
      <4>3. QED BY <3>2, <3>4, <4>1, <4>2
    <3>5. QED BY <3>3, <3>4
  <2>5. ASSUME NEW u \in U, NEW v \in U, u.byte = v.byte
        PROVE  u = v
    <3>1. PICK w \in O : u = Unprotected(w, l)
      BY <1>3
    <3>2. PICK x \in O : v = Unprotected(x, l)
      BY <1>3
    <3>3. u.byte = w.byte /\ v.byte = x.byte
      BY <1>1, <1>5, <3>1, <3>2
    <3>4. x = w
      BY <2>5, <3>3 DEF MapsOK
    <3>5. QED BY <3>1, <3>2, <3>4
  <2>6. QED BY <2>1, <2>2, <2>3, <2>4, <2>5 DEF MapsOK
<1>7. QED BY <1>6 DEF MapsInv, MapsOK


-----------------------------------------------------------------------------
(* Steps of one thread                                                     *)

\* Every thread has its data.
Tables ==
  /\ DOMAIN current_timedlockset = Tid /\ DOMAIN cached_timedlockset = Tid
  /\ DOMAIN lock_clock = Tid /\ DOMAIN mem_state = Tid
  /\ DOMAIN flushed_mem_state = Tid /\ DOMAIN race_likely_stores = Tid
  /\ DOMAIN race_likely_loads = Tid /\ DOMAIN now = Tid
  /\ DOMAIN acquisitions = Tid /\ DOMAIN depth = Tid /\ DOMAIN held = Tid
  /\ DOMAIN open = Tid /\ DOMAIN closed = Tid /\ DOMAIN reads = Tid
  /\ DOMAIN begun = Tid /\ DOMAIN ip = Tid

\* A step leaves the locks of u alone, what it has taken down, its pending
\* stores.
LocksKept(u) ==
  /\ current_timedlockset'[u] = current_timedlockset[u]
  /\ lock_clock'[u] = lock_clock[u] /\ acquisitions'[u] = acquisitions[u]
  /\ depth'[u] = depth[u] /\ held'[u] = held[u]
StoresKept(u) ==
  /\ mem_state'[u] = mem_state[u] /\ flushed_mem_state'[u] = flushed_mem_state[u]
  /\ race_likely_stores'[u] = race_likely_stores[u]
WindowsKept(u) ==
  /\ open'[u] = open[u] /\ closed'[u] = closed[u]
  /\ now'[u] = now[u] /\ begun'[u] = begun[u]
LoadsKept(u) ==
  race_likely_loads'[u] = race_likely_loads[u] /\ reads'[u] = reads[u]

Kept(u) ==
  /\ LocksKept(u) /\ cached_timedlockset'[u] = cached_timedlockset[u]
  /\ StoresKept(u) /\ WindowsKept(u) /\ LoadsKept(u)

\* A step of t.
StepOf(t) ==
  /\ Tables' /\ \A u \in Tid \ {t} : Kept(u) /\ ip'[u] = ip[u]
  /\ check_unpersisted_stores' = check_unpersisted_stores

\* The application makes a move, and its threads stay as they are.
OpStep(t) ==
  /\ StepOf(t) /\ pc[t] = "running" /\ ~analysed
  /\ pc' = pc /\ vector_clocks' = vector_clocks /\ ip'[t] = ip[t] + 1

\* t's stores become those of e, and so does the heuristic.
BecomesAt(t, e) ==
  /\ mem_state'[t] = e.mem /\ flushed_mem_state'[t] = e.flushed
  /\ race_likely_stores'[t] = e.records /\ irh' = e.irh

\* t may have interned its lockset.
MayIntern(t) ==
  cached_timedlockset'[t] \in {cached_timedlockset[t], {P!Timed(t)}}

\* t has stored to b.
StoreNoted(t, b) ==
  /\ now'[t] = now[t] + 1
  /\ DOMAIN begun'[t] = DOMAIN begun[t] \cup {now[t]}
  /\ begun'[t][now[t]] = Segments[t]
  /\ \A s \in DOMAIN begun[t] : s # now[t] => begun'[t][s] = begun[t][s]
  /\ accessors' = [accessors EXCEPT ![b] = @ \cup {t}]

LEMMA SameData ==
  ASSUME NEW t
  PROVE  Q!Data(t) = P!Data(t) /\ Q!Timed(t) = P!Timed(t) /\ IsData(P!Data(t))
BY DEF Q!Data, P!Data, Q!Timed, P!Timed, IsData

LEMMA StoreEffect ==
  ASSUME Tables, NEW t \in Tid, Store(t)
  PROVE  /\ OpStep(t) /\ LocksKept(t) /\ LoadsKept(t) /\ MayIntern(t)
         /\ caught' = caught /\ NoteClosed(t)
         /\ \E b \in Byte : \E e :
              /\ IsStored(e, P!Data(t), t, b) /\ BecomesAt(t, e) /\ StoreNoted(t, b)
              /\ open'[t] = (open[t] \ OfByte(open[t], b)) \cup {NewWindow(t, b)}
              /\ closed'[t] = closed[t] \cup ClosedBy(t, OfByte(open[t], b), "store")
<1>1. PICK b \in Byte : /\ At(t, <<"store", b>>) /\ UNCHANGED threads
                        /\ TrackStore(t, b) /\ W!Store(t, {b})
                        /\ NoteStore(t, b) /\ Advance(t)
  BY DEF Store
<1>2. /\ pc[t] = "running" /\ ~analysed /\ pc' = pc /\ vector_clocks' = vector_clocks
      /\ DOMAIN ip' = Tid /\ ip'[t] = ip[t] + 1 /\ \A u \in Tid \ {t} : ip'[u] = ip[u]
      /\ check_unpersisted_stores' = check_unpersisted_stores
  BY <1>1 DEF At, Advance, threads, Tables
<1>3. PICK e : IsStored(e, P!Data(t), t, b) /\ P!Become(t, e)
  <2>1. CASE check_unpersisted_stores /\ P!Store(t, b, 1)
    BY <2>1 DEF P!Store, IsStored
  <2>2. CASE ~check_unpersisted_stores /\ Q!Store(t, b, 1)
    <3>1. PICK e : e = Q!AfterStore(P!Data(t), t, b, 1) /\ Q!Become(t, e)
      BY <2>2, SameData DEF Q!Store
    <3>2. P!Become(t, e)
      BY <3>1 DEF P!Become, Q!Become
    <3>3. QED BY <2>2, <3>1, <3>2 DEF IsStored
  <2>3. QED BY <1>1, <2>1, <2>2 DEF TrackStore
<1>4. /\ cached_timedlockset' = [cached_timedlockset EXCEPT ![t] = {P!Timed(t)}]
      /\ now' = [now EXCEPT ![t] = @ + 1]
      /\ UNCHANGED <<current_timedlockset, lock_clock, race_likely_loads,
                     acquisitions, depth>>
  BY <1>1, SameData DEF TrackStore, P!Store, Q!Store, P!Intern, Q!Intern,
     P!NoteStore, Q!NoteStore, P!owned, Q!owned
<1>5. /\ closed' = [closed EXCEPT ![t] = @ \cup ClosedBy(t, OfByte(open[t], b), "store")]
      /\ open' = [open EXCEPT ![t] = (@ \ OfByte(open[t], b)) \cup {NewWindow(t, b)}]
      /\ UNCHANGED <<held, reads>>
  <2>1. W!Overwritten(t, {b}) = OfByte(open[t], b)
    BY DEF W!Overwritten, OfByte
  <2>2. W!Opened(t, {b}) = {NewWindow(t, b)}
    BY DEF W!Opened, NewWindow
  <2>3. QED BY <1>1, <2>1, <2>2 DEF W!Store, W!CloseAndOpen, ClosedBy
<1>6. /\ begun' = [begun EXCEPT ![t] = [s \in DOMAIN @ \cup {now[t]} |->
                                          IF s = now[t] THEN Segments[t] ELSE @[s]]]
      /\ accessors' = [accessors EXCEPT ![b] = @ \cup {t}]
      /\ NoteClosed(t) /\ caught' = caught
  BY <1>1 DEF NoteStore, Accessing
<1>7. /\ mem_state' = [mem_state EXCEPT ![t] = e.mem]
      /\ flushed_mem_state' = [flushed_mem_state EXCEPT ![t] = e.flushed]
      /\ race_likely_stores' = [race_likely_stores EXCEPT ![t] = e.records]
      /\ irh' = e.irh
  BY <1>3 DEF P!Become
<1>8. OpStep(t)
  <2>1. Tables'
    BY <1>2, <1>4, <1>5, <1>6, <1>7 DEF Tables
  <2>2. \A u \in Tid \ {t} : LocksKept(u) /\ cached_timedlockset'[u] = cached_timedlockset[u]
    BY <1>4, <1>5 DEF Tables, LocksKept
  <2>3. \A u \in Tid \ {t} : StoresKept(u) /\ LoadsKept(u)
    BY <1>4, <1>5, <1>7 DEF Tables, StoresKept, LoadsKept
  <2>4. \A u \in Tid \ {t} : WindowsKept(u)
    BY <1>4, <1>5, <1>6 DEF Tables, WindowsKept
  <2>5. QED BY <1>2, <2>1, <2>2, <2>3, <2>4 DEF OpStep, StepOf, Kept
<1>9. LocksKept(t) /\ LoadsKept(t) /\ MayIntern(t)
  BY <1>4, <1>5 DEF Tables, LocksKept, LoadsKept, MayIntern
<1>10. BecomesAt(t, e)
  BY <1>7 DEF Tables, BecomesAt
<1>11. StoreNoted(t, b)
  BY <1>4, <1>6 DEF Tables, StoreNoted
<1>12. /\ open'[t] = (open[t] \ OfByte(open[t], b)) \cup {NewWindow(t, b)}
       /\ closed'[t] = closed[t] \cup ClosedBy(t, OfByte(open[t], b), "store")
  BY <1>5 DEF Tables
<1>13. QED BY <1>3, <1>6, <1>8, <1>9, <1>10, <1>11, <1>12


\* e comes from d by a fence of t, of P or of Q.
IsFenced(e, d, t) == e = P!AfterFence(d, t) \/ e = Q!AfterFence(d, t)

LEMMA RMWEffect ==
  ASSUME Tables, NEW t \in Tid, RMW(t)
  PROVE  /\ OpStep(t) /\ LocksKept(t) /\ LoadsKept(t) /\ MayIntern(t)
         /\ caught' = caught /\ NoteClosed(t)
         /\ \E b \in Byte : \E d, e, over :
              /\ IsStored(d, P!Data(t), t, b) /\ IsFenced(e, d, t)
              /\ BecomesAt(t, e) /\ StoreNoted(t, b)
              /\ over = OfByte(open[t], b)
              /\ open'[t] = (open[t] \ (over \cup FlushedOf(open[t])))
                              \cup {NewWindow(t, b)}
              /\ closed'[t] = closed[t] \cup ClosedBy(t, over, "store")
                                \cup ClosedBy(t, FlushedOf(open[t]) \ over, "fence")
<1>1. PICK b \in Byte : /\ At(t, <<"rmw", b>>) /\ UNCHANGED threads
                        /\ TrackRMW(t, b) /\ W!Atomic(t, {b})
                        /\ NoteStore(t, b) /\ Advance(t)
  BY DEF RMW
<1>2. /\ pc[t] = "running" /\ ~analysed /\ pc' = pc /\ vector_clocks' = vector_clocks
      /\ DOMAIN ip' = Tid /\ ip'[t] = ip[t] + 1 /\ \A u \in Tid \ {t} : ip'[u] = ip[u]
      /\ check_unpersisted_stores' = check_unpersisted_stores
  BY <1>1 DEF At, Advance, threads, Tables
<1>3. PICK d, e : /\ IsStored(d, P!Data(t), t, b) /\ IsFenced(e, d, t)
                  /\ P!Become(t, e)
  <2>1. CASE check_unpersisted_stores /\ P!RMW(t, b, 1)
    <3>1. PICK d : d = P!AfterStore(P!Data(t), t, b, 1)
      OBVIOUS
    <3>2. PICK e : e = P!AfterFence(d, t)
      OBVIOUS
    <3>3. P!Become(t, e)
      BY <2>1, <3>1, <3>2 DEF P!RMW
    <3>4. QED BY <2>1, <3>1, <3>2, <3>3 DEF IsStored, IsFenced
  <2>2. CASE ~check_unpersisted_stores /\ Q!RMW(t, b, 1)
    <3>1. PICK d : d = Q!AfterStore(P!Data(t), t, b, 1)
      OBVIOUS
    <3>2. PICK e : e = Q!AfterFence(d, t)
      OBVIOUS
    <3>3. Q!Become(t, e)
      BY <2>2, <3>1, <3>2, SameData DEF Q!RMW
    <3>4. P!Become(t, e)
      BY <3>3 DEF P!Become, Q!Become
    <3>5. QED BY <2>2, <3>1, <3>2, <3>4 DEF IsStored, IsFenced
  <2>3. QED BY <1>1, <2>1, <2>2 DEF TrackRMW
<1>4. /\ cached_timedlockset' = [cached_timedlockset EXCEPT ![t] = {P!Timed(t)}]
      /\ now' = [now EXCEPT ![t] = @ + 1]
      /\ UNCHANGED <<current_timedlockset, lock_clock, race_likely_loads,
                     acquisitions, depth>>
  BY <1>1, SameData DEF TrackRMW, P!RMW, Q!RMW, P!Intern, Q!Intern,
     P!NoteStore, Q!NoteStore, P!owned, Q!owned
<1>5. PICK over : over = OfByte(open[t], b)
  OBVIOUS
<1>5a. /\ closed' = [closed EXCEPT ![t] =
                     @ \cup ClosedBy(t, over, "store")
                       \cup ClosedBy(t, FlushedOf(open[t]) \ over, "fence")]
      /\ open' = [open EXCEPT ![t] =
                   (@ \ (over \cup FlushedOf(open[t]))) \cup {NewWindow(t, b)}]
      /\ UNCHANGED <<held, reads>>
  <2>1. W!Overwritten(t, {b}) = over /\ W!Flushed(t) = FlushedOf(open[t])
    BY <1>5 DEF W!Overwritten, OfByte, W!Flushed, FlushedOf
  <2>2. W!Opened(t, {b}) = {NewWindow(t, b)}
    BY DEF W!Opened, NewWindow
  <2>3. QED BY <1>1, <2>1, <2>2 DEF W!Atomic, ClosedBy
<1>6. /\ begun' = [begun EXCEPT ![t] = [s \in DOMAIN @ \cup {now[t]} |->
                                          IF s = now[t] THEN Segments[t] ELSE @[s]]]
      /\ accessors' = [accessors EXCEPT ![b] = @ \cup {t}]
      /\ NoteClosed(t) /\ caught' = caught
  BY <1>1 DEF NoteStore, Accessing
<1>7. /\ mem_state' = [mem_state EXCEPT ![t] = e.mem]
      /\ flushed_mem_state' = [flushed_mem_state EXCEPT ![t] = e.flushed]
      /\ race_likely_stores' = [race_likely_stores EXCEPT ![t] = e.records]
      /\ irh' = e.irh
  BY <1>3 DEF P!Become
<1>8. OpStep(t)
  <2>1. Tables'
    BY <1>2, <1>4, <1>5a, <1>6, <1>7 DEF Tables
  <2>2. \A u \in Tid \ {t} : LocksKept(u) /\ cached_timedlockset'[u] = cached_timedlockset[u]
    BY <1>4, <1>5a DEF Tables, LocksKept
  <2>3. \A u \in Tid \ {t} : StoresKept(u) /\ LoadsKept(u)
    BY <1>4, <1>5a, <1>7 DEF Tables, StoresKept, LoadsKept
  <2>4. \A u \in Tid \ {t} : WindowsKept(u)
    BY <1>4, <1>5a, <1>6 DEF Tables, WindowsKept
  <2>5. QED BY <1>2, <2>1, <2>2, <2>3, <2>4 DEF OpStep, StepOf, Kept
<1>9. LocksKept(t) /\ LoadsKept(t) /\ MayIntern(t)
  BY <1>4, <1>5a DEF Tables, LocksKept, LoadsKept, MayIntern
<1>10. BecomesAt(t, e)
  BY <1>7 DEF Tables, BecomesAt
<1>11. StoreNoted(t, b)
  BY <1>4, <1>6 DEF Tables, StoreNoted
<1>12. /\ open'[t] = (open[t] \ (over \cup FlushedOf(open[t]))) \cup {NewWindow(t, b)}
       /\ closed'[t] = closed[t] \cup ClosedBy(t, over, "store")
                         \cup ClosedBy(t, FlushedOf(open[t]) \ over, "fence")
  BY <1>5a DEF Tables
<1>13. QED BY <1>3, <1>5, <1>6, <1>8, <1>9, <1>10, <1>11, <1>12

LEMMA FenceEffect ==
  ASSUME Tables, NEW t \in Tid, Fence(t)
  PROVE  /\ OpStep(t) /\ LocksKept(t) /\ LoadsKept(t) /\ MayIntern(t)
         /\ caught' = caught /\ accessors' = accessors /\ NoteClosed(t)
         /\ now'[t] = now[t] /\ begun'[t] = begun[t]
         /\ \E e : IsFenced(e, P!Data(t), t) /\ BecomesAt(t, e)
         /\ open'[t] = open[t] \ FlushedOf(open[t])
         /\ closed'[t] = closed[t] \cup ClosedBy(t, FlushedOf(open[t]), "fence")
<1>1. /\ At(t, <<"fence">>) /\ UNCHANGED threads
      /\ P!Fence(t) /\ W!Fence(t)
      /\ UNCHANGED <<begun, caught, accessors>>
      /\ NoteClosed(t) /\ Advance(t)
  BY DEF Fence
<1>2. /\ pc[t] = "running" /\ ~analysed /\ pc' = pc /\ vector_clocks' = vector_clocks
      /\ DOMAIN ip' = Tid /\ ip'[t] = ip[t] + 1 /\ \A u \in Tid \ {t} : ip'[u] = ip[u]
      /\ check_unpersisted_stores' = check_unpersisted_stores
  BY <1>1 DEF At, Advance, threads, Tables
<1>3. PICK e : IsFenced(e, P!Data(t), t) /\ P!Become(t, e)
  BY <1>1 DEF P!Fence, IsFenced
<1>4. /\ cached_timedlockset' = [cached_timedlockset EXCEPT ![t] = {P!Timed(t)}]
      /\ UNCHANGED <<current_timedlockset, lock_clock, race_likely_loads, now,
                     acquisitions, depth>>
  BY <1>1 DEF P!Fence, P!Intern, P!owned, P!time
<1>5. /\ closed' = [closed EXCEPT ![t] = @ \cup ClosedBy(t, FlushedOf(open[t]), "fence")]
      /\ open' = [open EXCEPT ![t] = @ \ FlushedOf(open[t])]
      /\ UNCHANGED <<held, reads>>
  <2>1. W!Flushed(t) = FlushedOf(open[t])
    BY DEF W!Flushed, FlushedOf
  <2>2. (open[t] \ FlushedOf(open[t])) \cup {} = open[t] \ FlushedOf(open[t])
    OBVIOUS
  <2>3. QED BY <1>1, <2>1, <2>2 DEF W!Fence, W!CloseAndOpen, ClosedBy
<1>6. /\ mem_state' = [mem_state EXCEPT ![t] = e.mem]
      /\ flushed_mem_state' = [flushed_mem_state EXCEPT ![t] = e.flushed]
      /\ race_likely_stores' = [race_likely_stores EXCEPT ![t] = e.records]
      /\ irh' = e.irh
  BY <1>3 DEF P!Become
<1>7. OpStep(t)
  <2>1. Tables'
    BY <1>1, <1>2, <1>4, <1>5, <1>6 DEF Tables
  <2>2. \A u \in Tid \ {t} : LocksKept(u) /\ cached_timedlockset'[u] = cached_timedlockset[u]
    BY <1>4, <1>5 DEF Tables, LocksKept
  <2>3. \A u \in Tid \ {t} : StoresKept(u) /\ LoadsKept(u)
    BY <1>4, <1>5, <1>6 DEF Tables, StoresKept, LoadsKept
  <2>4. \A u \in Tid \ {t} : WindowsKept(u)
    BY <1>1, <1>4, <1>5 DEF Tables, WindowsKept
  <2>5. QED BY <1>2, <2>1, <2>2, <2>3, <2>4 DEF OpStep, StepOf, Kept
<1>8. LocksKept(t) /\ LoadsKept(t) /\ MayIntern(t)
  BY <1>4, <1>5 DEF Tables, LocksKept, LoadsKept, MayIntern
<1>9. BecomesAt(t, e)
  BY <1>6 DEF Tables, BecomesAt
<1>10. /\ open'[t] = open[t] \ FlushedOf(open[t])
       /\ closed'[t] = closed[t] \cup ClosedBy(t, FlushedOf(open[t]), "fence")
  BY <1>5 DEF Tables
<1>11. QED BY <1>1, <1>3, <1>4, <1>7, <1>8, <1>9, <1>10

LEMMA FlushEffect ==
  ASSUME Tables, NEW t \in Tid, Flush(t)
  PROVE  /\ OpStep(t) /\ LocksKept(t) /\ LoadsKept(t) /\ MayIntern(t)
         /\ UNCHANGED history /\ irh' = irh
         /\ now'[t] = now[t] /\ closed'[t] = closed[t]
         /\ race_likely_stores'[t] = race_likely_stores[t]
         /\ \E b \in Byte : \E m, line :
              /\ m = mem_state[t] /\ line = P!InLine(m, b)
              /\ mem_state'[t] = P!Without(m, line)
              /\ flushed_mem_state'[t] = P!Over(P!Only(m, line), flushed_mem_state[t])
              /\ open'[t] = FlushedAt(open[t], b)
<1>1. PICK b \in Byte : /\ At(t, <<"flush", b>>) /\ UNCHANGED threads
                        /\ P!Flush(t, b) /\ W!Flush(t, b)
                        /\ UNCHANGED history /\ Advance(t)
  BY DEF Flush
<1>2. /\ pc[t] = "running" /\ ~analysed /\ pc' = pc /\ vector_clocks' = vector_clocks
      /\ DOMAIN ip' = Tid /\ ip'[t] = ip[t] + 1 /\ \A u \in Tid \ {t} : ip'[u] = ip[u]
      /\ check_unpersisted_stores' = check_unpersisted_stores /\ begun' = begun
  BY <1>1 DEF At, Advance, threads, Tables, history
<1>3. PICK d, e : d = P!Data(t) /\ e = P!AfterFlush(d, b) /\ P!Become(t, e)
  BY <1>1 DEF P!Flush
<1>4. PICK m, f, line : m = mem_state[t] /\ f = flushed_mem_state[t] /\ line = P!InLine(m, b)
  OBVIOUS
<1>5. /\ IsData(d) /\ d.mem = m /\ d.flushed = f
      /\ d.records = race_likely_stores[t] /\ d.irh = irh
  BY <1>3, <1>4 DEF P!Data, IsData
<1>6. /\ e.mem = P!Without(m, line) /\ e.flushed = P!Over(P!Only(m, line), f)
      /\ e.records = race_likely_stores[t] /\ e.irh = irh
  <2>1. PICK g, n : g = P!Over(P!Only(m, line), f) /\ n = P!Without(m, line)
    OBVIOUS
  <2>2. e = [d EXCEPT !.flushed = g, !.mem = n]
    BY <1>3, <1>4, <1>5, <2>1 DEF P!AfterFlush
  <2>3. PICK d1 : d1 = [d EXCEPT !.flushed = g]
    OBVIOUS
  <2>4. e = [d1 EXCEPT !.mem = n]
    BY <2>2, <2>3, Zenon
  <2>5. /\ IsData(d1) /\ d1.mem = d.mem /\ d1.flushed = g /\ d1.records = d.records
        /\ d1.irh = d.irh
    BY <1>5, <2>3, Setting DEF IsData
  <2>6. e.mem = n /\ e.flushed = g /\ e.records = d.records /\ e.irh = d.irh
    BY <2>4, <2>5, Setting
  <2>7. QED BY <1>5, <2>1, <2>6
<1>7. /\ mem_state' = [mem_state EXCEPT ![t] = e.mem]
      /\ flushed_mem_state' = [flushed_mem_state EXCEPT ![t] = e.flushed]
      /\ race_likely_stores' = [race_likely_stores EXCEPT ![t] = e.records]
      /\ irh' = e.irh
  BY <1>3 DEF P!Become
<1>8. UNCHANGED <<current_timedlockset, cached_timedlockset, lock_clock,
                  race_likely_loads, now, acquisitions, depth, held, reads, closed>>
  BY <1>1 DEF P!Flush, P!locks, P!time, P!owned, W!Flush
<1>9. open' = [open EXCEPT ![t] = FlushedAt(open[t], b)]
  BY <1>1 DEF W!Flush, FlushedAt, FlushedWith
<1>10. OpStep(t)
  <2>1. Tables'
    BY <1>2, <1>7, <1>8, <1>9 DEF Tables
  <2>2. \A u \in Tid \ {t} : LocksKept(u) /\ cached_timedlockset'[u] = cached_timedlockset[u]
    BY <1>8 DEF Tables, LocksKept
  <2>3. \A u \in Tid \ {t} : StoresKept(u) /\ LoadsKept(u)
    BY <1>7, <1>8 DEF Tables, StoresKept, LoadsKept
  <2>4. \A u \in Tid \ {t} : WindowsKept(u)
    BY <1>2, <1>8, <1>9 DEF Tables, WindowsKept
  <2>5. QED BY <1>2, <2>1, <2>2, <2>3, <2>4 DEF OpStep, StepOf, Kept
<1>11. LocksKept(t) /\ LoadsKept(t) /\ MayIntern(t)
  BY <1>8 DEF LocksKept, LoadsKept, MayIntern
<1>12. /\ mem_state'[t] = P!Without(m, line)
       /\ flushed_mem_state'[t] = P!Over(P!Only(m, line), f)
       /\ race_likely_stores'[t] = race_likely_stores[t]
       /\ irh' = irh /\ open'[t] = FlushedAt(open[t], b)
  BY <1>6, <1>7, <1>9 DEF Tables
<1>13. QED BY <1>1, <1>4, <1>8, <1>10, <1>11, <1>12


NewRead(t, b) ==
  [byte |-> b, locks |-> held[t], segment |-> Segments[t], id |-> ip[t]]
NewLoad(t, b) ==
  [address |-> b, mask |-> {0}, backtrace |-> ip[t],
   clock_i |-> (Segments[t] - 1) % IndexModulus, lockset |-> DOMAIN P!Timed(t)]

\* What t's load of b catches.
CaughtBy(t, b) ==
  UNION {{<<u, w.store, b, t, ip[t]>> : w \in {v \in open[u] : v.byte = b}} :
           u \in Tid \ {t}}

LoadNoted(t, b) ==
  /\ accessors' = [accessors EXCEPT ![b] = @ \cup {t}]
  /\ reads'[t] = reads[t] \cup {NewRead(t, b)}
  /\ caught' = caught \cup CaughtBy(t, b)
  /\ initialising' = initialising \cup
       {<<"load", t, i, b>> : i \in {j \in {ip[t]} : Cardinality(accessors'[b]) <= N}}

LEMMA LoadEffect ==
  ASSUME Tables, NEW t \in Tid, Load(t)
  PROVE  /\ OpStep(t) /\ LocksKept(t) /\ StoresKept(t) /\ WindowsKept(t) /\ MayIntern(t)
         /\ \E b \in Byte : \E h :
              /\ h = IP!HandleAccess(irh, t, b, 1, N) /\ irh' = h.irh
              /\ LoadNoted(t, b)
              /\ h.mask = {} => race_likely_loads'[t] = race_likely_loads[t]
              /\ h.mask = {0} => race_likely_loads'[t] =
                                   race_likely_loads[t] \cup {NewLoad(t, b)}
<1>1. PICK b \in Byte :
        /\ At(t, <<"load", b>>) /\ UNCHANGED threads
        /\ P!Load(t, b, 1, ip[t]) /\ W!Load(t, {b}, ip[t])
        /\ caught' = caught \cup CaughtBy(t, b)
        /\ Accessing(t, b)
        /\ initialising' = initialising \cup
             {<<"load", t, i, b>> : i \in {j \in {ip[t]} : Cardinality(accessors'[b]) <= N}}
        /\ UNCHANGED begun
        /\ Advance(t)
  BY DEF Load, CaughtBy
<1>2. /\ pc[t] = "running" /\ ~analysed /\ pc' = pc /\ vector_clocks' = vector_clocks
      /\ DOMAIN ip' = Tid /\ ip'[t] = ip[t] + 1 /\ \A u \in Tid \ {t} : ip'[u] = ip[u]
      /\ check_unpersisted_stores' = check_unpersisted_stores
  BY <1>1 DEF At, Advance, threads, Tables
<1>3. PICK h : h = IP!HandleAccess(irh, t, b, 1, N)
  OBVIOUS
<1>4. P!HandleAccess(irh, t, b, 1, N) = h
  BY <1>3, SameHeuristic
<1>5. /\ irh' = h.irh
      /\ IF h.mask = {}
           THEN UNCHANGED <<race_likely_loads, cached_timedlockset>>
           ELSE /\ race_likely_loads' =
                     [race_likely_loads EXCEPT ![t] = @ \cup
                        {[address |-> b, mask |-> h.mask, backtrace |-> ip[t],
                          clock_i |-> P!ClockIndex(t), lockset |-> DOMAIN P!Timed(t)]}]
                /\ P!Intern(t)
  BY <1>1, <1>4 DEF P!Load
<1>6. P!ClockIndex(t) = (Segments[t] - 1) % IndexModulus
  BY DEF P!ClockIndex
<1>7. /\ h.mask = {} => race_likely_loads'[t] = race_likely_loads[t]
      /\ h.mask = {0} => race_likely_loads'[t] = race_likely_loads[t] \cup {NewLoad(t, b)}
      /\ MayIntern(t)
      /\ DOMAIN race_likely_loads' = Tid /\ DOMAIN cached_timedlockset' = Tid
      /\ \A u \in Tid \ {t} : /\ race_likely_loads'[u] = race_likely_loads[u]
                              /\ cached_timedlockset'[u] = cached_timedlockset[u]
  <2>1. CASE h.mask = {}
    <3>1. h.mask # {0}
      BY <2>1
    <3>2. QED BY <1>5, <2>1, <3>1 DEF Tables, MayIntern
  <2>2. CASE h.mask # {}
    <3>1. PICK l : l = [address |-> b, mask |-> h.mask, backtrace |-> ip[t],
                        clock_i |-> P!ClockIndex(t), lockset |-> DOMAIN P!Timed(t)]
      OBVIOUS
    <3>2. h.mask = {0} => l = NewLoad(t, b)
      BY <1>6, <3>1 DEF NewLoad
    <3>3. /\ race_likely_loads' = [race_likely_loads EXCEPT ![t] = @ \cup {l}]
          /\ cached_timedlockset' = [cached_timedlockset EXCEPT ![t] = {P!Timed(t)}]
      BY <1>5, <2>2, <3>1 DEF P!Intern
    <3>4. /\ race_likely_loads'[t] = race_likely_loads[t] \cup {l}
          /\ DOMAIN race_likely_loads' = Tid /\ DOMAIN cached_timedlockset' = Tid
          /\ cached_timedlockset'[t] = {P!Timed(t)}
          /\ \A u \in Tid \ {t} : /\ race_likely_loads'[u] = race_likely_loads[u]
                                  /\ cached_timedlockset'[u] = cached_timedlockset[u]
      BY <3>3 DEF Tables
    <3>5. h.mask = {0} => race_likely_loads'[t] = race_likely_loads[t] \cup {NewLoad(t, b)}
      BY <3>2, <3>4
    <3>6. QED BY <2>2, <3>4, <3>5 DEF MayIntern
  <2>3. QED BY <2>1, <2>2
<1>8. /\ UNCHANGED <<current_timedlockset, lock_clock, mem_state, flushed_mem_state,
                     race_likely_stores, now, acquisitions, depth>>
      /\ UNCHANGED <<held, open, closed>>
      /\ reads' = [reads EXCEPT ![t] = @ \cup {NewRead(t, b)}]
  <2>1. {[byte |-> x, locks |-> held[t], segment |-> Segments[t], id |-> ip[t]] : x \in {b}}
          = {NewRead(t, b)}
    BY DEF NewRead
  <2>2. QED BY <1>1, <2>1 DEF P!Load, P!cache, P!owned, W!Load
<1>9. begun' = begun
  BY <1>1
<1>10. OpStep(t)
  <2>1. Tables'
    BY <1>2, <1>7, <1>8, <1>9 DEF Tables
  <2>2. \A u \in Tid \ {t} : LocksKept(u) /\ cached_timedlockset'[u] = cached_timedlockset[u]
    BY <1>7, <1>8 DEF LocksKept
  <2>3. \A u \in Tid \ {t} : StoresKept(u) /\ LoadsKept(u)
    BY <1>7, <1>8 DEF Tables, StoresKept, LoadsKept
  <2>4. \A u \in Tid \ {t} : WindowsKept(u)
    BY <1>8, <1>9 DEF WindowsKept
  <2>5. QED BY <1>2, <2>1, <2>2, <2>3, <2>4 DEF OpStep, StepOf, Kept
<1>11. LocksKept(t) /\ StoresKept(t) /\ WindowsKept(t)
  BY <1>8, <1>9 DEF LocksKept, StoresKept, WindowsKept
<1>12. LoadNoted(t, b)
  BY <1>1, <1>8 DEF LoadNoted, Accessing, Tables
<1>13. QED BY <1>3, <1>5, <1>7, <1>10, <1>11, <1>12

\* t takes or gives up l.
LockTaken(t, l) ==
  /\ current_timedlockset'[t] = P!TimedLock(current_timedlockset[t], l, lock_clock[t])
  /\ lock_clock'[t] = P!NextId(lock_clock[t])
  /\ acquisitions'[t] = acquisitions[t] + 1
  /\ now'[t] = now[t] + 1
  /\ depth'[t] = [depth[t] EXCEPT ![l] = @ + 1]
  /\ held'[t] = held[t] \cup {l}
LockGiven(t, l) ==
  /\ current_timedlockset'[t] = P!TimedUnlock(current_timedlockset[t], l)
  /\ lock_clock'[t] = lock_clock[t] /\ acquisitions'[t] = acquisitions[t]
  /\ now'[t] = now[t]
  /\ depth'[t] = [depth[t] EXCEPT ![l] = @ - 1]
  /\ held'[t] = held[t] \ {l}

LEMMA LockEffect ==
  ASSUME Tables, NEW t \in Tid, Acquire(t) \/ Release(t)
  PROVE  /\ OpStep(t) /\ StoresKept(t) /\ LoadsKept(t)
         /\ cached_timedlockset'[t] = {}
         /\ UNCHANGED history /\ irh' = irh /\ closed'[t] = closed[t]
         /\ \E l \in Lock :
              /\ open'[t] = UnprotectedBy(open[t], l)
              /\ \/ LockTaken(t, l) /\ \A u \in Tid \ {t} : depth[u][l] = 0
                 \/ LockGiven(t, l) /\ depth[t][l] > 0
<1>1. PICK l \in Lock :
        /\ pc[t] = "running" /\ ~analysed /\ UNCHANGED threads
        /\ UNCHANGED history /\ Advance(t)
        /\ \/ /\ \A u \in Tid \ {t} : depth[u][l] = 0
              /\ P!AcquireLock(t, l) /\ W!Acquire(t, l)
           \/ P!ReleaseLock(t, l) /\ W!Release(t, l)
  BY DEF Acquire, Release, At
<1>2. /\ pc' = pc /\ vector_clocks' = vector_clocks
      /\ DOMAIN ip' = Tid /\ ip'[t] = ip[t] + 1 /\ \A u \in Tid \ {t} : ip'[u] = ip[u]
      /\ check_unpersisted_stores' = check_unpersisted_stores /\ begun' = begun
  BY <1>1 DEF Advance, threads, Tables, history
<1>3. /\ UNCHANGED <<mem_state, flushed_mem_state, race_likely_stores, irh,
                     race_likely_loads, closed, reads>>
      /\ cached_timedlockset' = [cached_timedlockset EXCEPT ![t] = {}]
      /\ open' = [open EXCEPT ![t] = UnprotectedBy(@, l)]
  BY <1>1 DEF P!AcquireLock, P!ReleaseLock, P!AfterProcessLock, P!cache, P!report,
     W!Acquire, W!Release, W!Unprotect, UnprotectedBy, Unprotected
<1>4. /\ DOMAIN current_timedlockset' = Tid /\ DOMAIN lock_clock' = Tid
      /\ DOMAIN acquisitions' = Tid /\ DOMAIN now' = Tid /\ DOMAIN depth' = Tid
      /\ DOMAIN held' = Tid
      /\ \A u \in Tid \ {t} : LocksKept(u) /\ now'[u] = now[u]
      /\ \/ LockTaken(t, l) /\ \A u \in Tid \ {t} : depth[u][l] = 0
         \/ LockGiven(t, l) /\ depth[t][l] > 0
  <2>1. CASE /\ \A u \in Tid \ {t} : depth[u][l] = 0
             /\ P!AcquireLock(t, l) /\ W!Acquire(t, l)
    <3>1. /\ current_timedlockset' =
               [current_timedlockset EXCEPT ![t] = P!TimedLock(@, l, lock_clock[t])]
          /\ lock_clock' = [lock_clock EXCEPT ![t] = P!NextId(@)]
          /\ acquisitions' = [acquisitions EXCEPT ![t] = @ + 1]
          /\ now' = [now EXCEPT ![t] = @ + 1]
          /\ depth' = [depth EXCEPT ![t][l] = @ + 1]
          /\ held' = [held EXCEPT ![t] = @ \cup {l}]
      BY <2>1 DEF P!AcquireLock, W!Acquire
    <3>2. LockTaken(t, l)
      BY <3>1 DEF Tables, LockTaken
    <3>3. QED BY <2>1, <3>1, <3>2 DEF Tables, LocksKept
  <2>2. CASE P!ReleaseLock(t, l) /\ W!Release(t, l)
    <3>1. /\ current_timedlockset' =
               [current_timedlockset EXCEPT ![t] = P!TimedUnlock(@, l)]
          /\ UNCHANGED <<lock_clock, acquisitions, now>>
          /\ depth' = [depth EXCEPT ![t][l] = @ - 1]
          /\ held' = [held EXCEPT ![t] = @ \ {l}]
          /\ depth[t][l] > 0
      BY <2>2 DEF P!ReleaseLock, W!Release, P!time
    <3>2. LockGiven(t, l)
      BY <3>1 DEF Tables, LockGiven
    <3>3. QED BY <3>1, <3>2 DEF Tables, LocksKept
  <2>3. QED BY <1>1, <2>1, <2>2
<1>5. OpStep(t)
  <2>1. Tables'
    BY <1>2, <1>3, <1>4 DEF Tables
  <2>2. \A u \in Tid \ {t} : cached_timedlockset'[u] = cached_timedlockset[u]
    BY <1>3 DEF Tables
  <2>3. \A u \in Tid \ {t} : StoresKept(u) /\ LoadsKept(u)
    BY <1>3 DEF Tables, StoresKept, LoadsKept
  <2>4. \A u \in Tid \ {t} : WindowsKept(u)
    BY <1>2, <1>3, <1>4 DEF Tables, WindowsKept
  <2>5. QED BY <1>1, <1>2, <1>4, <2>1, <2>2, <2>3, <2>4 DEF OpStep, StepOf, Kept
<1>6. StoresKept(t) /\ LoadsKept(t)
  BY <1>3 DEF StoresKept, LoadsKept
<1>7. cached_timedlockset'[t] = {} /\ open'[t] = UnprotectedBy(open[t], l)
  BY <1>3 DEF Tables
<1>8. QED BY <1>1, <1>3, <1>4, <1>5, <1>6, <1>7


\* pc and the clocks move, the application may.
QuietStep ==
  /\ Tables' /\ \A u \in Tid : Kept(u) /\ ip'[u] \in {ip[u], ip[u] + 1}
  /\ check_unpersisted_stores' = check_unpersisted_stores
  /\ irh' = irh /\ UNCHANGED history
  /\ \A u \in Tid : pc'[u] = "exited" <=> pc[u] = "exited"

LEMMA QuietEffect ==
  ASSUME Tables, DOMAIN pc = Tid,
         \/ \E t \in Tid : \/ Publish(t) \/ Await(t) \/ CreateBegin(t)
                           \/ CreateOriginal(t) \/ CreateWait(t) \/ CreateMap(t)
                           \/ ThreadStart(t) \/ JoinOriginal(t) \/ JoinEnd(t)
         \/ Analyse \/ UNCHANGED vars
  PROVE  QuietStep
<1> DEFINE Still == /\ UNCHANGED <<current_timedlockset, cached_timedlockset, lock_clock,
                                   mem_state, flushed_mem_state, race_likely_stores,
                                   race_likely_loads, irh, now, acquisitions, depth>>
                    /\ UNCHANGED <<held, open, closed, reads>>
                    /\ UNCHANGED history
                    /\ check_unpersisted_stores' = check_unpersisted_stores
           Going == /\ DOMAIN ip' = Tid
                    /\ \A u \in Tid : ip'[u] \in {ip[u], ip[u] + 1}
           Living == \A u \in Tid : pc'[u] = "exited" <=> pc[u] = "exited"
<1>1. Still
  <2>1. ASSUME NEW t, NextSegment(t)
        PROVE  /\ UNCHANGED <<current_timedlockset, cached_timedlockset, lock_clock,
                              mem_state, flushed_mem_state, race_likely_stores,
                              race_likely_loads, irh, now, acquisitions, depth>>
               /\ UNCHANGED <<held, open, closed, reads>>
               /\ UNCHANGED history
    BY <2>1 DEF NextSegment, P!NextSegment, P!locks, P!cache, P!report, P!time, P!owned,
       W!NextSegment
  <2>2. UNCHANGED memory =>
          /\ UNCHANGED <<current_timedlockset, cached_timedlockset, lock_clock,
                         mem_state, flushed_mem_state, race_likely_stores,
                         race_likely_loads, irh, now, acquisitions, depth>>
          /\ UNCHANGED <<held, open, closed, reads>>
    BY DEF memory, tracker, windows
  <2>3. \A t \in Tid : Publish(t) \/ Await(t) \/ CreateOriginal(t) \/ CreateWait(t)
                         \/ CreateMap(t) \/ ThreadStart(t) \/ JoinOriginal(t) => Still
    BY <2>2 DEF Publish, Await, CreateOriginal, CreateWait, CreateMap, ThreadStart,
       JoinOriginal, Advance, control
  <2>4. \A t \in Tid : CreateBegin(t) \/ JoinEnd(t) => Still
    BY <2>1 DEF CreateBegin, JoinEnd, Advance, control
  <2>5. Analyse \/ UNCHANGED vars => Still
    BY <2>2 DEF Analyse, vars, control
  <2>6. QED BY <2>3, <2>4, <2>5
<1>2. Going
  <2>1. ip' = ip => Going
    BY DEF Tables
  <2>2. \A t \in Tid : Advance(t) => Going
    BY DEF Tables, Advance
  <2>3. QED
    BY <2>1, <2>2 DEF Publish, Await, CreateBegin, CreateOriginal, CreateWait, CreateMap,
       ThreadStart, JoinOriginal, JoinEnd, Analyse, vars, control
<1>3. Living
  <2>1. pc' = pc => Living
    OBVIOUS
  <2>2. \A t \in Tid : T!CreateBegin(t) \/ T!CreateWait(t) \/ T!CreateMap(t)
                         \/ T!ThreadStartSignal(t) \/ T!ThreadStartInit(t)
                         \/ T!JoinOriginal(t) \/ T!JoinEnd(t)
                         => Living
    BY DEF T!CreateBegin, T!CreateWait, T!CreateMap, T!ThreadStartSignal,
       T!ThreadStartInit, T!JoinOriginal, T!JoinEnd
  <2>3. \A t \in Tid : T!CreateOriginal(t) => Living
    <3> SUFFICES ASSUME NEW t \in Tid, T!CreateOriginal(t) PROVE Living
      OBVIOUS
    <3>1. PICK child \in T!Tid : /\ ~T!Exists(child)
                                 /\ pc' = [pc EXCEPT ![t] = "waiting", ![child] = "starting"]
      BY DEF T!CreateOriginal
    <3>2. pc[t] = "creating" /\ pc[child] = "none" /\ child \in Tid
      BY <3>1 DEF T!CreateOriginal, T!Exists, T!Tid, Tid
    <3>3. QED BY <3>1, <3>2
  <2>4. QED
    BY <2>1, <2>2, <2>3 DEF Publish, Await, CreateBegin, CreateOriginal, CreateWait,
       CreateMap, ThreadStart, JoinOriginal, JoinEnd, Analyse, vars, threads
<1>4. Tables'
  BY <1>1, <1>2 DEF Tables, history
<1>5. \A u \in Tid : Kept(u)
  BY <1>1 DEF history, Kept, LocksKept, StoresKept, WindowsKept, LoadsKept
<1>6. QED BY <1>1, <1>2, <1>3, <1>4, <1>5 DEF QuietStep

LEMMA ExitEffect ==
  ASSUME Tables, NEW t \in Tid, ThreadExit(t), DOMAIN pc = Tid
  PROVE  /\ StepOf(t) /\ pc[t] = "running" /\ pc'[t] = "exited" /\ ip'[t] = ip[t]
         /\ \A u \in Tid \ {t} : pc'[u] = pc[u]
         /\ LocksKept(t) /\ LoadsKept(t) /\ MayIntern(t)
         /\ caught' = caught /\ accessors' = accessors /\ NoteClosed(t)
         /\ now'[t] = now[t] /\ begun'[t] = begun[t]
         /\ \E e : /\ \/ check_unpersisted_stores /\ e = P!AfterExit(P!Data(t), t)
                      \/ ~check_unpersisted_stores /\ e = Q!AfterExit(P!Data(t), t)
                   /\ BecomesAt(t, e)
         /\ open'[t] = {}
         /\ closed'[t] = closed[t] \cup ClosedBy(t, open[t], "exit")
<1>1. /\ T!ThreadExit(t) /\ TrackExit(t) /\ W!Exit(t)
      /\ UNCHANGED <<begun, caught, accessors, control>>
      /\ NoteClosed(t)
  BY DEF ThreadExit
<1>2. /\ pc[t] = "running" /\ pc'[t] = "exited" /\ \A u \in Tid \ {t} : pc'[u] = pc[u]
      /\ ip' = ip /\ check_unpersisted_stores' = check_unpersisted_stores
  BY <1>1 DEF T!ThreadExit, control
<1>3. PICK e : /\ \/ check_unpersisted_stores /\ e = P!AfterExit(P!Data(t), t)
                  \/ ~check_unpersisted_stores /\ e = Q!AfterExit(P!Data(t), t)
               /\ P!Become(t, e)
  <2>1. CASE check_unpersisted_stores /\ P!Exit(t)
    BY <2>1 DEF P!Exit
  <2>2. CASE ~check_unpersisted_stores /\ Q!Exit(t)
    <3>1. PICK e : e = Q!AfterExit(P!Data(t), t) /\ Q!Become(t, e)
      BY <2>2, SameData DEF Q!Exit
    <3>2. P!Become(t, e)
      BY <3>1 DEF P!Become, Q!Become
    <3>3. QED BY <2>2, <3>1, <3>2
  <2>3. QED BY <1>1, <2>1, <2>2 DEF TrackExit
<1>4. /\ UNCHANGED <<current_timedlockset, lock_clock, race_likely_loads, now,
                     acquisitions, depth>>
      /\ \/ cached_timedlockset' = [cached_timedlockset EXCEPT ![t] = {P!Timed(t)}]
         \/ UNCHANGED cached_timedlockset
  BY <1>1 DEF TrackExit, P!Exit, Q!Exit, P!Intern, P!time, P!owned, Q!time, Q!owned
<1>5. /\ closed' = [closed EXCEPT ![t] = @ \cup ClosedBy(t, open[t], "exit")]
      /\ open' = [open EXCEPT ![t] = (@ \ open[t]) \cup {}]
      /\ UNCHANGED <<held, reads>>
  BY <1>1 DEF W!Exit, W!CloseAndOpen, ClosedBy
<1>6. /\ mem_state' = [mem_state EXCEPT ![t] = e.mem]
      /\ flushed_mem_state' = [flushed_mem_state EXCEPT ![t] = e.flushed]
      /\ race_likely_stores' = [race_likely_stores EXCEPT ![t] = e.records]
      /\ irh' = e.irh
  BY <1>3 DEF P!Become
<1>7. StepOf(t)
  <2>1. Tables'
    BY <1>1, <1>2, <1>4, <1>5, <1>6 DEF Tables
  <2>2. \A u \in Tid \ {t} : LocksKept(u) /\ cached_timedlockset'[u] = cached_timedlockset[u]
    BY <1>4, <1>5 DEF Tables, LocksKept
  <2>3. \A u \in Tid \ {t} : StoresKept(u) /\ LoadsKept(u)
    BY <1>4, <1>5, <1>6 DEF Tables, StoresKept, LoadsKept
  <2>4. \A u \in Tid \ {t} : WindowsKept(u)
    BY <1>1, <1>4, <1>5 DEF Tables, WindowsKept
  <2>5. QED BY <1>2, <2>1, <2>2, <2>3, <2>4 DEF StepOf, Kept
<1>8. LocksKept(t) /\ LoadsKept(t) /\ MayIntern(t)
  BY <1>4, <1>5 DEF Tables, LocksKept, LoadsKept, MayIntern
<1>9. BecomesAt(t, e)
  BY <1>6 DEF Tables, BecomesAt
<1>10. /\ open'[t] = {}
       /\ closed'[t] = closed[t] \cup ClosedBy(t, open[t], "exit")
  BY <1>5 DEF Tables
<1>11. QED BY <1>1, <1>2, <1>3, <1>4, <1>7, <1>8, <1>9, <1>10


-----------------------------------------------------------------------------
(* The tracker keeps to what happens                                       *)

TrackInv(t) ==
  /\ LocksOK(t) /\ RecordsInv(t)
  /\ pc[t] = "exited" => open[t] = {}
  /\ pc[t] # "exited" => MapsInv(t)

HeuristicInv == accessors \in [Byte -> SUBSET Tid] /\ HeuristicOK(irh, accessors)

\* No clock gets lost.
ClocksGrow ==
  \A u \in Tid : /\ Len(vector_clocks[u]) \in Nat /\ Len(vector_clocks'[u]) \in Nat
                 /\ Len(vector_clocks[u]) <= Len(vector_clocks'[u])

\* Nor does what has been noted.
NotesGrow ==
  /\ initialising \subseteq initialising'
  /\ \A b \in Byte : accessors[b] \subseteq accessors'[b]

LEMMA LocksNext ==
  ASSUME NEW t \in Tid, LocksOK(t), LocksKept(t),
         MayIntern(t) \/ cached_timedlockset'[t] = cached_timedlockset[t]
  PROVE  LocksOK(t)'
<1>1. cached_timedlockset'[t] \in {{}, {current_timedlockset'[t]}}
  BY DEF LocksOK, LocksKept, MayIntern, P!Timed
<1>2. QED BY <1>1 DEF LocksOK, LocksKept, Stamped, Fresh

LEMMA RunningTracked ==
  ASSUME TP!ThreadsInv, NEW t \in Tid, pc[t] = "running", LocksOK(t)
  PROVE  Tracked(t)
<1>1. /\ Len(vector_clocks[t]) \in Nat /\ Len(vector_clocks[t]) >= 1
      /\ vector_clocks[t] # <<>>
  <2>1. Tid = TP!Tid
    BY DEF Tid, TP!Tid
  <2>2. /\ \A u \in TP!Tid : Len(vector_clocks[u]) \in Nat
        /\ \A u \in TP!Tid : vector_clocks[u] = <<>> <=> Len(vector_clocks[u]) = 0
        /\ \A u \in TP!Tid : TP!Started(u) <=> Len(vector_clocks[u]) >= 1
    BY HawkSetAssumption, TP!SegmentFacts
  <2>3. TP!Started(t)
    BY DEF TP!Started
  <2>4. QED BY <2>1, <2>2, <2>3
<1>2. QED BY <1>1 DEF Tracked, Segments, LocksOK

LEMMA ClocksGrowing ==
  ASSUME TP!ThreadsInv, [Next]_vars
  PROVE  ClocksGrow
<1>1. [TP!Next]_(TP!vars)
  BY ThreadsMove
<1>2. \A t \in TP!Tid : TP!SegmentAdded(t)
  BY <1>1, HawkSetAssumption, TP!SegmentsKept
<1>3. \A t \in TP!Tid : Len(vector_clocks[t]) \in Nat
  BY HawkSetAssumption, TP!SegmentFacts
<1>4. \A t \in TP!Tid :
        Len(vector_clocks'[t]) \in {Len(vector_clocks[t]), Len(vector_clocks[t]) + 1}
  BY <1>2 DEF TP!SegmentAdded
<1>5. QED BY <1>3, <1>4 DEF ClocksGrow, Tid, TP!Tid

\* A thread the step does not touch.
LEMMA TrackKept ==
  ASSUME NEW t \in Tid, TrackInv(t), Kept(t), ClocksGrow, NotesGrow,
         check_unpersisted_stores' = check_unpersisted_stores,
         pc'[t] = "exited" <=> pc[t] = "exited"
  PROVE  TrackInv(t)'
<1>1. LocksOK(t)'
  BY LocksNext DEF TrackInv, Kept
<1>2. RecordsInv(t)'
  <2>1. PICK records, C, E : /\ records = race_likely_stores[t] /\ C = closed[t]
                             /\ E = initialising
    OBVIOUS
  <2>2. RecordsOK(t, records, C, E)
    BY <2>1 DEF TrackInv, RecordsInv
  <2>3. /\ race_likely_stores'[t] = records /\ closed'[t] = C /\ E \subseteq initialising'
        /\ acquisitions[t] \in Nat /\ acquisitions'[t] \in Nat
        /\ acquisitions[t] <= acquisitions'[t]
    BY <2>1 DEF Kept, StoresKept, WindowsKept, LocksKept, NotesGrow, TrackInv, LocksOK
  <2>4. /\ Len(vector_clocks[t]) \in Nat /\ Len(vector_clocks'[t]) \in Nat
        /\ Len(vector_clocks[t]) <= Len(vector_clocks'[t])
    BY DEF ClocksGrow
  <2>5. QED BY <2>2, <2>3, <2>4, RecordsNext
<1>3. pc'[t] = "exited" => open'[t] = {}
  BY DEF TrackInv, Kept, WindowsKept
<1>4. pc'[t] # "exited" => MapsInv(t)'
  <2> SUFFICES ASSUME pc[t] # "exited" PROVE MapsInv(t)'
    OBVIOUS
  <2>1. PICK m, f, O, C, A : /\ m = mem_state[t] /\ f = flushed_mem_state[t]
                             /\ O = open[t] /\ C = closed[t] /\ A = accessors
    OBVIOUS
  <2>2. MapsOK(t, m, f, O, C, A)
    BY <2>1 DEF TrackInv, MapsInv
  <2>3. /\ mem_state'[t] = m /\ flushed_mem_state'[t] = f /\ open'[t] = O
        /\ closed'[t] = C /\ \A b \in Byte : A[b] \subseteq accessors'[b]
        /\ current_timedlockset'[t] = current_timedlockset[t]
        /\ acquisitions'[t] = acquisitions[t]
    BY <2>1 DEF Kept, StoresKept, WindowsKept, LocksKept, NotesGrow
  <2>4. QED BY <2>2, <2>3, MapsNext
<1>5. QED BY <1>1, <1>2, <1>3, <1>4 DEF TrackInv

\* The thread that makes the step: what a handler leaves it.
LEMMA TrackBecomes ==
  ASSUME NEW t \in Tid, LocksOK(t), LocksKept(t), MayIntern(t), ClocksGrow,
         check_unpersisted_stores' = check_unpersisted_stores, pc'[t] # "exited",
         NEW m, NEW f, NEW records, NEW O, NEW C, NEW A, NEW E,
         MapsOK(t, m, f, O, C, A), RecordsOK(t, records, C, E),
         mem_state'[t] = m, flushed_mem_state'[t] = f, race_likely_stores'[t] = records,
         open'[t] = O, closed'[t] = C, accessors' = A, initialising' = E
  PROVE  TrackInv(t)'
<1>1. LocksOK(t)'
  BY LocksNext
<1>2. RecordsInv(t)'
  <2>1. /\ acquisitions[t] \in Nat /\ acquisitions'[t] \in Nat
        /\ acquisitions[t] <= acquisitions'[t] /\ E \subseteq initialising'
    BY DEF LocksKept, LocksOK
  <2>2. /\ Len(vector_clocks[t]) \in Nat /\ Len(vector_clocks'[t]) \in Nat
        /\ Len(vector_clocks[t]) <= Len(vector_clocks'[t])
    BY DEF ClocksGrow
  <2>3. QED BY <2>1, <2>2, RecordsNext
<1>3. MapsInv(t)'
  <2>1. /\ current_timedlockset'[t] = current_timedlockset[t]
        /\ acquisitions'[t] = acquisitions[t]
        /\ \A b \in Byte : A[b] \subseteq accessors'[b]
    BY DEF LocksKept
  <2>2. QED BY <2>1, MapsNext
<1>4. QED BY <1>1, <1>2, <1>3 DEF TrackInv


(* Windows that close on a byte that is not public are noted.               *)
LEMMA ClosedNoted ==
  ASSUME NEW t \in Tid, NoteClosed(t), NEW C, C = closed[t], NEW D, D = closed'[t],
         NEW A, A = accessors', NEW E, E = initialising'
  PROVE  /\ initialising \subseteq E
         /\ \A w \in D \ C : Cardinality(A[w.byte]) <= N =>
                               <<"window", t, w.store, w.byte>> \in E
BY DEF NoteClosed

LEMMA StoreTracks ==
  ASSUME TP!ThreadsInv, ClocksGrow, Tables, HeuristicInv, NEW t \in Tid, TrackInv(t),
         Store(t)
  PROVE  TrackInv(t)' /\ HeuristicInv' /\ NotesGrow
<1>1. /\ OpStep(t) /\ LocksKept(t) /\ MayIntern(t) /\ NoteClosed(t)
  BY StoreEffect
<1>2. PICK b, e :
        /\ b \in Byte
        /\ IsStored(e, P!Data(t), t, b) /\ BecomesAt(t, e) /\ StoreNoted(t, b)
        /\ open'[t] = (open[t] \ OfByte(open[t], b)) \cup {NewWindow(t, b)}
        /\ closed'[t] = closed[t] \cup ClosedBy(t, OfByte(open[t], b), "store")
  BY StoreEffect
<1>3. /\ pc[t] = "running" /\ pc'[t] # "exited"
      /\ check_unpersisted_stores' = check_unpersisted_stores
  BY <1>1 DEF OpStep, StepOf
<1>4. LocksOK(t) /\ RecordsInv(t) /\ MapsInv(t) /\ Tracked(t)
  BY <1>3, RunningTracked DEF TrackInv
<1>5. PICK d, A, B, O, C, over, D, U, E :
        /\ d = P!Data(t) /\ A = accessors /\ B = accessors' /\ O = open[t]
        /\ C = closed[t] /\ over = OfByte(O, b) /\ D = closed'[t] /\ U = open'[t]
        /\ E = initialising'
  OBVIOUS
<1>6. /\ IsData(d) /\ d.mem = mem_state[t] /\ d.flushed = flushed_mem_state[t]
      /\ d.records = race_likely_stores[t] /\ d.irh = irh
  BY <1>5 DEF P!Data, IsData
<1>7. /\ A \in [Byte -> SUBSET Tid] /\ HeuristicOK(d.irh, A)
      /\ B = [A EXCEPT ![b] = @ \cup {t}]
  BY <1>2, <1>5, <1>6 DEF HeuristicInv, StoreNoted
<1>8. /\ D = C \cup ClosedBy(t, over, "store") /\ U = (O \ over) \cup {NewWindow(t, b)}
      /\ IsStored(e, d, t, b)
  BY <1>2, <1>5
<1>9. MapsOK(t, d.mem, d.flushed, O, C, A)
  BY <1>4, <1>5, <1>6 DEF MapsInv
<1>10. /\ initialising \subseteq E
       /\ \A w \in D \ C : Cardinality(B[w.byte]) <= N =>
                             <<"window", t, w.store, w.byte>> \in E
  BY <1>1, <1>5, ClosedNoted
<1>11. RecordsOK(t, d.records, C, E)
  <2>1. PICK records, F : records = d.records /\ F = initialising
    OBVIOUS
  <2>2. RecordsOK(t, records, C, F) /\ F \subseteq E /\ C \subseteq C
        /\ \A w \in C \ C : ~LookedFor(w)
    BY <1>4, <1>5, <1>6, <1>10, <2>1 DEF RecordsInv
  <2>3. RecordsOK(t, records, C, E)
    BY <2>2, RecordsWeaker
  <2>4. QED BY <2>1, <2>3
<1>12. /\ HeuristicOK(e.irh, B)
       /\ MapsOK(t, e.mem, e.flushed, U, D, B) /\ RecordsOK(t, e.records, D, E)
  <2>1. Storing(t, b, d, e, A, B, O, U, C, D, E, over)
    BY <1>2, <1>5, <1>6, <1>7, <1>8, <1>9, <1>10, <1>11 DEF Storing
  <2>2. QED BY <1>4, <2>1, StoreKeeps
<1>13. TrackInv(t)'
  <2>1. PICK m, f, records : m = e.mem /\ f = e.flushed /\ records = e.records
    OBVIOUS
  <2>2. /\ mem_state'[t] = m /\ flushed_mem_state'[t] = f
        /\ race_likely_stores'[t] = records
    BY <1>2, <2>1 DEF BecomesAt
  <2>3. MapsOK(t, m, f, U, D, B) /\ RecordsOK(t, records, D, E)
    BY <1>12, <2>1
  <2>4. open'[t] = U /\ closed'[t] = D /\ accessors' = B /\ initialising' = E
    BY <1>5
  <2>5. QED BY <1>1, <1>3, <1>4, <2>2, <2>3, <2>4, TrackBecomes
<1>14. HeuristicInv'
  <2>1. B \in [Byte -> SUBSET Tid]
    BY <1>7
  <2>2. irh' = e.irh
    BY <1>2 DEF BecomesAt
  <2>3. QED BY <1>5, <1>12, <2>1, <2>2 DEF HeuristicInv, HeuristicOK
<1>15. NotesGrow
  BY <1>5, <1>7, <1>10 DEF NotesGrow
<1>16. QED BY <1>13, <1>14, <1>15

(* An atomic instruction stores and then fences.                            *)
LEMMA RMWTracks ==
  ASSUME TP!ThreadsInv, ClocksGrow, Tables, HeuristicInv, NEW t \in Tid, TrackInv(t),
         RMW(t)
  PROVE  TrackInv(t)' /\ HeuristicInv' /\ NotesGrow
<1>1. /\ OpStep(t) /\ LocksKept(t) /\ MayIntern(t) /\ NoteClosed(t)
  BY RMWEffect
<1>2. PICK b, s, e, over :
        /\ b \in Byte
        /\ IsStored(s, P!Data(t), t, b) /\ IsFenced(e, s, t)
        /\ BecomesAt(t, e) /\ StoreNoted(t, b)
        /\ over = OfByte(open[t], b)
        /\ open'[t] = (open[t] \ (over \cup FlushedOf(open[t]))) \cup {NewWindow(t, b)}
        /\ closed'[t] = closed[t] \cup ClosedBy(t, over, "store")
                          \cup ClosedBy(t, FlushedOf(open[t]) \ over, "fence")
  BY RMWEffect
<1>3. /\ pc[t] = "running" /\ pc'[t] # "exited"
      /\ check_unpersisted_stores' = check_unpersisted_stores
  BY <1>1 DEF OpStep, StepOf
<1>4. LocksOK(t) /\ RecordsInv(t) /\ MapsInv(t) /\ Tracked(t)
  BY <1>3, RunningTracked DEF TrackInv
<1>5. PICK d, A, B, O, C, D1, U1, V, D, U, E :
        /\ d = P!Data(t) /\ A = accessors /\ B = accessors' /\ O = open[t]
        /\ C = closed[t] /\ D1 = C \cup ClosedBy(t, over, "store")
        /\ U1 = (O \ over) \cup {NewWindow(t, b)} /\ V = FlushedOf(U1)
        /\ D = closed'[t] /\ U = open'[t] /\ E = initialising'
  OBVIOUS
<1>6. /\ IsData(d) /\ d.mem = mem_state[t] /\ d.flushed = flushed_mem_state[t]
      /\ d.records = race_likely_stores[t] /\ d.irh = irh
  BY <1>5 DEF P!Data, IsData
<1>7. /\ A \in [Byte -> SUBSET Tid] /\ HeuristicOK(d.irh, A)
      /\ B = [A EXCEPT ![b] = @ \cup {t}] /\ B \in [Byte -> SUBSET Tid]
  BY <1>2, <1>5, <1>6 DEF HeuristicInv, StoreNoted
<1>8. /\ IsStored(s, d, t, b) /\ over = OfByte(O, b)
      /\ D = D1 \cup ClosedBy(t, V, "fence") /\ U = U1 \ V
  <2>1. ~NewWindow(t, b).flushed
    BY DEF NewWindow
  <2>2. V = FlushedOf(O) \ over
    BY <1>5, <2>1 DEF FlushedOf
  <2>3. PICK new : new = NewWindow(t, b)
    OBVIOUS
  <2>4. U1 \ V = (O \ (over \cup FlushedOf(O))) \cup {new}
    <3>1. new \notin V
      BY <1>5, <2>1, <2>3 DEF FlushedOf
    <3>2. QED BY <1>5, <2>2, <2>3, <3>1
  <2>5. QED BY <1>2, <1>5, <2>2, <2>3, <2>4
<1>9. MapsOK(t, d.mem, d.flushed, O, C, A)
  BY <1>4, <1>5, <1>6 DEF MapsInv
<1>10. /\ initialising \subseteq E
       /\ \A w \in D \ C : Cardinality(B[w.byte]) <= N =>
                             <<"window", t, w.store, w.byte>> \in E
  BY <1>1, <1>5, ClosedNoted
<1>11. RecordsOK(t, d.records, C, E)
  <2>1. PICK records, F : records = d.records /\ F = initialising
    OBVIOUS
  <2>2. RecordsOK(t, records, C, F) /\ F \subseteq E /\ C \subseteq C
        /\ \A w \in C \ C : ~LookedFor(w)
    BY <1>4, <1>5, <1>6, <1>10, <2>1 DEF RecordsInv
  <2>3. RecordsOK(t, records, C, E)
    BY <2>2, RecordsWeaker
  <2>4. QED BY <2>1, <2>3
<1>12. /\ IsData(s) /\ HeuristicOK(s.irh, B)
       /\ MapsOK(t, s.mem, s.flushed, U1, D1, B) /\ RecordsOK(t, s.records, D1, E)
  <2>1. \A w \in D1 \ C : Cardinality(B[w.byte]) <= N =>
                            <<"window", t, w.store, w.byte>> \in E
    BY <1>8, <1>10
  <2>2. Storing(t, b, d, s, A, B, O, U1, C, D1, E, over)
    BY <1>2, <1>5, <1>6, <1>7, <1>8, <1>9, <1>11, <2>1 DEF Storing
  <2>3. QED BY <1>4, <2>2, StoreKeeps
<1>13. /\ HeuristicOK(e.irh, B)
       /\ MapsOK(t, e.mem, e.flushed, U, D, B) /\ RecordsOK(t, e.records, D, E)
  <2>1. \A w \in D \ D1 : Cardinality(B[w.byte]) <= N =>
                            <<"window", t, w.store, w.byte>> \in E
    BY <1>5, <1>10
  <2>2. e = P!AfterFence(s, t) \/ e = Q!AfterFence(s, t)
    BY <1>2 DEF IsFenced
  <2>3. Fencing(t, s, e, B, U1, U, D1, D, E, V)
    BY <1>5, <1>7, <1>8, <1>12, <2>1, <2>2 DEF Fencing
  <2>4. QED BY <1>4, <2>3, FenceKeeps
<1>14. TrackInv(t)'
  <2>1. PICK m, f, records : m = e.mem /\ f = e.flushed /\ records = e.records
    OBVIOUS
  <2>2. /\ mem_state'[t] = m /\ flushed_mem_state'[t] = f
        /\ race_likely_stores'[t] = records
    BY <1>2, <2>1 DEF BecomesAt
  <2>3. MapsOK(t, m, f, U, D, B) /\ RecordsOK(t, records, D, E)
    BY <1>13, <2>1
  <2>4. open'[t] = U /\ closed'[t] = D /\ accessors' = B /\ initialising' = E
    BY <1>5
  <2>5. QED BY <1>1, <1>3, <1>4, <2>2, <2>3, <2>4, TrackBecomes
<1>15. HeuristicInv'
  <2>1. irh' = e.irh
    BY <1>2 DEF BecomesAt
  <2>2. QED BY <1>5, <1>7, <1>13, <2>1 DEF HeuristicInv, HeuristicOK
<1>16. NotesGrow
  BY <1>5, <1>7, <1>10 DEF NotesGrow
<1>17. QED BY <1>14, <1>15, <1>16

LEMMA FenceTracks ==
  ASSUME TP!ThreadsInv, ClocksGrow, Tables, HeuristicInv, NEW t \in Tid, TrackInv(t),
         Fence(t)
  PROVE  TrackInv(t)' /\ HeuristicInv' /\ NotesGrow
<1>1. /\ OpStep(t) /\ LocksKept(t) /\ MayIntern(t) /\ NoteClosed(t)
      /\ accessors' = accessors
      /\ open'[t] = open[t] \ FlushedOf(open[t])
      /\ closed'[t] = closed[t] \cup ClosedBy(t, FlushedOf(open[t]), "fence")
  BY FenceEffect
<1>2. PICK e : IsFenced(e, P!Data(t), t) /\ BecomesAt(t, e)
  BY FenceEffect
<1>3. /\ pc[t] = "running" /\ pc'[t] # "exited"
      /\ check_unpersisted_stores' = check_unpersisted_stores
  BY <1>1 DEF OpStep, StepOf
<1>4. LocksOK(t) /\ RecordsInv(t) /\ MapsInv(t) /\ Tracked(t)
  BY <1>3, RunningTracked DEF TrackInv
<1>5. PICK d, A, O, C, V, D, U, E :
        /\ d = P!Data(t) /\ A = accessors /\ O = open[t] /\ C = closed[t]
        /\ V = FlushedOf(O) /\ D = closed'[t] /\ U = open'[t] /\ E = initialising'
  OBVIOUS
<1>6. /\ IsData(d) /\ d.mem = mem_state[t] /\ d.flushed = flushed_mem_state[t]
      /\ d.records = race_likely_stores[t] /\ d.irh = irh
  BY <1>5 DEF P!Data, IsData
<1>7. A \in [Byte -> SUBSET Tid] /\ HeuristicOK(d.irh, A) /\ A = accessors'
  BY <1>1, <1>5, <1>6 DEF HeuristicInv
<1>8. /\ D = C \cup ClosedBy(t, V, "fence") /\ U = O \ V
      /\ e = P!AfterFence(d, t) \/ e = Q!AfterFence(d, t)
  BY <1>1, <1>2, <1>5 DEF IsFenced
<1>9. MapsOK(t, d.mem, d.flushed, O, C, A)
  BY <1>4, <1>5, <1>6 DEF MapsInv
<1>10. /\ initialising \subseteq E
       /\ \A w \in D \ C : Cardinality(A[w.byte]) <= N =>
                             <<"window", t, w.store, w.byte>> \in E
  BY <1>1, <1>5, <1>7, ClosedNoted
<1>11. RecordsOK(t, d.records, C, E)
  <2>1. PICK records, F : records = d.records /\ F = initialising
    OBVIOUS
  <2>2. RecordsOK(t, records, C, F) /\ F \subseteq E /\ C \subseteq C
        /\ \A w \in C \ C : ~LookedFor(w)
    BY <1>4, <1>5, <1>6, <1>10, <2>1 DEF RecordsInv
  <2>3. RecordsOK(t, records, C, E)
    BY <2>2, RecordsWeaker
  <2>4. QED BY <2>1, <2>3
<1>12. /\ HeuristicOK(e.irh, A)
       /\ MapsOK(t, e.mem, e.flushed, U, D, A) /\ RecordsOK(t, e.records, D, E)
  <2>1. Fencing(t, d, e, A, O, U, C, D, E, V)
    BY <1>5, <1>6, <1>7, <1>8, <1>9, <1>10, <1>11 DEF Fencing
  <2>2. QED BY <1>4, <2>1, FenceKeeps
<1>13. TrackInv(t)'
  <2>1. PICK m, f, records : m = e.mem /\ f = e.flushed /\ records = e.records
    OBVIOUS
  <2>2. /\ mem_state'[t] = m /\ flushed_mem_state'[t] = f
        /\ race_likely_stores'[t] = records
    BY <1>2, <2>1 DEF BecomesAt
  <2>3. MapsOK(t, m, f, U, D, A) /\ RecordsOK(t, records, D, E)
    BY <1>12, <2>1
  <2>4. open'[t] = U /\ closed'[t] = D /\ accessors' = A /\ initialising' = E
    BY <1>5, <1>7
  <2>5. QED BY <1>1, <1>3, <1>4, <2>2, <2>3, <2>4, TrackBecomes
<1>14. HeuristicInv'
  <2>1. irh' = e.irh
    BY <1>2 DEF BecomesAt
  <2>2. QED BY <1>7, <1>12, <2>1 DEF HeuristicInv, HeuristicOK
<1>15. NotesGrow
  BY <1>5, <1>7, <1>10 DEF NotesGrow
<1>16. QED BY <1>13, <1>14, <1>15

(* A flush moves pending stores and notes nothing.                          *)
LEMMA FlushTracks ==
  ASSUME TP!ThreadsInv, ClocksGrow, Tables, HeuristicInv, NEW t \in Tid, TrackInv(t),
         Flush(t)
  PROVE  TrackInv(t)' /\ HeuristicInv' /\ NotesGrow
<1>1. /\ OpStep(t) /\ LocksKept(t) /\ LoadsKept(t) /\ MayIntern(t)
      /\ UNCHANGED history /\ irh' = irh
      /\ now'[t] = now[t] /\ closed'[t] = closed[t]
      /\ race_likely_stores'[t] = race_likely_stores[t]
  BY FlushEffect
<1>2. PICK b, m, line :
        /\ m = mem_state[t] /\ line = P!InLine(m, b)
        /\ mem_state'[t] = P!Without(m, line)
        /\ flushed_mem_state'[t] = P!Over(P!Only(m, line), flushed_mem_state[t])
        /\ open'[t] = FlushedAt(open[t], b)
  BY FlushEffect
<1>3. /\ pc[t] = "running" /\ pc'[t] # "exited"
      /\ check_unpersisted_stores' = check_unpersisted_stores
  BY <1>1 DEF OpStep, StepOf
<1>4. LocksOK(t) /\ RecordsInv(t) /\ MapsInv(t)
  BY <1>3 DEF TrackInv
<1>5. PICK f, n, g, O, U, C, A, E, records :
        /\ f = flushed_mem_state[t] /\ n = P!Without(m, line)
        /\ g = P!Over(P!Only(m, line), f) /\ O = open[t] /\ U = FlushedAt(O, b)
        /\ C = closed[t] /\ A = accessors /\ E = initialising
        /\ records = race_likely_stores[t]
  OBVIOUS
<1>6. MapsOK(t, m, f, O, C, A) /\ RecordsOK(t, records, C, E)
  BY <1>2, <1>4, <1>5 DEF MapsInv, RecordsInv
<1>7. MapsOK(t, n, g, U, C, A)
  BY <1>2, <1>5, <1>6, FlushMaps
<1>8. /\ mem_state'[t] = n /\ flushed_mem_state'[t] = g /\ race_likely_stores'[t] = records
      /\ open'[t] = U /\ closed'[t] = C /\ accessors' = A /\ initialising' = E
  BY <1>1, <1>2, <1>5 DEF history
<1>9. TrackInv(t)'
  BY <1>1, <1>3, <1>4, <1>6, <1>7, <1>8, TrackBecomes
<1>10. HeuristicInv' /\ NotesGrow
  BY <1>1 DEF history, HeuristicInv, HeuristicOK, NotesGrow
<1>11. QED BY <1>9, <1>10

(* A load lets the heuristic count the thread in.                           *)
LEMMA LoadTracks ==
  ASSUME TP!ThreadsInv, ClocksGrow, Tables, HeuristicInv, NEW t \in Tid, TrackInv(t),
         Load(t)
  PROVE  TrackInv(t)' /\ HeuristicInv' /\ NotesGrow
<1>1. /\ OpStep(t) /\ LocksKept(t) /\ StoresKept(t) /\ WindowsKept(t) /\ MayIntern(t)
  BY LoadEffect
<1>2. PICK b, h :
        /\ b \in Byte /\ h = IP!HandleAccess(irh, t, b, 1, N) /\ irh' = h.irh
        /\ LoadNoted(t, b)
  BY LoadEffect
<1>3. /\ pc[t] = "running" /\ pc'[t] # "exited"
      /\ check_unpersisted_stores' = check_unpersisted_stores
  BY <1>1 DEF OpStep, StepOf
<1>4. PICK i, A, B : /\ i = irh /\ A = accessors /\ B = [A EXCEPT ![b] = @ \cup {t}]
  OBVIOUS
<1>5. /\ A \in [Byte -> SUBSET Tid] /\ HeuristicOK(i, A)
      /\ h = IP!HandleAccess(i, t, b, 1, N) /\ accessors' = B
  BY <1>2, <1>4 DEF HeuristicInv, LoadNoted
<1>6. HeuristicOK(h.irh, B) /\ B \in [Byte -> SUBSET Tid]
  <2>1. b \in Byte /\ B = [A EXCEPT ![b] = @ \cup {t}]
    BY <1>2, <1>4
  <2>2. B \in [Byte -> SUBSET Tid]
    BY <1>5, <2>1
  <2>3. HeuristicOK(h.irh, B)
    BY <1>5, <2>1, AskedAnew
  <2>4. QED BY <2>2, <2>3
<1>7. HeuristicInv'
  BY <1>2, <1>5, <1>6 DEF HeuristicInv, HeuristicOK
<1>8. NotesGrow
  BY <1>2, <1>4, <1>5 DEF NotesGrow, LoadNoted
<1>9. LocksOK(t)'
  BY <1>1, LocksNext DEF TrackInv
<1>10. RecordsInv(t)'
  <2>1. PICK records, C, E : /\ records = race_likely_stores[t] /\ C = closed[t]
                             /\ E = initialising
    OBVIOUS
  <2>2. RecordsOK(t, records, C, E)
    BY <2>1 DEF TrackInv, RecordsInv
  <2>3. /\ race_likely_stores'[t] = records /\ closed'[t] = C /\ E \subseteq initialising'
        /\ acquisitions[t] \in Nat /\ acquisitions'[t] \in Nat
        /\ acquisitions[t] <= acquisitions'[t]
    BY <1>1, <1>8, <2>1 DEF StoresKept, WindowsKept, LocksKept, NotesGrow, TrackInv, LocksOK
  <2>4. /\ Len(vector_clocks[t]) \in Nat /\ Len(vector_clocks'[t]) \in Nat
        /\ Len(vector_clocks[t]) <= Len(vector_clocks'[t])
    BY DEF ClocksGrow
  <2>5. QED BY <1>3, <2>2, <2>3, <2>4, RecordsNext
<1>11. MapsInv(t)'
  <2>1. PICK m, f, O, C : /\ m = mem_state[t] /\ f = flushed_mem_state[t]
                          /\ O = open[t] /\ C = closed[t]
    OBVIOUS
  <2>2. MapsOK(t, m, f, O, C, A)
    BY <1>3, <1>4, <2>1 DEF TrackInv, MapsInv
  <2>3. /\ mem_state'[t] = m /\ flushed_mem_state'[t] = f /\ open'[t] = O
        /\ closed'[t] = C /\ \A x \in Byte : A[x] \subseteq accessors'[x]
        /\ current_timedlockset'[t] = current_timedlockset[t]
        /\ acquisitions'[t] = acquisitions[t]
    BY <1>1, <1>4, <1>8, <2>1 DEF StoresKept, WindowsKept, LocksKept, NotesGrow
  <2>4. QED BY <1>3, <2>2, <2>3, MapsNext
<1>12. QED BY <1>3, <1>7, <1>8, <1>9, <1>10, <1>11 DEF TrackInv

LEMMA LocksTakenOrGiven ==
  ASSUME NEW t \in Tid, LocksOK(t), cached_timedlockset'[t] = {}, NEW l \in Lock,
         LockTaken(t, l) \/ (LockGiven(t, l) /\ depth[t][l] > 0)
  PROVE  LocksOK(t)'
<1>1. PICK old, new, a, c, d, e :
        /\ old = current_timedlockset[t] /\ new = current_timedlockset'[t]
        /\ a = acquisitions[t] /\ c = lock_clock[t]
        /\ d = depth[t] /\ e = depth'[t]
  OBVIOUS
<1>2. /\ held[t] = DOMAIN old /\ a \in Nat /\ (a < ClockModulus => c = a)
      /\ (a <= ClockModulus => \A k \in DOMAIN old : old[k] \in Nat /\ old[k] < a)
      /\ d \in [Lock -> Nat] /\ \A k \in held[t] : k \in Lock /\ d[k] > 0
  BY <1>1 DEF LocksOK, Stamped, Fresh
<1>3. ClockModulus \in Nat \ {0}
  BY HawkSetAssumption
<1>4. CASE LockTaken(t, l)
  <2>1. /\ new = P!TimedLock(old, l, c) /\ lock_clock'[t] = P!NextId(c)
        /\ acquisitions'[t] = a + 1 /\ e = [d EXCEPT ![l] = @ + 1]
        /\ held'[t] = held[t] \cup {l}
    BY <1>1, <1>4 DEF LockTaken
  <2>2. /\ DOMAIN new = DOMAIN old \cup {l}
        /\ \A k \in DOMAIN old : k # l => new[k] = old[k]
        /\ new[l] \in {c} \cup {old[k] : k \in DOMAIN old \cap {l}}
    BY <2>1 DEF P!TimedLock
  <2>3. a + 1 < ClockModulus => lock_clock'[t] = a + 1
    BY <1>2, <1>3, <2>1 DEF P!NextId
  <2>4. a + 1 <= ClockModulus => \A k \in DOMAIN new : new[k] \in Nat /\ new[k] < a + 1
    BY <1>2, <1>3, <2>2
  <2>5. e \in [Lock -> Nat] /\ \A k \in held'[t] : k \in Lock /\ e[k] > 0
    BY <1>2, <2>1
  <2>6. QED BY <1>1, <1>2, <2>1, <2>2, <2>3, <2>4, <2>5 DEF LocksOK, Stamped, Fresh
<1>5. CASE LockGiven(t, l) /\ depth[t][l] > 0
  <2>1. /\ new = P!TimedUnlock(old, l) /\ lock_clock'[t] = c
        /\ acquisitions'[t] = a /\ e = [d EXCEPT ![l] = @ - 1]
        /\ held'[t] = held[t] \ {l} /\ d[l] > 0
    BY <1>1, <1>5 DEF LockGiven
  <2>2. /\ DOMAIN new = DOMAIN old \ {l}
        /\ \A k \in DOMAIN new : new[k] = old[k]
    BY <2>1 DEF P!TimedUnlock
  <2>3. e \in [Lock -> Nat] /\ \A k \in held'[t] : k \in Lock /\ e[k] > 0
    BY <1>2, <2>1
  <2>4. QED BY <1>1, <1>2, <2>1, <2>2, <2>3 DEF LocksOK, Stamped, Fresh
<1>6. QED BY <1>4, <1>5

(* A lock taken or given up protects no window any more.                    *)
LEMMA LockTracks ==
  ASSUME TP!ThreadsInv, ClocksGrow, Tables, HeuristicInv, NEW t \in Tid, TrackInv(t),
         Acquire(t) \/ Release(t)
  PROVE  TrackInv(t)' /\ HeuristicInv' /\ NotesGrow
<1>1. /\ OpStep(t) /\ StoresKept(t) /\ LoadsKept(t)
      /\ cached_timedlockset'[t] = {}
      /\ UNCHANGED history /\ irh' = irh /\ closed'[t] = closed[t]
  BY LockEffect
<1>2. PICK l \in Lock :
        /\ open'[t] = UnprotectedBy(open[t], l)
        /\ LockTaken(t, l) \/ (LockGiven(t, l) /\ depth[t][l] > 0)
  BY LockEffect
<1>3. /\ pc[t] = "running" /\ pc'[t] # "exited"
      /\ check_unpersisted_stores' = check_unpersisted_stores
  BY <1>1 DEF OpStep, StepOf
<1>4. LocksOK(t) /\ RecordsInv(t) /\ MapsInv(t)
  BY <1>3 DEF TrackInv
<1>5. HeuristicInv' /\ NotesGrow
  BY <1>1 DEF history, HeuristicInv, HeuristicOK, NotesGrow
<1>6. LocksOK(t)'
  BY <1>1, <1>2, <1>4, LocksTakenOrGiven
<1>7. \/ /\ current_timedlockset'[t] =
              P!TimedLock(current_timedlockset[t], l, lock_clock[t])
         /\ acquisitions'[t] = acquisitions[t] + 1
      \/ /\ current_timedlockset'[t] = P!TimedUnlock(current_timedlockset[t], l)
         /\ acquisitions'[t] = acquisitions[t]
  BY <1>2 DEF LockTaken, LockGiven
<1>8. MapsInv(t)'
  <2>1. PICK m, f, O, U, C, A :
          /\ m = mem_state[t] /\ f = flushed_mem_state[t] /\ O = open[t]
          /\ U = UnprotectedBy(O, l) /\ C = closed[t] /\ A = accessors
    OBVIOUS
  <2>2. MapsOK(t, m, f, O, C, A)
    BY <1>4, <2>1 DEF MapsInv
  <2>3. /\ mem_state'[t] = m /\ flushed_mem_state'[t] = f /\ open'[t] = U
        /\ closed'[t] = C /\ \A x \in Byte : A[x] \subseteq accessors'[x]
    BY <1>1, <1>2, <1>5, <2>1 DEF StoresKept, NotesGrow
  <2>4. QED BY <1>3, <1>4, <1>7, <2>1, <2>2, <2>3, MapsUnprotected
<1>9. RecordsInv(t)'
  <2>1. PICK records, C, E : /\ records = race_likely_stores[t] /\ C = closed[t]
                             /\ E = initialising
    OBVIOUS
  <2>2. RecordsOK(t, records, C, E)
    BY <1>4, <2>1 DEF RecordsInv
  <2>3. /\ race_likely_stores'[t] = records /\ closed'[t] = C /\ E \subseteq initialising'
    BY <1>1, <1>5, <2>1 DEF StoresKept, NotesGrow
  <2>4. /\ acquisitions[t] \in Nat /\ acquisitions'[t] \in Nat
        /\ acquisitions[t] <= acquisitions'[t]
    BY <1>4, <1>6, <1>7 DEF LocksOK
  <2>5. /\ Len(vector_clocks[t]) \in Nat /\ Len(vector_clocks'[t]) \in Nat
        /\ Len(vector_clocks[t]) <= Len(vector_clocks'[t])
    BY DEF ClocksGrow
  <2>6. QED BY <1>3, <2>2, <2>3, <2>4, <2>5, RecordsNext
<1>10. QED BY <1>3, <1>5, <1>6, <1>8, <1>9 DEF TrackInv

(* The end of a thread leaves no window open.                               *)
LEMMA ExitTracks ==
  ASSUME TP!ThreadsInv, ClocksGrow, Tables, DOMAIN pc = Tid, HeuristicInv, NEW t \in Tid,
         TrackInv(t), ThreadExit(t)
  PROVE  TrackInv(t)' /\ HeuristicInv' /\ NotesGrow
<1>1. /\ StepOf(t) /\ pc[t] = "running" /\ pc'[t] = "exited"
      /\ LocksKept(t) /\ MayIntern(t)
      /\ accessors' = accessors /\ NoteClosed(t)
      /\ open'[t] = {}
      /\ closed'[t] = closed[t] \cup ClosedBy(t, open[t], "exit")
  BY ExitEffect
<1>2. PICK e : /\ \/ check_unpersisted_stores /\ e = P!AfterExit(P!Data(t), t)
                  \/ ~check_unpersisted_stores /\ e = Q!AfterExit(P!Data(t), t)
               /\ BecomesAt(t, e)
  BY ExitEffect
<1>3. check_unpersisted_stores' = check_unpersisted_stores
  BY <1>1 DEF StepOf
<1>4. LocksOK(t) /\ RecordsInv(t) /\ MapsInv(t) /\ Tracked(t)
  BY <1>1, RunningTracked DEF TrackInv
<1>5. PICK d, A, O, C, D, E :
        /\ d = P!Data(t) /\ A = accessors /\ O = open[t] /\ C = closed[t]
        /\ D = closed'[t] /\ E = initialising'
  OBVIOUS
<1>6. /\ IsData(d) /\ d.mem = mem_state[t] /\ d.flushed = flushed_mem_state[t]
      /\ d.records = race_likely_stores[t] /\ d.irh = irh
  BY <1>5 DEF P!Data, IsData
<1>7. A \in [Byte -> SUBSET Tid] /\ HeuristicOK(d.irh, A) /\ A = accessors'
  BY <1>1, <1>5, <1>6 DEF HeuristicInv
<1>8. /\ D = C \cup ClosedBy(t, O, "exit")
      /\ \/ check_unpersisted_stores /\ e = P!AfterExit(d, t)
         \/ ~check_unpersisted_stores /\ e = Q!AfterExit(d, t)
  BY <1>1, <1>2, <1>5
<1>9. MapsOK(t, d.mem, d.flushed, O, C, A)
  BY <1>4, <1>5, <1>6 DEF MapsInv
<1>10. /\ initialising \subseteq E
       /\ \A w \in D \ C : Cardinality(A[w.byte]) <= N =>
                             <<"window", t, w.store, w.byte>> \in E
  BY <1>1, <1>5, <1>7, ClosedNoted
<1>11. RecordsOK(t, d.records, C, E)
  <2>1. PICK records, F : records = d.records /\ F = initialising
    OBVIOUS
  <2>2. RecordsOK(t, records, C, F) /\ F \subseteq E /\ C \subseteq C
        /\ \A w \in C \ C : ~LookedFor(w)
    BY <1>4, <1>5, <1>6, <1>10, <2>1 DEF RecordsInv
  <2>3. RecordsOK(t, records, C, E)
    BY <2>2, RecordsWeaker
  <2>4. QED BY <2>1, <2>3
<1>12. HeuristicOK(e.irh, A) /\ RecordsOK(t, e.records, D, E)
  <2>1. Ending(t, d, e, A, O, C, D, E)
    BY <1>6, <1>7, <1>8, <1>9, <1>10, <1>11 DEF Ending
  <2>2. QED BY <1>4, <2>1, ExitKeeps
<1>13. RecordsInv(t)'
  <2>1. PICK records : records = e.records
    OBVIOUS
  <2>2. RecordsOK(t, records, D, E)
    BY <1>12, <2>1
  <2>3. /\ race_likely_stores'[t] = records /\ closed'[t] = D /\ E \subseteq initialising'
        /\ acquisitions[t] \in Nat /\ acquisitions'[t] \in Nat
        /\ acquisitions[t] <= acquisitions'[t]
    BY <1>1, <1>2, <1>4, <1>5, <2>1 DEF BecomesAt, LocksKept, LocksOK
  <2>4. /\ Len(vector_clocks[t]) \in Nat /\ Len(vector_clocks'[t]) \in Nat
        /\ Len(vector_clocks[t]) <= Len(vector_clocks'[t])
    BY DEF ClocksGrow
  <2>5. QED BY <1>3, <2>2, <2>3, <2>4, RecordsNext
<1>14. LocksOK(t)'
  BY <1>1, <1>4, LocksNext
<1>15. HeuristicInv'
  <2>1. irh' = e.irh
    BY <1>2 DEF BecomesAt
  <2>2. QED BY <1>7, <1>12, <2>1 DEF HeuristicInv, HeuristicOK
<1>16. NotesGrow
  BY <1>5, <1>7, <1>10 DEF NotesGrow
<1>17. QED BY <1>1, <1>13, <1>14, <1>15, <1>16 DEF TrackInv

-----------------------------------------------------------------------------
(* The tracker, all threads                                                *)

\* A thread accesses memory, locks or ends.
Acting(t) ==
  \/ Store(t) \/ RMW(t) \/ Load(t) \/ Flush(t) \/ Fence(t)
  \/ Acquire(t) \/ Release(t) \/ ThreadExit(t)
\* Something else happens, or nothing.
Elsewhere ==
  \/ \E t \in Tid : \/ Publish(t) \/ Await(t) \/ CreateBegin(t)
                    \/ CreateOriginal(t) \/ CreateWait(t) \/ CreateMap(t)
                    \/ ThreadStart(t) \/ JoinOriginal(t) \/ JoinEnd(t)
  \/ Analyse \/ UNCHANGED vars

LEMMA Cases ==
  ASSUME [Next]_vars
  PROVE  Elsewhere \/ \E t \in Tid : Acting(t)
BY DEF Next, Step, Finished, Elsewhere, Acting

TrackerInv == Tables /\ HeuristicInv /\ \A t \in Tid : TrackInv(t)

\* The threads but t end with t only.
OthersLive(t) == \A u \in Tid \ {t} : pc'[u] = "exited" <=> pc[u] = "exited"

LEMMA ActingStep ==
  ASSUME Tables, DOMAIN pc = Tid, NEW t \in Tid, Acting(t)
  PROVE  StepOf(t) /\ OthersLive(t) /\ pc[t] = "running" /\ ip'[t] \in {ip[t], ip[t] + 1}
<1>1. CASE ThreadExit(t)
  BY <1>1, ExitEffect DEF OthersLive
<1>2. CASE ~ThreadExit(t)
  <2>1. OpStep(t)
    BY <1>2, StoreEffect, RMWEffect, LoadEffect, FlushEffect, FenceEffect, LockEffect
       DEF Acting
  <2>2. QED BY <2>1 DEF OpStep, OthersLive
<1>3. QED BY <1>1, <1>2

LEMMA TrackerStep ==
  ASSUME TP!ThreadsInv, TrackerInv, [Next]_vars
  PROVE  TrackerInv' /\ NotesGrow
<1>1. ClocksGrow
  BY ClocksGrowing
<1>2. DOMAIN pc = Tid
  <2>1. pc \in [TP!Tid -> TP!Phases]
    BY HawkSetAssumption, TP!SegmentFacts
  <2>2. QED BY <2>1 DEF Tid, TP!Tid
<1>3. CASE Elsewhere
  <2>1. QuietStep
    BY <1>2, <1>3, QuietEffect DEF Elsewhere, TrackerInv
  <2>2. HeuristicInv' /\ NotesGrow
    BY <2>1 DEF QuietStep, history, HeuristicInv, HeuristicOK, NotesGrow, TrackerInv
  <2>3. ASSUME NEW u \in Tid PROVE TrackInv(u)'
    <3>1. /\ TrackInv(u) /\ Kept(u) /\ (pc'[u] = "exited" <=> pc[u] = "exited")
          /\ check_unpersisted_stores' = check_unpersisted_stores
      BY <2>1 DEF QuietStep, TrackerInv
    <3>2. QED BY <1>1, <2>2, <3>1, TrackKept
  <2>4. QED BY <2>1, <2>2, <2>3 DEF QuietStep, TrackerInv
<1>4. ASSUME NEW t \in Tid, Acting(t)
      PROVE  TrackerInv' /\ NotesGrow
  <2>1. StepOf(t) /\ OthersLive(t)
    BY <1>2, <1>4, ActingStep DEF TrackerInv
  <2>2. TrackInv(t)' /\ HeuristicInv' /\ NotesGrow
    <3>1. Tables /\ HeuristicInv /\ TrackInv(t)
      BY DEF TrackerInv
    <3>2. QED
      BY <1>1, <1>2, <1>4, <3>1, StoreTracks, RMWTracks, LoadTracks, FlushTracks,
         FenceTracks, LockTracks, ExitTracks DEF Acting
  <2>3. ASSUME NEW u \in Tid, u # t PROVE TrackInv(u)'
    <3>1. /\ TrackInv(u) /\ Kept(u) /\ (pc'[u] = "exited" <=> pc[u] = "exited")
          /\ check_unpersisted_stores' = check_unpersisted_stores
      BY <2>1, <2>3 DEF StepOf, OthersLive, TrackerInv
    <3>2. QED BY <1>1, <2>2, <3>1, TrackKept
  <2>4. QED BY <2>1, <2>2, <2>3 DEF StepOf, TrackerInv
<1>5. QED BY <1>3, <1>4, Cases

-----------------------------------------------------------------------------
(* Windows open and close                                                  *)

Going(t) == Len(vector_clocks[t]) \in Nat \ {0}

\* What a step may do to the windows of t: a window closes in the segment t
\* is in, and no other of its byte is left open but a new one; locks get lost.
Moves(t) ==
  /\ closed[t] \subseteq closed'[t]
  /\ \A v \in closed'[t] \ closed[t] :
       /\ \E w \in open[t] : v.store = w.store /\ v.byte = w.byte /\ v.locks = w.locks
       /\ v.segment = Len(vector_clocks[t]) /\ Going(t)
       /\ \A w \in open'[t] : w.byte = v.byte => w.store = now[t]
  /\ \A v \in open'[t] :
       \/ \E w \in open[t] : v.store = w.store /\ v.byte = w.byte /\ v.locks \subseteq w.locks
       \/ v.store = now[t] /\ now'[t] = now[t] + 1 /\ v.byte \in Byte
  /\ now'[t] \in {now[t], now[t] + 1}
  /\ \A s \in DOMAIN begun[t] :
       s # now[t] => s \in DOMAIN begun'[t] /\ begun'[t][s] = begun[t][s]
  /\ \A s \in DOMAIN begun'[t] :
       \/ s \in DOMAIN begun[t] /\ begun'[t][s] = begun[t][s]
       \/ /\ s = now[t] /\ now'[t] = now[t] + 1
          /\ begun'[t][s] = Len(vector_clocks[t]) /\ Going(t)
  /\ \A v \in open'[t] :
       v.store = now[t] => now'[t] = now[t] \/ now[t] \in DOMAIN begun'[t]

LEMMA MovesKept ==
  ASSUME NEW t, WindowsKept(t), \A w \in open[t] : w.store # now[t]
  PROVE  Moves(t)
BY DEF WindowsKept, Moves

LEMMA ClosedFields ==
  ASSUME NEW t, NEW w, NEW how, NEW v, v = W!Closed(t, w, how)
  PROVE  /\ v.store = w.store /\ v.byte = w.byte /\ v.locks = w.locks
         /\ v.segment = Segments[t]
BY DEF W!Closed

LEMMA ClosedFrom ==
  ASSUME NEW t, NEW V, NEW how, NEW v \in ClosedBy(t, V, how)
  PROVE  \E w \in V : /\ v.store = w.store /\ v.byte = w.byte /\ v.locks = w.locks
                      /\ v.segment = Segments[t]
BY ClosedFields DEF ClosedBy

LEMMA ActingMoves ==
  ASSUME TP!ThreadsInv, TrackerInv, DOMAIN pc = Tid, NEW t \in Tid, Acting(t),
         \A w \in open[t] : w.store # now[t]
  PROVE  Moves(t)
<1>1. pc[t] = "running" /\ LocksOK(t) /\ MapsInv(t) /\ Tables
  BY ActingStep DEF TrackerInv, TrackInv
<1>2. Going(t) /\ Segments[t] = Len(vector_clocks[t])
  BY <1>1, RunningTracked DEF Tracked, Going
<1>3. \A v, w \in open[t] : v.byte = w.byte => v = w
  BY <1>1 DEF MapsInv, MapsOK
<1>4. PICK O, C, n, g, h, k : /\ O = open[t] /\ C = closed[t] /\ n = now[t]
                              /\ g = begun[t] /\ h = begun'[t] /\ k = Segments[t]
  OBVIOUS
<1>5. ASSUME NEW b, StoreNoted(t, b)
      PROVE  /\ now'[t] = n + 1
             /\ \A s \in DOMAIN g : s # n => s \in DOMAIN h /\ h[s] = g[s]
             /\ \A s \in DOMAIN h : \/ s \in DOMAIN g /\ h[s] = g[s]
                                    \/ s = n /\ h[s] = k
             /\ n \in DOMAIN h
  BY <1>4, <1>5 DEF StoreNoted
<1>6. ASSUME NEW b, NEW v, v = NewWindow(t, b)
      PROVE  v.store = n /\ v.byte = b
  BY <1>4, <1>6 DEF NewWindow
<1>7. CASE Store(t)
  <2>1. PICK b \in Byte : /\ StoreNoted(t, b)
        /\ open'[t] = (open[t] \ OfByte(open[t], b)) \cup {NewWindow(t, b)}
        /\ closed'[t] = closed[t] \cup ClosedBy(t, OfByte(open[t], b), "store")
    BY <1>1, <1>7, StoreEffect
  <2>2. PICK new : new = NewWindow(t, b)
    OBVIOUS
  <2>3. new.store = n /\ new.byte = b
    BY <1>6, <2>2
  <2>4. \A x \in open'[t] : x = new \/ (x \in O /\ x.byte # b)
    BY <1>4, <2>1, <2>2 DEF OfByte
  <2>5. ASSUME NEW v \in closed'[t] \ C
        PROVE  \E w \in O : /\ v.store = w.store /\ v.byte = w.byte /\ v.locks = w.locks
                            /\ v.segment = k /\ w.byte = b
    <3>1. PICK V : V = OfByte(O, b)
      OBVIOUS
    <3>2. v \in ClosedBy(t, V, "store")
      BY <1>4, <2>1, <3>1
    <3>3. QED BY <1>4, <3>1, <3>2, ClosedFrom DEF OfByte
  <2>6. C \subseteq closed'[t]
    BY <1>4, <2>1
  <2>7. QED BY <1>2, <1>4, <1>5, <2>1, <2>3, <2>4, <2>5, <2>6 DEF Moves
<1>8. CASE RMW(t)
  <2>1. PICK b, over : /\ b \in Byte /\ StoreNoted(t, b)
        /\ over = OfByte(open[t], b)
        /\ open'[t] = (open[t] \ (over \cup FlushedOf(open[t]))) \cup {NewWindow(t, b)}
        /\ closed'[t] = closed[t] \cup ClosedBy(t, over, "store")
                          \cup ClosedBy(t, FlushedOf(open[t]) \ over, "fence")
    BY <1>1, <1>8, RMWEffect
  <2>2. PICK new, V : new = NewWindow(t, b) /\ V = FlushedOf(O) \ over
    OBVIOUS
  <2>3. new.store = n /\ new.byte = b
    BY <1>6, <2>2
  <2>4. \A x \in open'[t] : x = new \/ (x \in O /\ x.byte # b /\ x \notin V)
    BY <1>4, <2>1, <2>2 DEF OfByte
  <2>5. ASSUME NEW v \in closed'[t] \ C
        PROVE  \E w \in O : /\ v.store = w.store /\ v.byte = w.byte /\ v.locks = w.locks
                            /\ v.segment = k /\ (w.byte = b \/ w \in V)
    <3>1. v \in ClosedBy(t, over, "store") \/ v \in ClosedBy(t, V, "fence")
      BY <1>4, <2>1, <2>2
    <3>2. over \subseteq O /\ V \subseteq O /\ \A w \in over : w.byte = b
      BY <1>4, <2>1, <2>2 DEF OfByte, FlushedOf
    <3>3. QED BY <1>4, <3>1, <3>2, ClosedFrom
  <2>6. C \subseteq closed'[t]
    BY <1>4, <2>1
  <2>7. \A v \in closed'[t] \ C :
          /\ \E w \in O : v.store = w.store /\ v.byte = w.byte /\ v.locks = w.locks
          /\ v.segment = Len(vector_clocks[t])
    BY <1>2, <1>4, <2>5
  <2>8. \A v \in closed'[t] \ C : \A x \in open'[t] : x.byte = v.byte => x.store = n
    <3> SUFFICES ASSUME NEW v \in closed'[t] \ C, NEW x \in open'[t], x.byte = v.byte
                 PROVE  x.store = n
      OBVIOUS
    <3>1. PICK w \in O : v.byte = w.byte /\ (w.byte = b \/ w \in V)
      BY <2>5
    <3>2. QED BY <1>3, <1>4, <2>3, <2>4, <3>1
  <2>9. \A v \in open'[t] :
          \/ \E w \in O : v.store = w.store /\ v.byte = w.byte /\ v.locks \subseteq w.locks
          \/ v.store = n /\ v.byte \in Byte
    BY <2>1, <2>3, <2>4
  <2>10. /\ now'[t] = n + 1 /\ n \in DOMAIN h
         /\ \A s \in DOMAIN g : s # n => s \in DOMAIN h /\ h[s] = g[s]
         /\ \A s \in DOMAIN h : \/ s \in DOMAIN g /\ h[s] = g[s]
                                \/ s = n /\ h[s] = k
    BY <1>5, <2>1
  <2>11. QED BY <1>2, <1>4, <2>6, <2>7, <2>8, <2>9, <2>10 DEF Moves
<1>9. CASE Fence(t) \/ ThreadExit(t)
  <2>1. PICK V, how : /\ V \subseteq O /\ open'[t] = O \ V
                      /\ closed'[t] = C \cup ClosedBy(t, V, how)
                      /\ now'[t] = now[t] /\ begun'[t] = begun[t]
    <3>1. CASE Fence(t)
      BY <1>1, <1>4, <3>1, FenceEffect DEF FlushedOf
    <3>2. CASE ThreadExit(t)
      BY <1>1, <1>4, <3>2, ExitEffect
    <3>3. QED BY <1>9, <3>1, <3>2
  <2>2. ASSUME NEW v \in closed'[t] \ C
        PROVE  \E w \in V : /\ v.store = w.store /\ v.byte = w.byte /\ v.locks = w.locks
                            /\ v.segment = k
    <3>1. v \in ClosedBy(t, V, how)
      BY <2>1
    <3>2. QED BY <1>4, <3>1, ClosedFrom
  <2>3. QED BY <1>2, <1>3, <1>4, <2>1, <2>2 DEF Moves
<1>10. CASE Load(t)
  BY <1>1, <1>10, LoadEffect, MovesKept
<1>11. CASE Flush(t)
  <2>1. PICK b : /\ now'[t] = now[t] /\ closed'[t] = closed[t] /\ begun' = begun
                 /\ open'[t] = FlushedAt(open[t], b)
    BY <1>1, <1>11, FlushEffect DEF history
  <2>2. \A w \in O : IsWindow(w)
    BY <1>1, <1>4 DEF MapsInv, MapsOK, Stands
  <2>3. ASSUME NEW v \in open'[t]
        PROVE  \E w \in O : v.store = w.store /\ v.byte = w.byte /\ v.locks = w.locks
    <3>1. PICK w \in O : v = FlushedWith(w, b)
      BY <1>4, <2>1 DEF FlushedAt
    <3>2. IsWindow(w)
      BY <2>2
    <3>3. v.store = w.store /\ v.byte = w.byte /\ v.locks = w.locks
      BY <3>1, <3>2, FlushedWindow
    <3>4. QED BY <3>3
  <2>4. QED BY <1>4, <2>1, <2>3 DEF Moves
<1>12. CASE Acquire(t) \/ Release(t)
  <2>1. PICK l : /\ now'[t] \in {now[t], now[t] + 1} /\ closed'[t] = closed[t]
                 /\ begun' = begun /\ open'[t] = UnprotectedBy(open[t], l)
    BY <1>1, <1>12, LockEffect DEF history, LockTaken, LockGiven
  <2>2. \A w \in O : IsWindow(w)
    BY <1>1, <1>4 DEF MapsInv, MapsOK, Stands
  <2>3. ASSUME NEW v \in open'[t]
        PROVE  \E w \in O : v.store = w.store /\ v.byte = w.byte /\ v.locks \subseteq w.locks
    <3>1. PICK w \in O : v = Unprotected(w, l)
      BY <1>4, <2>1 DEF UnprotectedBy
    <3>2. IsWindow(w)
      BY <2>2
    <3>3. v = [store |-> w.store, byte |-> w.byte, locks |-> w.locks \ {l},
               flushed |-> w.flushed]
      BY <3>1, <3>2 DEF IsWindow, Unprotected
    <3>4. v.store = w.store /\ v.byte = w.byte /\ v.locks \subseteq w.locks
      BY <3>3
    <3>5. QED BY <3>4
  <2>4. QED BY <1>4, <2>1, <2>3 DEF Moves
<1>13. QED BY <1>7, <1>8, <1>9, <1>10, <1>11, <1>12 DEF Acting

-----------------------------------------------------------------------------
(* What is known of windows, loads, locks and notes                        *)

\* t has had a segment i.
HasSegment(t, i) == i \in Nat /\ 1 <= i /\ i <= Len(vector_clocks[t])

\* Stores are numbered and begin in a segment of their thread, a window ends
\* in that segment or a later one, and is open or closed.
WindowsInv(t) ==
  /\ now[t] \in Nat
  /\ \A s \in DOMAIN begun[t] : s \in Nat /\ s < now[t] /\ HasSegment(t, begun[t][s])
  /\ \A w \in open[t] : w.store \in DOMAIN begun[t] /\ w.byte \in Byte
  /\ \A w \in closed[t] : /\ w.store \in DOMAIN begun[t] /\ w.byte \in Byte
                          /\ HasSegment(t, w.segment) /\ begun[t][w.store] <= w.segment
  /\ \A w \in open[t] : \A v \in closed[t] : w.byte = v.byte => w.store # v.store

\* The record of the load r.
LoadOf(r) ==
  [address |-> r.byte, mask |-> {0}, backtrace |-> r.id,
   clock_i |-> (r.segment - 1) % IndexModulus, lockset |-> r.locks]

\* The tool has the loads that are not excused, and no others.
ReadsInv(t) ==
  /\ ip[t] \in Nat
  /\ \A r \in reads[t] : /\ r.byte \in Byte /\ HasSegment(t, r.segment)
                         /\ r.id \in Nat /\ r.id < ip[t]
  /\ \A r \in reads[t] :
       <<"load", t, r.id, r.byte>> \notin initialising => LoadOf(r) \in race_likely_loads[t]
  /\ \A l \in race_likely_loads[t] : \E r \in reads[t] : l = LoadOf(r)

\* Two threads never hold the same mutex.
HolderInv ==
  \A t, u \in Tid : t # u => \A l \in Lock : depth[t][l] = 0 \/ depth[u][l] = 0

\* Excuses are about windows that have closed and loads that are over.
NotedInv ==
  \A t \in Tid :
    /\ \A s, b : <<"window", t, s, b>> \in initialising =>
                   \E w \in closed[t] : w.store = s /\ w.byte = b
    /\ \A i, b : <<"load", t, i, b>> \in initialising => i \in Nat /\ i < ip[t]

LEMMA WindowsNext ==
  ASSUME NEW t \in Tid, WindowsInv(t), Moves(t), ClocksGrow
  PROVE  WindowsInv(t)'
<1>1. PICK n, m, g, h, k, j :
        /\ n = now[t] /\ m = now'[t] /\ g = begun[t] /\ h = begun'[t]
        /\ k = Len(vector_clocks[t]) /\ j = Len(vector_clocks'[t])
  OBVIOUS
<1>2. k \in Nat /\ j \in Nat /\ k <= j /\ n \in Nat /\ m \in {n, n + 1} /\ m \in Nat
  BY <1>1 DEF ClocksGrow, WindowsInv, Moves
<1>3. \A s \in DOMAIN g : s \in Nat /\ s < n /\ g[s] \in Nat /\ 1 <= g[s] /\ g[s] <= k
  BY <1>1 DEF WindowsInv, HasSegment
<1>4. \A s \in DOMAIN g : s \in DOMAIN h /\ h[s] = g[s]
  BY <1>1, <1>2, <1>3 DEF Moves
<1>5. \A s \in DOMAIN h : \/ s \in DOMAIN g
                          \/ s = n /\ m = n + 1 /\ h[s] = k /\ k # 0
  BY <1>1 DEF Moves, Going
<1>6. \A s \in DOMAIN h : s \in Nat /\ s < m /\ h[s] \in Nat /\ 1 <= h[s] /\ h[s] <= j
  <2> SUFFICES ASSUME NEW s \in DOMAIN h
               PROVE  s \in Nat /\ s < m /\ h[s] \in Nat /\ 1 <= h[s] /\ h[s] <= j
    OBVIOUS
  <2>1. CASE s \in DOMAIN g
    <3>1. s \in Nat /\ s < n /\ g[s] \in Nat /\ 1 <= g[s] /\ g[s] <= k /\ h[s] = g[s]
      BY <1>3, <1>4, <2>1
    <3>2. QED BY <1>2, <3>1
  <2>2. CASE s = n /\ m = n + 1 /\ h[s] = k /\ k # 0
    BY <1>2, <2>2
  <2>3. QED BY <1>5, <2>1, <2>2
<1>7. \A w \in open[t] : w.store \in DOMAIN g /\ w.byte \in Byte /\ w.store # n
  BY <1>1, <1>2, <1>3 DEF WindowsInv
<1>8. ASSUME NEW w \in open'[t]
      PROVE  w.store \in DOMAIN h /\ w.byte \in Byte
  <2>1. CASE \E x \in open[t] : w.store = x.store /\ w.byte = x.byte
    BY <1>4, <1>7, <2>1
  <2>2. CASE w.store = n /\ m = n + 1 /\ w.byte \in Byte
    <3>1. w.store = now[t] => now'[t] = now[t] \/ now[t] \in DOMAIN begun'[t]
      BY DEF Moves
    <3>2. m # n
      BY <1>2, <2>2
    <3>3. QED BY <1>1, <2>2, <3>1, <3>2
  <2>3. QED BY <1>1, <2>1, <2>2 DEF Moves
<1>9. ASSUME NEW w \in closed'[t]
      PROVE  /\ w.store \in DOMAIN h /\ w.byte \in Byte
             /\ w.segment \in Nat /\ 1 <= w.segment /\ w.segment <= j
             /\ h[w.store] <= w.segment
  <2>1. CASE w \in closed[t]
    <3>1. /\ w.store \in DOMAIN g /\ w.byte \in Byte
          /\ w.segment \in Nat /\ 1 <= w.segment /\ w.segment <= k
          /\ g[w.store] <= w.segment
      BY <1>1, <2>1 DEF WindowsInv, HasSegment
    <3>2. QED BY <1>2, <1>4, <3>1
  <2>2. CASE w \notin closed[t]
    <3>1. PICK x \in open[t] : w.store = x.store /\ w.byte = x.byte
      BY <2>2 DEF Moves
    <3>2. w.segment = k /\ k # 0
      BY <1>1, <2>2 DEF Moves, Going
    <3>3. w.store \in DOMAIN g /\ w.byte \in Byte
      BY <1>7, <3>1
    <3>4. h[w.store] = g[w.store] /\ w.store \in DOMAIN h /\ g[w.store] <= k
      BY <1>3, <1>4, <3>3
    <3>5. QED BY <1>2, <3>2, <3>3, <3>4
  <2>3. QED BY <2>1, <2>2
<1>10. ASSUME NEW w \in open'[t], NEW v \in closed'[t], w.byte = v.byte
       PROVE  w.store # v.store
  <2>1. CASE v \in closed[t]
    <3>1. v.store \in DOMAIN g /\ v.store # n
      BY <1>1, <1>2, <1>3, <2>1 DEF WindowsInv
    <3>2. CASE w.store = n
      BY <3>1, <3>2
    <3>3. CASE \E x \in open[t] : w.store = x.store /\ w.byte = x.byte
      BY <1>10, <2>1, <3>3 DEF WindowsInv
    <3>4. QED BY <1>1, <3>2, <3>3 DEF Moves
  <2>2. CASE v \notin closed[t]
    <3>1. PICK x \in open[t] : v.store = x.store
      BY <2>2 DEF Moves
    <3>2. w.store = n
      BY <1>1, <1>10, <2>2 DEF Moves
    <3>3. QED BY <1>7, <3>1, <3>2
  <2>3. QED BY <2>1, <2>2
<1>11. QED
  BY <1>1, <1>2, <1>6, <1>8, <1>9, <1>10 DEF WindowsInv, HasSegment

\* What a step may do to the loads of t.
Loaded(t, b) ==
  /\ ip'[t] = ip[t] + 1 /\ Going(t)
  /\ reads'[t] = reads[t] \cup {NewRead(t, b)}
  /\ Segments[t] = Len(vector_clocks[t])
  /\ \/ race_likely_loads'[t] = race_likely_loads[t] \cup {LoadOf(NewRead(t, b))}
     \/ /\ race_likely_loads'[t] = race_likely_loads[t]
        /\ <<"load", t, ip[t], b>> \in initialising'

LEMMA NewReadIs ==
  ASSUME NEW t, NEW b, NEW r, r = NewRead(t, b)
  PROVE  r.byte = b /\ r.locks = held[t] /\ r.segment = Segments[t] /\ r.id = ip[t]
BY DEF NewRead

LEMMA NewLoadIs ==
  ASSUME NEW t, NEW b, LocksOK(t)
  PROVE  NewLoad(t, b) = LoadOf(NewRead(t, b))
<1>1. DOMAIN P!Timed(t) = held[t]
  <2>1. P!Timed(t) = current_timedlockset[t]
    BY DEF LocksOK, P!Timed
  <2>2. QED BY <2>1 DEF LocksOK
<1>2. PICK r : r = NewRead(t, b)
  OBVIOUS
<1>3. r.byte = b /\ r.locks = held[t] /\ r.segment = Segments[t] /\ r.id = ip[t]
  BY <1>2, NewReadIs
<1>4. QED BY <1>1, <1>2, <1>3 DEF NewLoad, LoadOf

LEMMA ReadsNext ==
  ASSUME NEW t \in Tid, ReadsInv(t), ClocksGrow, NotesGrow,
         ip'[t] \in {ip[t], ip[t] + 1},
         LoadsKept(t) \/ \E b \in Byte : Loaded(t, b)
  PROVE  ReadsInv(t)'
<1>1. /\ Len(vector_clocks[t]) \in Nat /\ Len(vector_clocks'[t]) \in Nat
      /\ Len(vector_clocks[t]) <= Len(vector_clocks'[t])
      /\ ip[t] \in Nat /\ ip'[t] \in Nat /\ ip[t] <= ip'[t]
  BY DEF ClocksGrow, ReadsInv
<1>2. \A i : HasSegment(t, i) => HasSegment(t, i)'
  BY <1>1 DEF HasSegment
<1>3. ASSUME NEW r \in reads[t]
      PROVE  /\ r.byte \in Byte /\ HasSegment(t, r.segment)' /\ r.id \in Nat /\ r.id < ip'[t]
             /\ <<"load", t, r.id, r.byte>> \notin initialising' =>
                  LoadOf(r) \in race_likely_loads[t]
  <2>1. /\ r.byte \in Byte /\ HasSegment(t, r.segment) /\ r.id \in Nat /\ r.id < ip[t]
        /\ <<"load", t, r.id, r.byte>> \notin initialising =>
                  LoadOf(r) \in race_likely_loads[t]
    BY DEF ReadsInv
  <2>2. QED BY <1>1, <1>2, <2>1 DEF NotesGrow
<1>4. CASE LoadsKept(t)
  <2>1. \A r : LoadOf(r)' = LoadOf(r)
    BY DEF LoadOf
  <2>2. QED BY <1>1, <1>3, <1>4, <2>1 DEF ReadsInv, LoadsKept
<1>5. ASSUME NEW b \in Byte, Loaded(t, b)
      PROVE  ReadsInv(t)'
  <2>1. PICK new : new = NewRead(t, b)
    OBVIOUS
  <2>2. new.byte = b /\ new.segment = Segments[t] /\ new.id = ip[t]
    BY <2>1, NewReadIs
  <2>3. PICK kept : kept = LoadOf(new)
    OBVIOUS
  <2>4. /\ reads'[t] = reads[t] \cup {new} /\ ip'[t] = ip[t] + 1
        /\ Segments[t] = Len(vector_clocks[t]) /\ Len(vector_clocks[t]) # 0
        /\ \/ race_likely_loads'[t] = race_likely_loads[t] \cup {kept}
           \/ /\ race_likely_loads'[t] = race_likely_loads[t]
              /\ <<"load", t, ip[t], b>> \in initialising'
    BY <1>5, <2>1, <2>3 DEF Loaded, Going
  <2>5. /\ new.byte \in Byte /\ HasSegment(t, new.segment)' /\ new.id \in Nat
        /\ new.id < ip'[t]
    BY <1>1, <2>2, <2>4 DEF HasSegment
  <2>6. <<"load", t, new.id, new.byte>> \notin initialising' =>
          LoadOf(new) \in race_likely_loads'[t]
    BY <2>2, <2>3, <2>4
  <2>7. \A r : LoadOf(r)' = LoadOf(r)
    BY DEF LoadOf
  <2>8. \A l \in race_likely_loads'[t] : \E r \in reads'[t] : l = LoadOf(r)
    <3>1. \A l \in race_likely_loads[t] : \E r \in reads[t] : l = LoadOf(r)
      BY DEF ReadsInv
    <3>2. \A l \in race_likely_loads'[t] : l \in race_likely_loads[t] \/ l = kept
      BY <2>4
    <3>3. reads[t] \subseteq reads'[t] /\ new \in reads'[t]
      BY <2>4
    <3>4. QED BY <2>3, <3>1, <3>2, <3>3
  <2>9. race_likely_loads[t] \subseteq race_likely_loads'[t]
    BY <2>4
  <2>10. \A r \in reads'[t] : r \in reads[t] \/ r = new
    BY <2>4
  <2>11. QED
    BY <1>1, <1>3, <2>5, <2>6, <2>7, <2>8, <2>9, <2>10 DEF ReadsInv
<1>6. QED BY <1>4, <1>5

LEMMA ActingLoads ==
  ASSUME TP!ThreadsInv, TrackerInv, DOMAIN pc = Tid, NEW t \in Tid, Acting(t)
  PROVE  LoadsKept(t) \/ \E b \in Byte : Loaded(t, b)
<1>1. pc[t] = "running" /\ LocksOK(t) /\ Tables
  BY ActingStep DEF TrackerInv, TrackInv
<1>2. Going(t) /\ Segments[t] = Len(vector_clocks[t])
  BY <1>1, RunningTracked DEF Tracked, Going
<1>3. ASSUME Load(t)
      PROVE  \E b \in Byte : Loaded(t, b)
  <2>1. OpStep(t)
    BY <1>1, <1>3, LoadEffect
  <2>2. PICK b, h :
          /\ b \in Byte /\ h = IP!HandleAccess(irh, t, b, 1, N)
          /\ LoadNoted(t, b)
          /\ h.mask = {} => race_likely_loads'[t] = race_likely_loads[t]
          /\ h.mask = {0} => race_likely_loads'[t] =
                               race_likely_loads[t] \cup {NewLoad(t, b)}
    BY <1>1, <1>3, LoadEffect
  <2>3. PICK i, A, B : /\ i = irh /\ A = accessors /\ B = [A EXCEPT ![b] = @ \cup {t}]
    OBVIOUS
  <2>4. /\ A \in [Byte -> SUBSET Tid] /\ HeuristicOK(i, A)
        /\ h = IP!HandleAccess(i, t, b, 1, N) /\ accessors' = B
    BY <2>2, <2>3 DEF TrackerInv, HeuristicInv, LoadNoted
  <2>5. /\ B \in [Byte -> SUBSET Tid]
        /\ Public(B, b) => h.mask = Whole
        /\ ~Public(B, b) => h.mask = {}
    <3>1. b \in Byte /\ B = [A EXCEPT ![b] = @ \cup {t}]
      BY <2>2, <2>3
    <3>2. B \in [Byte -> SUBSET Tid]
      BY <2>4, <3>1
    <3>3. Public(B, b) => h.mask = Whole
      BY <2>4, <3>1, AskedAnew
    <3>4. ~Public(B, b) => h.mask = {}
      BY <2>4, <3>1, AskedAnew
    <3>5. QED BY <3>2, <3>3, <3>4
  <2>6. Cardinality(B[b]) \in Nat
    BY <2>2, <2>5, TidFinite
  <2>7. reads'[t] = reads[t] \cup {NewRead(t, b)} /\ ip'[t] = ip[t] + 1
    BY <2>1, <2>2 DEF LoadNoted, OpStep
  <2>8. CASE Public(B, b)
    <3>1. race_likely_loads'[t] = race_likely_loads[t] \cup {NewLoad(t, b)}
      BY <2>2, <2>5, <2>8 DEF Whole
    <3>2. NewLoad(t, b) = LoadOf(NewRead(t, b))
      BY <1>1, NewLoadIs
    <3>3. QED BY <1>2, <2>2, <2>7, <3>1, <3>2 DEF Loaded
  <2>9. CASE ~Public(B, b)
    <3>1. Cardinality(accessors'[b]) <= N
      BY <2>4, <2>6, <2>9, HawkSetAssumption DEF Public
    <3>2. race_likely_loads'[t] = race_likely_loads[t]
      BY <2>2, <2>5, <2>9
    <3>3. <<"load", t, ip[t], b>> \in initialising'
      BY <2>2, <3>1 DEF LoadNoted
    <3>4. QED BY <1>2, <2>2, <2>7, <3>2, <3>3 DEF Loaded
  <2>10. QED BY <2>8, <2>9
<1>4. ASSUME ~Load(t)
      PROVE  LoadsKept(t)
  BY <1>1, <1>4, StoreEffect, RMWEffect, FlushEffect, FenceEffect, LockEffect, ExitEffect
     DEF Acting
<1>5. QED BY <1>3, <1>4

LEMMA Holders ==
  ASSUME Tables, DOMAIN pc = Tid, [Next]_vars, HolderInv, \A t \in Tid : LocksOK(t)
  PROVE  HolderInv'
<1>1. CASE \A t \in Tid : depth'[t] = depth[t]
  BY <1>1 DEF HolderInv
<1>2. ASSUME NEW t \in Tid, \A u \in Tid \ {t} : depth'[u] = depth[u], NEW l \in Lock,
             depth'[t] = [depth[t] EXCEPT ![l] = @ + 1]
               \/ depth'[t] = [depth[t] EXCEPT ![l] = @ - 1],
             \A u \in Tid \ {t} : depth[u][l] = 0
      PROVE  HolderInv'
  <2>1. \A k \in Lock : k # l => depth'[t][k] = depth[t][k]
    BY <1>2 DEF LocksOK
  <2>2. \A u \in Tid \ {t} : depth'[u][l] = 0
    BY <1>2
  <2>3. QED BY <1>2, <2>1, <2>2 DEF HolderInv
<1>3. ASSUME NEW t \in Tid, Acquire(t) \/ Release(t)
      PROVE  HolderInv'
  <2>1. PICK l \in Lock : \/ LockTaken(t, l) /\ \A u \in Tid \ {t} : depth[u][l] = 0
                          \/ LockGiven(t, l) /\ depth[t][l] > 0
    BY <1>3, LockEffect
  <2>2. \A u \in Tid \ {t} : depth[u][l] = 0
    <3>1. depth[t][l] > 0 => depth[t][l] # 0
      BY DEF LocksOK
    <3>2. QED BY <2>1, <3>1 DEF HolderInv
  <2>3. \A u \in Tid \ {t} : depth'[u] = depth[u]
    BY <1>3, LockEffect DEF OpStep, StepOf, Kept, LocksKept
  <2>4. QED BY <1>2, <2>1, <2>2, <2>3 DEF LockTaken, LockGiven
<1>4. CASE Elsewhere
  BY <1>1, <1>4, QuietEffect DEF Elsewhere, QuietStep, Kept, LocksKept
<1>5. ASSUME NEW t \in Tid, Acting(t), ~(Acquire(t) \/ Release(t))
      PROVE  HolderInv'
  <2>1. LocksKept(t)
    BY <1>5, StoreEffect, RMWEffect, LoadEffect, FlushEffect, FenceEffect, ExitEffect
       DEF Acting
  <2>2. StepOf(t)
    BY <1>5, ActingStep
  <2>3. QED BY <1>1, <2>1, <2>2 DEF StepOf, Kept, LocksKept
<1>6. QED BY <1>3, <1>4, <1>5, Cases

\* What may be noted in a step: a window of t that closes, a load of t.
Noting(t, x) ==
  \/ \E v \in closed'[t] \ closed[t] :
       x = <<"window", t, v.store, v.byte>> /\ Cardinality(accessors'[v.byte]) <= N
  \/ \E b \in Byte :
       /\ x = <<"load", t, ip[t], b>> /\ Cardinality(accessors'[b]) <= N
       /\ ip'[t] = ip[t] + 1

LEMMA Notes ==
  ASSUME Tables, DOMAIN pc = Tid, [Next]_vars, NEW x \in initialising'
  PROVE  x \in initialising \/ \E t \in Tid : Noting(t, x)
<1>1. CASE Elsewhere
  BY <1>1, QuietEffect DEF Elsewhere, QuietStep, history
<1>2. ASSUME NEW t \in Tid, Acting(t)
      PROVE  x \in initialising \/ Noting(t, x)
  <2>1. CASE NoteClosed(t)
    BY <2>1 DEF NoteClosed, Noting
  <2>2. CASE Load(t)
    <3>1. ip'[t] = ip[t] + 1
      BY <2>2, LoadEffect DEF OpStep
    <3>2. PICK b \in Byte : LoadNoted(t, b)
      BY <2>2, LoadEffect
    <3>3. QED BY <3>1, <3>2 DEF LoadNoted, Noting
  <2>3. CASE UNCHANGED history
    BY <2>3 DEF history
  <2>4. QED
    BY <1>2, <2>1, <2>2, <2>3, StoreEffect, RMWEffect, FlushEffect, FenceEffect,
       LockEffect, ExitEffect DEF Acting
<1>3. QED BY <1>1, <1>2, Cases

LEMMA NotedNext ==
  ASSUME Tables, DOMAIN pc = Tid, [Next]_vars, NotedInv,
         \A t \in Tid : /\ closed[t] \subseteq closed'[t]
                        /\ ip[t] \in Nat /\ ip'[t] \in {ip[t], ip[t] + 1}
  PROVE  NotedInv'
<1> SUFFICES ASSUME NEW t \in Tid
             PROVE  /\ \A s, b : <<"window", t, s, b>> \in initialising' =>
                                   \E w \in closed'[t] : w.store = s /\ w.byte = b
                    /\ \A i, b : <<"load", t, i, b>> \in initialising' =>
                                   i \in Nat /\ i < ip'[t]
  BY DEF NotedInv
<1>1. ASSUME NEW s, NEW b, <<"window", t, s, b>> \in initialising'
      PROVE  \E w \in closed'[t] : w.store = s /\ w.byte = b
  <2>1. CASE <<"window", t, s, b>> \in initialising
    BY <2>1 DEF NotedInv
  <2>2. ASSUME NEW u \in Tid, Noting(u, <<"window", t, s, b>>)
        PROVE  \E w \in closed'[t] : w.store = s /\ w.byte = b
    <3>1. PICK v \in closed'[u] : <<"window", t, s, b>> = <<"window", u, v.store, v.byte>>
      BY <2>2 DEF Noting
    <3>2. u = t /\ v.store = s /\ v.byte = b
      BY <3>1
    <3>3. QED BY <3>2
  <2>3. QED BY <1>1, <2>1, <2>2, Notes
<1>2. ASSUME NEW i, NEW b, <<"load", t, i, b>> \in initialising'
      PROVE  i \in Nat /\ i < ip'[t]
  <2>1. CASE <<"load", t, i, b>> \in initialising
    <3>1. i \in Nat /\ i < ip[t]
      BY <2>1 DEF NotedInv
    <3>2. QED BY <3>1
  <2>2. ASSUME NEW u \in Tid, Noting(u, <<"load", t, i, b>>)
        PROVE  i \in Nat /\ i < ip'[t]
    <3>1. PICK c \in Byte : /\ <<"load", t, i, b>> = <<"load", u, ip[u], c>>
                            /\ ip'[u] = ip[u] + 1
      BY <2>2 DEF Noting
    <3>2. u = t /\ i = ip[t]
      BY <3>1
    <3>3. QED BY <3>1, <3>2
  <2>3. QED BY <1>2, <2>1, <2>2, Notes
<1>3. QED BY <1>1, <1>2

-----------------------------------------------------------------------------
FactsInv ==
  /\ TrackerInv /\ HolderInv /\ NotedInv
  /\ \A t \in Tid : WindowsInv(t) /\ ReadsInv(t)

\* What a step does to the windows and loads of every thread.
Progress ==
  /\ ClocksGrow /\ NotesGrow
  /\ \A t \in Tid : /\ Moves(t) /\ ip'[t] \in {ip[t], ip[t] + 1}
                    /\ LoadsKept(t) \/ \E b \in Byte : Loaded(t, b)

LEMMA PcTable == ASSUME TP!ThreadsInv PROVE DOMAIN pc = Tid
<1>1. pc \in [TP!Tid -> TP!Phases]
  BY HawkSetAssumption, TP!SegmentFacts
<1>2. QED BY <1>1 DEF Tid, TP!Tid

LEMMA Progresses ==
  ASSUME TP!ThreadsInv, FactsInv, [Next]_vars
  PROVE  Progress
<1>1. /\ ClocksGrow /\ NotesGrow /\ DOMAIN pc = Tid /\ TrackerInv /\ Tables
  BY ClocksGrowing, TrackerStep, PcTable DEF FactsInv, TrackerInv
<1>2. \A t \in Tid : \A w \in open[t] : w.store # now[t]
  <2> SUFFICES ASSUME NEW t \in Tid, NEW w \in open[t] PROVE w.store # now[t]
    OBVIOUS
  <2>1. WindowsInv(t)
    BY DEF FactsInv
  <2>2. w.store \in Nat /\ w.store < now[t] /\ now[t] \in Nat
    BY <2>1 DEF WindowsInv
  <2>3. QED BY <2>2
<1>3. CASE Elsewhere
  <2>1. QuietStep
    BY <1>1, <1>3, QuietEffect DEF Elsewhere
  <2>2. ASSUME NEW t \in Tid
        PROVE  Moves(t) /\ LoadsKept(t) /\ ip'[t] \in {ip[t], ip[t] + 1}
    <3>1. WindowsKept(t) /\ LoadsKept(t) /\ ip'[t] \in {ip[t], ip[t] + 1}
      BY <2>1 DEF QuietStep, Kept
    <3>2. QED BY <1>2, <3>1, MovesKept
  <2>3. QED BY <1>1, <2>2 DEF Progress
<1>4. ASSUME NEW t \in Tid, Acting(t)
      PROVE  Progress
  <2>1. StepOf(t) /\ ip'[t] \in {ip[t], ip[t] + 1}
    BY <1>1, <1>4, ActingStep
  <2>2. Moves(t)
    BY <1>1, <1>2, <1>4, ActingMoves
  <2>3. LoadsKept(t) \/ \E b \in Byte : Loaded(t, b)
    BY <1>1, <1>4, ActingLoads
  <2>4. ASSUME NEW u \in Tid, u # t
        PROVE  Moves(u) /\ LoadsKept(u) /\ ip'[u] \in {ip[u], ip[u] + 1}
    <3>1. WindowsKept(u) /\ LoadsKept(u) /\ ip'[u] = ip[u]
      BY <2>1, <2>4 DEF StepOf, Kept
    <3>2. QED BY <1>2, <3>1, MovesKept
  <2>5. QED BY <1>1, <2>1, <2>2, <2>3, <2>4 DEF Progress
<1>5. QED BY <1>3, <1>4, Cases

LEMMA FactsStep ==
  ASSUME TP!ThreadsInv, FactsInv, [Next]_vars
  PROVE  FactsInv'
<1>1. Progress
  BY Progresses
<1>2. /\ ClocksGrow /\ NotesGrow /\ DOMAIN pc = Tid /\ TrackerInv /\ Tables
      /\ HolderInv /\ NotedInv /\ \A t \in Tid : LocksOK(t)
  BY <1>1, PcTable DEF Progress, FactsInv, TrackerInv, TrackInv
<1>3. TrackerInv'
  BY <1>2, TrackerStep
<1>4. ASSUME NEW t \in Tid
      PROVE  WindowsInv(t)' /\ ReadsInv(t)'
  <2>1. WindowsInv(t) /\ ReadsInv(t)
    BY DEF FactsInv
  <2>2. /\ Moves(t) /\ ip'[t] \in {ip[t], ip[t] + 1}
        /\ LoadsKept(t) \/ \E b \in Byte : Loaded(t, b)
    BY <1>1 DEF Progress
  <2>3. QED BY <1>2, <2>1, <2>2, WindowsNext, ReadsNext
<1>5. HolderInv'
  BY <1>2, Holders
<1>6. NotedInv'
  <2>1. \A t \in Tid : /\ closed[t] \subseteq closed'[t]
                       /\ ip[t] \in Nat /\ ip'[t] \in {ip[t], ip[t] + 1}
    BY <1>1 DEF Progress, Moves, FactsInv, ReadsInv
  <2>2. QED BY <1>2, <2>1, NotedNext
<1>7. QED BY <1>3, <1>4, <1>5, <1>6 DEF FactsInv

LEMMA FactsInit ==
  ASSUME Init
  PROVE  FactsInv
<1>1. /\ P!Init /\ W!Init /\ T!Init
      /\ ip = [t \in Tid |-> 1] /\ begun = [t \in Tid |-> [s \in {} |-> 0]]
      /\ accessors = [b \in Byte |-> {}] /\ initialising = {}
  BY DEF Init
<1>2. /\ current_timedlockset = [t \in Tid |-> P!NoLocks]
      /\ cached_timedlockset = [t \in Tid |-> {}]
      /\ acquisitions = [t \in Tid |-> 0]
      /\ lock_clock = [t \in Tid |-> 0]
      /\ depth = [t \in Tid |-> [l \in Lock |-> 0]]
      /\ mem_state = [t \in Tid |-> P!NoStores] /\ flushed_mem_state = [t \in Tid |-> P!NoStores]
      /\ race_likely_stores = [t \in Tid |-> {}] /\ race_likely_loads = [t \in Tid |-> {}]
      /\ irh = IP!InitialIrh
      /\ now = [t \in Tid |-> 0]
  BY <1>1, SameHeuristic DEF P!Init
<1>3. /\ held = [t \in Tid |-> {}] /\ open = [t \in Tid |-> {}]
      /\ closed = [t \in Tid |-> {}] /\ reads = [t \in Tid |-> {}]
  BY <1>1 DEF W!Init
<1>4. Tables
  BY <1>1, <1>2, <1>3 DEF Tables
<1>5. DOMAIN P!NoLocks = {} /\ DOMAIN P!NoStores = {}
  BY DEF P!NoLocks, P!NoStores
<1>6. HeuristicInv
  <2>1. irh.map = [t \in {} |-> 0] /\ irh.acc = [b \in {} |-> {}]
    BY <1>2 DEF IP!InitialIrh
  <2>2. DOMAIN irh.map = {} /\ DOMAIN irh.acc = {}
    BY <2>1
  <2>3. IP!MapOK(irh.map)
    BY <2>1, <2>2, SameCardinality, FS_EmptySet DEF IP!MapOK
  <2>4. ASSUME NEW b \in Byte
        PROVE  accessors[b] = {} /\ IP!Bits(irh, b) = IP!BitsOf(irh.map, {})
    BY <1>1, <2>2 DEF IP!Bits, IP!BitsOf
  <2>5. accessors \in [Byte -> SUBSET Tid]
    BY <1>1
  <2>6. QED BY <2>3, <2>4, <2>5 DEF HeuristicInv, HeuristicOK
<1>7. ASSUME NEW t \in Tid PROVE TrackInv(t)
  <2>1. LocksOK(t)
    BY <1>2, <1>3, <1>5, HawkSetAssumption DEF LocksOK, Stamped
  <2>2. MapsInv(t)
    <3>1. mem_state[t] = P!NoStores /\ flushed_mem_state[t] = P!NoStores /\ open[t] = {}
      BY <1>2, <1>3
    <3>2. QED BY <1>5, <3>1 DEF MapsInv, MapsOK
  <2>3. RecordsInv(t)
    BY <1>2, <1>3 DEF RecordsInv, RecordsOK
  <2>4. open[t] = {}
    BY <1>3
  <2>5. QED BY <2>1, <2>2, <2>3, <2>4 DEF TrackInv
<1>8. ASSUME NEW t \in Tid PROVE WindowsInv(t) /\ ReadsInv(t)
  <2>1. /\ now[t] = 0 /\ ip[t] = 1 /\ DOMAIN begun[t] = {} /\ open[t] = {}
        /\ closed[t] = {} /\ reads[t] = {} /\ race_likely_loads[t] = {}
    BY <1>1, <1>2, <1>3
  <2>2. QED BY <2>1 DEF WindowsInv, ReadsInv
<1>9. HolderInv /\ NotedInv
  BY <1>1, <1>2 DEF HolderInv, NotedInv
<1>10. QED
  BY <1>4, <1>6, <1>7, <1>8, <1>9 DEF FactsInv, TrackerInv

-----------------------------------------------------------------------------
(* The verdict                                                             *)

RP == INSTANCE RaceAnalysisProofs WITH
        clocks <- <<>>, StoreData <- [t \in Tid |-> {}], LoadData <- [t \in Tid |-> {}],
        MaxStores <- 0, MaxLoads <- 0, stores <- race_likely_stores,
        loads <- race_likely_loads

\* Records as the analysis gets them: different threads share no backtrace.
TagStore(t, r) == [r EXCEPT !.write_trace = <<t, @>>]
TagLoad(t, l) == [l EXCEPT !.backtrace = <<t, @>>]
StoresLeft(records) == [t \in Tid |-> {TagStore(t, r) : r \in records[t]}]
LoadsLeft(records) == [t \in Tid |-> {TagLoad(t, l) : l \in records[t]}]

VerdictInv ==
  analysed => verdict = R!CheckPMRaces(StoresLeft(race_likely_stores),
                                       LoadsLeft(race_likely_loads), vector_clocks)

LEMMA VerdictNext ==
  ASSUME VerdictInv, [Next]_vars
  PROVE  VerdictInv'
<1>1. CASE UNCHANGED vars
  <2>1. UNCHANGED <<analysed, verdict, race_likely_stores, race_likely_loads, vector_clocks>>
    BY <1>1 DEF vars, control, memory, tracker, threads
  <2>2. QED BY <2>1 DEF VerdictInv
<1>2. CASE Analyse
  <2>1. UNCHANGED <<race_likely_stores, race_likely_loads, vector_clocks>>
    BY <1>2 DEF Analyse, memory, tracker, threads
  <2>2. verdict' = R!CheckPMRaces(StoresLeft(race_likely_stores),
                                  LoadsLeft(race_likely_loads), vector_clocks)
    BY <1>2 DEF Analyse, StoresLeft, LoadsLeft, TagStore, TagLoad
  <2>3. QED BY <2>1, <2>2 DEF VerdictInv
<1>3. ASSUME NEW t \in Tid, Step(t)
      PROVE  VerdictInv'
  <2>1. analysed' = analysed /\ ~analysed
    BY <1>3 DEF Step, Store, RMW, Load, Flush, Fence, Acquire, Release, Publish, Await,
       CreateBegin, CreateOriginal, CreateWait, CreateMap, ThreadStart, JoinOriginal,
       JoinEnd, ThreadExit, At, Advance, control
  <2>2. QED BY <2>1 DEF VerdictInv
<1>4. QED BY <1>1, <1>2, <1>3 DEF Next, Finished

LEMMA SameAnalysis ==
  ASSUME NEW stored, NEW loaded, NEW times
  PROVE  R!CheckPMRaces(stored, loaded, times) = RP!CheckPMRaces(stored, loaded, times)
BY DEF R!CheckPMRaces, RP!CheckPMRaces, R!ReportsOf, RP!ReportsOf, R!Groups, RP!Groups,
   R!Traces, RP!Traces, R!Report, RP!Report, R!CheckPMRacesPerThread,
   RP!CheckPMRacesPerThread, R!RacyEntry, RP!RacyEntry, R!Entries, RP!Entries,
   R!LoadsByByte, RP!LoadsByByte, R!LoadKeys, RP!LoadKeys, R!Racy, RP!Racy,
   R!ShortIntersect, RP!ShortIntersect, R!IsConcurrent, RP!IsConcurrent

LEMMA Tagged ==
  ASSUME NEW t, NEW r, IsRecord(t, r), NEW x, x = TagStore(t, r)
  PROVE  /\ x.common_set = r.common_set /\ x.clock_i = r.clock_i
         /\ x.write_trace = <<t, r.write_trace>> /\ x.fence_trace = r.fence_trace
         /\ x.address = r.address /\ x.persisted = r.persisted
         /\ x.was_flushed = r.was_flushed
<1>1. x = [common_set |-> r.common_set, clock_i |-> r.clock_i,
           write_trace |-> <<t, r.write_trace>>, fence_trace |-> r.fence_trace,
           address |-> r.address, persisted |-> r.persisted,
           was_flushed |-> r.was_flushed]
  BY DEF IsRecord, TagStore
<1>2. QED BY <1>1

LEMMA TaggedLoad ==
  ASSUME NEW t, NEW r, NEW l, l = LoadOf(r), NEW x, x = TagLoad(t, l)
  PROVE  /\ x.address = r.byte /\ x.mask = {0} /\ x.backtrace = <<t, r.id>>
         /\ x.clock_i = (r.segment - 1) % IndexModulus /\ x.lockset = r.locks
<1>1. x = [address |-> r.byte, mask |-> {0}, backtrace |-> <<t, r.id>>,
           clock_i |-> (r.segment - 1) % IndexModulus, lockset |-> r.locks]
  BY DEF LoadOf, TagLoad
<1>2. QED BY <1>1

(* The records that make the report x.                                      *)
Shows(x, t, r, u, q) ==
  /\ t # u /\ r.address = q.byte /\ r.common_set \cap q.locks = {}
  /\ TP!Incomparable(vector_clocks[t][r.clock_i + 1],
                     vector_clocks[u][((q.segment - 1) % IndexModulus) + 1])
  /\ x = R!Report(<<t, r.write_trace>>, r.fence_trace, r.was_flushed, r.persisted,
                  <<u, q.id>>)

LEMMA ClockIndex ==
  ASSUME NEW i \in Nat, 1 <= i
  PROVE  /\ (i - 1) % IndexModulus \in Nat /\ ((i - 1) % IndexModulus) + 1 <= i
         /\ i <= IndexModulus => ((i - 1) % IndexModulus) + 1 = i
<1>1. IndexModulus \in Nat /\ IndexModulus > 0 /\ i - 1 \in Nat
  BY HawkSetAssumption
<1>2. QED BY <1>1

LEMMA ByteInt == \A b \in Byte : b \in Int
BY HawkSetAssumption

LEMMA LeftBehind ==
  ASSUME TP!ThreadsInv, FactsInv
  PROVE  RP!LeftBehind(StoresLeft(race_likely_stores), LoadsLeft(race_likely_loads),
                       vector_clocks)
<1>1. PICK S, L : /\ S = StoresLeft(race_likely_stores)
                  /\ L = LoadsLeft(race_likely_loads)
  OBVIOUS
<1>2. DOMAIN S = Tid /\ DOMAIN L = Tid
  BY <1>1 DEF StoresLeft, LoadsLeft
<1>3. \A t \in Tid : \A i \in 1 .. Len(vector_clocks[t]) :
        RP!IsClock(vector_clocks[t][i], Tid)
  <2>1. \A t \in TP!Tid : \A i \in 1 .. Len(vector_clocks[t]) :
          TP!IsClock(vector_clocks[t][i], TP!Tid)
    BY HawkSetAssumption, TP!SegmentFacts
  <2>2. QED BY <2>1 DEF Tid, TP!Tid, TP!IsClock, RP!IsClock
<1>4. \A t \in Tid : Len(vector_clocks[t]) \in Nat
  <2>1. \A t \in TP!Tid : Len(vector_clocks[t]) \in Nat
    BY HawkSetAssumption, TP!SegmentFacts
  <2>2. QED BY <2>1 DEF Tid, TP!Tid
<1>5. ASSUME NEW t \in Tid, NEW x \in S[t]
      PROVE  RP!IsClock(vector_clocks[t][x.clock_i + 1], Tid) /\ x.address \in Int
  <2>1. PICK r \in race_likely_stores[t] : x = TagStore(t, r)
    BY <1>1, <1>5 DEF StoresLeft
  <2>2. IsRecord(t, r)
    BY <1>5 DEF FactsInv, TrackerInv, TrackInv, RecordsInv, RecordsOK
  <2>3. x.clock_i = r.clock_i /\ x.address = r.address
    BY <2>1, <2>2, Tagged
  <2>4. r.clock_i \in Nat /\ r.clock_i < Len(vector_clocks[t]) /\ r.address \in Byte
    BY <2>2 DEF IsRecord
  <2>5. r.clock_i + 1 \in 1 .. Len(vector_clocks[t])
    BY <1>4, <2>4
  <2>6. x.address \in Int
    <3>1. r.address \in Int
      BY <2>4, ByteInt
    <3>2. QED BY <2>3, <3>1
  <2>7. RP!IsClock(vector_clocks[t][x.clock_i + 1], Tid)
    BY <1>3, <2>3, <2>5
  <2>8. QED BY <2>6, <2>7
<1>6. ASSUME NEW t \in Tid, NEW x \in L[t]
      PROVE  /\ RP!IsClock(vector_clocks[t][x.clock_i + 1], Tid)
             /\ x.address \in Int /\ x.mask \subseteq Int
  <2>1. PICK l \in race_likely_loads[t] : x = TagLoad(t, l)
    BY <1>1, <1>6 DEF LoadsLeft
  <2>2. PICK r \in reads[t] : l = LoadOf(r)
    BY <1>6 DEF FactsInv, ReadsInv
  <2>3. /\ x.clock_i = (r.segment - 1) % IndexModulus /\ x.address = r.byte
        /\ x.mask = {0}
    BY <2>1, <2>2, TaggedLoad
  <2>4. /\ r.segment \in Nat /\ 1 <= r.segment /\ r.segment <= Len(vector_clocks[t])
        /\ r.byte \in Byte
    BY <1>6, <2>2 DEF FactsInv, ReadsInv, HasSegment
  <2>5. x.clock_i \in Nat /\ x.clock_i + 1 <= r.segment
    BY <2>3, <2>4, ClockIndex
  <2>6. x.clock_i + 1 \in 1 .. Len(vector_clocks[t])
    BY <1>4, <2>4, <2>5
  <2>7. r.byte \in Int /\ {0} \subseteq Int
    BY <2>4, ByteInt
  <2>8. x.address \in Int
    BY <2>3, <2>7
  <2>9. x.mask \subseteq Int
    BY <2>3, <2>7
  <2>10. RP!IsClock(vector_clocks[t][x.clock_i + 1], Tid)
    BY <1>3, <2>6
  <2>11. QED BY <2>8, <2>9, <2>10
<1>7. RP!LeftBehind(S, L, vector_clocks)
  BY <1>2, <1>5, <1>6 DEF RP!LeftBehind
<1>8. QED BY <1>1, <1>7

(* The verdict has the reports of the pairs that the records show, and no   *)
(* others.                                                                  *)
LEMMA VerdictMeans ==
  ASSUME TP!ThreadsInv, FactsInv, VerdictInv, analysed, NEW x
  PROVE  /\ x \in verdict =>
              \E t, u \in Tid : \E r \in race_likely_stores[t], q \in reads[u] :
                Shows(x, t, r, u, q)
         /\ \A t, u \in Tid : \A r \in race_likely_stores[t], q \in reads[u] :
              LoadOf(q) \in race_likely_loads[u] /\ Shows(x, t, r, u, q) => x \in verdict
<1>1. PICK S, L, V : /\ S = StoresLeft(race_likely_stores)
                     /\ L = LoadsLeft(race_likely_loads) /\ V = vector_clocks
  OBVIOUS
<1>2. verdict = RP!Races(S, L, V)
  <2>1. RP!LeftBehind(S, L, V)
    BY <1>1, LeftBehind
  <2>2. verdict = RP!CheckPMRaces(S, L, V)
    BY <1>1, SameAnalysis DEF VerdictInv
  <2>3. RP!EndOfRunAssumption
    BY DEF RP!EndOfRunAssumption
  <2>4. QED BY <2>1, <2>2, <2>3, RP!AnalysisExact
<1>3. DOMAIN S = Tid /\ DOMAIN L = Tid
  BY <1>1 DEF StoresLeft, LoadsLeft
<1>4. x \in verdict <=> \E t \in Tid : \E u \in Tid \ {t} : x \in RP!RacesOf(t, u, S, L, V)
  BY <1>2, <1>3 DEF RP!Races
<1>5. ASSUME NEW t \in Tid, NEW u \in Tid
      PROVE  x \in RP!RacesOf(t, u, S, L, V) <=>
               \E r \in S[t] : \E l \in L[u] :
                 /\ RP!Race(r, l, V[t][r.clock_i + 1], V[u][l.clock_i + 1])
                 /\ x = RP!Report(r.write_trace, r.fence_trace, r.was_flushed, r.persisted,
                                  l.backtrace)
  <2>1. ASSUME x \in RP!RacesOf(t, u, S, L, V)
        PROVE  \E r \in S[t] : \E l \in L[u] :
                 /\ RP!Race(r, l, V[t][r.clock_i + 1], V[u][l.clock_i + 1])
                 /\ x = RP!Report(r.write_trace, r.fence_trace, r.was_flushed, r.persisted,
                                  l.backtrace)
    <3>1. PICK p \in S[t] \X L[u] :
            /\ RP!Race(p[1], p[2], V[t][p[1].clock_i + 1], V[u][p[2].clock_i + 1])
            /\ x = RP!Report(p[1].write_trace, p[1].fence_trace, p[1].was_flushed,
                             p[1].persisted, p[2].backtrace)
      BY <2>1 DEF RP!RacesOf
    <3>2. p[1] \in S[t] /\ p[2] \in L[u]
      BY <3>1
    <3>3. QED BY <3>1, <3>2
  <2>2. ASSUME NEW r \in S[t], NEW l \in L[u],
               RP!Race(r, l, V[t][r.clock_i + 1], V[u][l.clock_i + 1]),
               x = RP!Report(r.write_trace, r.fence_trace, r.was_flushed, r.persisted,
                             l.backtrace)
        PROVE  x \in RP!RacesOf(t, u, S, L, V)
    <3>1. PICK p : p = <<r, l>>
      OBVIOUS
    <3>2. p \in S[t] \X L[u] /\ p[1] = r /\ p[2] = l
      BY <3>1
    <3>3. p \in {q \in S[t] \X L[u] : RP!Race(q[1], q[2], V[t][q[1].clock_i + 1],
                                                V[u][q[2].clock_i + 1])}
      BY <2>2, <3>2
    <3>4. QED BY <2>2, <3>2, <3>3 DEF RP!RacesOf
  <2>3. QED BY <2>1, <2>2
<1>6. ASSUME NEW t \in Tid, NEW u \in Tid, NEW r \in race_likely_stores[t],
             NEW q \in reads[u], NEW r1, r1 = TagStore(t, r), NEW l1,
             l1 = TagLoad(u, LoadOf(q)), t # u
      PROVE  /\ RP!Race(r1, l1, V[t][r1.clock_i + 1], V[u][l1.clock_i + 1])
             /\ x = RP!Report(r1.write_trace, r1.fence_trace, r1.was_flushed, r1.persisted,
                              l1.backtrace)
             <=> Shows(x, t, r, u, q)
  <2>1. IsRecord(t, r)
    BY DEF FactsInv, TrackerInv, TrackInv, RecordsInv, RecordsOK
  <2>2. /\ r1.common_set = r.common_set /\ r1.clock_i = r.clock_i
        /\ r1.write_trace = <<t, r.write_trace>> /\ r1.fence_trace = r.fence_trace
        /\ r1.address = r.address /\ r1.persisted = r.persisted
        /\ r1.was_flushed = r.was_flushed
    BY <1>6, <2>1, Tagged
  <2>3. /\ l1.address = q.byte /\ l1.mask = {0} /\ l1.backtrace = <<u, q.id>>
        /\ l1.clock_i = (q.segment - 1) % IndexModulus /\ l1.lockset = q.locks
    <3>1. PICK l : l = LoadOf(q)
      OBVIOUS
    <3>2. QED BY <1>6, <3>1, TaggedLoad
  <2>4. r.address \in Int /\ q.byte \in Int
    BY <2>1, HawkSetAssumption DEF IsRecord, FactsInv, ReadsInv
  <2>5. r1.address - l1.address \in l1.mask <=> r.address = q.byte
    BY <2>2, <2>3, <2>4
  <2>6. \A c, d : RP!Incomparable(c, d) <=> TP!Incomparable(c, d)
    BY DEF RP!Incomparable, TP!Incomparable, RP!Leq, TP!Leq, RP!At, TP!At
  <2>7. \A a, b, c, d, e : RP!Report(a, b, c, d, e) = R!Report(a, b, c, d, e)
    BY DEF RP!Report, R!Report
  <2>8. QED BY <1>1, <1>6, <2>2, <2>3, <2>5, <2>6, <2>7 DEF RP!Race, Shows
<1>7. ASSUME x \in verdict
      PROVE  \E t, u \in Tid : \E r \in race_likely_stores[t], q \in reads[u] :
                Shows(x, t, r, u, q)
  <2>1. PICK t \in Tid, u \in Tid : t # u /\ x \in RP!RacesOf(t, u, S, L, V)
    BY <1>4, <1>7
  <2>2. PICK r1 \in S[t], l1 \in L[u] :
          /\ RP!Race(r1, l1, V[t][r1.clock_i + 1], V[u][l1.clock_i + 1])
          /\ x = RP!Report(r1.write_trace, r1.fence_trace, r1.was_flushed, r1.persisted,
                           l1.backtrace)
    BY <1>5, <2>1
  <2>3. PICK r \in race_likely_stores[t] : r1 = TagStore(t, r)
    BY <1>1, <2>2 DEF StoresLeft
  <2>4. PICK l \in race_likely_loads[u] : l1 = TagLoad(u, l)
    BY <1>1, <2>2 DEF LoadsLeft
  <2>5. PICK q \in reads[u] : l = LoadOf(q)
    BY DEF FactsInv, ReadsInv
  <2>6. Shows(x, t, r, u, q)
    BY <1>6, <2>1, <2>2, <2>3, <2>4, <2>5
  <2>7. QED BY <2>6
<1>8. ASSUME NEW t \in Tid, NEW u \in Tid, NEW r \in race_likely_stores[t],
             NEW q \in reads[u], LoadOf(q) \in race_likely_loads[u], Shows(x, t, r, u, q)
      PROVE  x \in verdict
  <2>1. PICK r1, l1 : r1 = TagStore(t, r) /\ l1 = TagLoad(u, LoadOf(q))
    OBVIOUS
  <2>2. r1 \in S[t] /\ l1 \in L[u]
    BY <1>1, <1>8, <2>1 DEF StoresLeft, LoadsLeft
  <2>3. t # u
    BY <1>8 DEF Shows
  <2>4. /\ RP!Race(r1, l1, V[t][r1.clock_i + 1], V[u][l1.clock_i + 1])
        /\ x = RP!Report(r1.write_trace, r1.fence_trace, r1.was_flushed, r1.persisted,
                         l1.backtrace)
    BY <1>6, <1>8, <2>1, <2>3
  <2>5. x \in RP!RacesOf(t, u, S, L, V)
    BY <1>5, <2>2, <2>4
  <2>6. QED BY <1>4, <2>3, <2>5
<1>9. QED BY <1>7, <1>8

-----------------------------------------------------------------------------
(* A load that comes while the window is open                              *)

\* The load `id` of u saw t's store s of byte b while its window was open: it
\* shared no lock with the window, and the threads were apart.
Saw(t, s, b, u, id) ==
  /\ t \in Tid /\ u \in Tid /\ t # u /\ b \in Byte
  /\ s \in DOMAIN begun[t] /\ id \in Nat /\ id < ip[u]
  /\ t \in accessors[b] /\ u \in accessors[b]
  /\ \A r \in reads[u] : r.id = id => r.byte = b
SawOpen(t, s, b, u, id) ==
  \A w \in open[t], r \in reads[u] : w.store = s /\ w.byte = b /\ r.id = id =>
    /\ w.locks \cap r.locks = {}
    /\ \A g, e, j : g = begun[t][s] /\ e = Len(vector_clocks[t]) /\ j = r.segment =>
                      TP!Apart(t, g, e, u, j)
SawClosed(t, s, b, u, id) ==
  \A w \in closed[t], r \in reads[u] : w.store = s /\ w.byte = b /\ r.id = id =>
    /\ w.locks \cap r.locks = {}
    /\ \A g, e, j : g = begun[t][s] /\ e = w.segment /\ j = r.segment =>
                      TP!Apart(t, g, e, u, j)
\* Neither the window nor the load is excused.
Unexcused(t, s, b, u, id) ==
  N <= 1 => /\ <<"window", t, s, b>> \notin initialising
            /\ <<"load", u, id, b>> \notin initialising

CaughtOf(t, s, b, u, id) ==
  /\ Saw(t, s, b, u, id) /\ SawOpen(t, s, b, u, id) /\ SawClosed(t, s, b, u, id)
  /\ Unexcused(t, s, b, u, id)

CaughtInv ==
  \A c \in caught : \E t, s, b, u, id : c = <<t, s, b, u, id>> /\ CaughtOf(t, s, b, u, id)

LEMMA TwoAccess ==
  ASSUME NEW A, A \subseteq Tid, NEW t \in A, NEW u \in A, t # u, N <= 1
  PROVE  ~(Cardinality(A) <= N)
<1>1. IsFiniteSet(A) /\ IsFiniteSet({t, u}) /\ {t, u} \subseteq A
  BY TidFinite, FS_Subset
<1>2. Cardinality({t, u}) <= Cardinality(A)
  BY <1>1, FS_Subset
<1>3. Cardinality({t}) = 1
  BY FS_Singleton
<1>4. Cardinality({t, u}) = 2
  <2>1. IsFiniteSet({t}) /\ {t, u} = {t} \cup {u} /\ u \notin {t}
    BY FS_Singleton
  <2>2. Cardinality({t} \cup {u}) = Cardinality({t}) + 1
    BY <2>1, FS_AddElement
  <2>3. QED BY <1>3, <2>1, <2>2
<1>5. Cardinality(A) \in Nat
  BY <1>1, FS_CardinalityType
<1>6. QED BY <1>2, <1>4, <1>5, HawkSetAssumption

LEMMA SawNext ==
  ASSUME Progress, FactsInv, NEW t, NEW s, NEW b, NEW u, NEW id, Saw(t, s, b, u, id)
  PROVE  Saw(t, s, b, u, id)' /\ begun'[t][s] = begun[t][s] /\ s # now[t]
<1>1. /\ t \in Tid /\ u \in Tid /\ t # u /\ b \in Byte
      /\ s \in DOMAIN begun[t] /\ id \in Nat /\ id < ip[u]
      /\ t \in accessors[b] /\ u \in accessors[b]
      /\ \A r \in reads[u] : r.id = id => r.byte = b
  BY DEF Saw
<1>2. WindowsInv(t) /\ ReadsInv(u)
  BY <1>1 DEF FactsInv
<1>3. s # now[t]
  BY <1>1, <1>2 DEF WindowsInv
<1>4. s \in DOMAIN begun'[t] /\ begun'[t][s] = begun[t][s]
  BY <1>1, <1>3 DEF Progress, Moves
<1>5. id < ip'[u]
  BY <1>1, <1>2 DEF Progress, ReadsInv
<1>6. t \in accessors'[b] /\ u \in accessors'[b]
  BY <1>1 DEF Progress, NotesGrow
<1>7. \A r \in reads'[u] : r.id = id => r \in reads[u]
  <2>1. CASE LoadsKept(u)
    BY <2>1 DEF LoadsKept
  <2>2. ASSUME NEW x \in Byte, Loaded(u, x)
        PROVE  \A r \in reads'[u] : r.id = id => r \in reads[u]
    <3>1. PICK new : new = NewRead(u, x)
      OBVIOUS
    <3>2. new.id = ip[u] /\ reads'[u] = reads[u] \cup {new}
      BY <2>2, <3>1, NewReadIs DEF Loaded
    <3>3. QED BY <1>1, <1>2, <3>2 DEF ReadsInv
  <2>3. QED BY <1>1, <2>1, <2>2 DEF Progress
<1>8. QED BY <1>1, <1>3, <1>4, <1>5, <1>6, <1>7 DEF Saw

\* The loads of that name are the ones there were.
LEMMA SameReads ==
  ASSUME Progress, FactsInv, NEW u \in Tid, NEW id, id \in Nat, id < ip[u],
         NEW r \in reads'[u], r.id = id
  PROVE  r \in reads[u]
<1>1. ReadsInv(u)
  BY DEF FactsInv
<1>2. CASE LoadsKept(u)
  BY <1>2 DEF LoadsKept
<1>3. ASSUME NEW x \in Byte, Loaded(u, x)
      PROVE  r \in reads[u]
  <2>1. PICK new : new = NewRead(u, x)
    OBVIOUS
  <2>2. new.id = ip[u] /\ reads'[u] = reads[u] \cup {new}
    BY <1>3, <2>1, NewReadIs DEF Loaded
  <2>3. QED BY <1>1, <2>2 DEF ReadsInv
<1>4. QED BY <1>2, <1>3 DEF Progress

\* What held of two segments that were apart.
LEMMA StillApart ==
  ASSUME TP!ThreadsInv, TP!ThreadsInv', [Next]_vars,
         NEW t \in Tid, NEW u \in Tid, t # u, NEW g, NEW e, NEW j,
         HasSegment(t, g), HasSegment(t, e), HasSegment(u, j), g <= e,
         TP!Apart(t, g, e, u, j), NEW m, m = Len(vector_clocks'[t])
  PROVE  /\ TP!Apart(t, g, e, u, j)'
         /\ e = Len(vector_clocks[t]) => TP!Apart(t, g, m, u, j)'
<1>1. [TP!Next]_(TP!vars)
  BY ThreadsMove
<1>2. t \in TP!Tid /\ u \in TP!Tid
  BY DEF Tid, TP!Tid
<1>3. Len(vector_clocks[t]) \in Nat /\ Len(vector_clocks[u]) \in Nat
  BY <1>2, HawkSetAssumption, TP!SegmentFacts
<1>4. /\ g \in Nat /\ g >= 1
      /\ e \in 1 .. Len(vector_clocks[t]) /\ j \in 1 .. Len(vector_clocks[u])
  BY <1>3 DEF HasSegment
<1>5. QED BY <1>1, <1>2, <1>4, HawkSetAssumption, TP!ApartKept

LEMMA SawOpenNext ==
  ASSUME TP!ThreadsInv, TP!ThreadsInv', [Next]_vars, Progress, FactsInv,
         NEW t, NEW s, NEW b, NEW u, NEW id, Saw(t, s, b, u, id), SawOpen(t, s, b, u, id)
  PROVE  SawOpen(t, s, b, u, id)'
<1> SUFFICES ASSUME NEW w \in open'[t], NEW r \in reads'[u],
                    w.store = s, w.byte = b, r.id = id
             PROVE  /\ w.locks \cap r.locks = {}
                    /\ \A g, e, j : /\ g = begun'[t][s] /\ e = Len(vector_clocks'[t])
                                    /\ j = r.segment
                                    => TP!Apart(t, g, e, u, j)'
  BY DEF SawOpen
<1>1. /\ t \in Tid /\ u \in Tid /\ t # u /\ s \in DOMAIN begun[t]
      /\ id \in Nat /\ id < ip[u] /\ s # now[t] /\ begun'[t][s] = begun[t][s]
  BY SawNext DEF Saw
<1>2. r \in reads[u]
  BY <1>1, SameReads
<1>3. PICK v \in open[t] : w.store = v.store /\ w.byte = v.byte /\ w.locks \subseteq v.locks
  BY <1>1 DEF Progress, Moves
<1>4. WindowsInv(t) /\ ReadsInv(u)
  BY <1>1 DEF FactsInv
<1>5. PICK g, n, j : g = begun[t][s] /\ n = Len(vector_clocks[t]) /\ j = r.segment
  OBVIOUS
<1>6. HasSegment(t, g) /\ HasSegment(u, j)
  BY <1>1, <1>2, <1>4, <1>5 DEF WindowsInv, ReadsInv
<1>7. n \in Nat
  BY <1>1, <1>5 DEF Progress, ClocksGrow
<1>8. HasSegment(t, n) /\ g <= n
  BY <1>5, <1>6, <1>7 DEF HasSegment
<1>9. v.locks \cap r.locks = {} /\ TP!Apart(t, g, n, u, j)
  BY <1>2, <1>3, <1>5 DEF SawOpen
<1>10. PICK m : m = Len(vector_clocks'[t])
  OBVIOUS
<1>11. TP!Apart(t, g, m, u, j)'
  BY <1>1, <1>5, <1>6, <1>8, <1>9, <1>10, StillApart
<1>12. QED BY <1>1, <1>3, <1>5, <1>9, <1>10, <1>11

LEMMA SawClosedNext ==
  ASSUME TP!ThreadsInv, TP!ThreadsInv', [Next]_vars, Progress, FactsInv,
         NEW t, NEW s, NEW b, NEW u, NEW id, Saw(t, s, b, u, id), SawOpen(t, s, b, u, id),
         SawClosed(t, s, b, u, id)
  PROVE  SawClosed(t, s, b, u, id)'
<1> SUFFICES ASSUME NEW w \in closed'[t], NEW r \in reads'[u],
                    w.store = s, w.byte = b, r.id = id
             PROVE  /\ w.locks \cap r.locks = {}
                    /\ \A g, e, j : /\ g = begun'[t][s] /\ e = w.segment
                                    /\ j = r.segment
                                    => TP!Apart(t, g, e, u, j)'
  BY DEF SawClosed
<1>1. /\ t \in Tid /\ u \in Tid /\ t # u /\ s \in DOMAIN begun[t]
      /\ id \in Nat /\ id < ip[u] /\ s # now[t] /\ begun'[t][s] = begun[t][s]
  BY SawNext DEF Saw
<1>2. r \in reads[u]
  BY <1>1, SameReads
<1>3. WindowsInv(t) /\ ReadsInv(u)
  BY <1>1 DEF FactsInv
<1>4. PICK g, e, j : g = begun[t][s] /\ e = w.segment /\ j = r.segment
  OBVIOUS
<1>5. HasSegment(t, g) /\ HasSegment(u, j)
  BY <1>1, <1>2, <1>3, <1>4 DEF WindowsInv, ReadsInv
<1>6. /\ HasSegment(t, e) /\ g <= e /\ w.locks \cap r.locks = {}
      /\ TP!Apart(t, g, e, u, j)
  <2>1. CASE w \in closed[t]
    <3>1. HasSegment(t, e) /\ g <= e
      BY <1>3, <1>4, <2>1 DEF WindowsInv
    <3>2. w.locks \cap r.locks = {} /\ TP!Apart(t, g, e, u, j)
      BY <1>2, <1>4, <2>1 DEF SawClosed
    <3>3. QED BY <3>1, <3>2
  <2>2. CASE w \notin closed[t]
    <3>1. PICK v \in open[t] : w.store = v.store /\ w.byte = v.byte /\ w.locks = v.locks
      BY <1>1, <2>2 DEF Progress, Moves
    <3>2. e = Len(vector_clocks[t]) /\ e \in Nat
      BY <1>1, <1>4, <2>2 DEF Progress, Moves, ClocksGrow
    <3>3. HasSegment(t, e) /\ g <= e
      BY <1>5, <3>2 DEF HasSegment
    <3>4. w.locks \cap r.locks = {} /\ TP!Apart(t, g, e, u, j)
      BY <1>2, <1>4, <3>1, <3>2 DEF SawOpen
    <3>5. QED BY <3>3, <3>4
  <2>3. QED BY <2>1, <2>2
<1>7. TP!Apart(t, g, e, u, j)'
  <2>1. PICK m : m = Len(vector_clocks'[t])
    OBVIOUS
  <2>2. QED BY <1>1, <1>5, <1>6, <2>1, StillApart
<1>8. QED BY <1>1, <1>4, <1>6, <1>7

LEMMA UnexcusedNext ==
  ASSUME [Next]_vars, Tables, DOMAIN pc = Tid, Progress, accessors' \in [Byte -> SUBSET Tid],
         NEW t, NEW s, NEW b, NEW u, NEW id, Saw(t, s, b, u, id), Saw(t, s, b, u, id)',
         Unexcused(t, s, b, u, id)
  PROVE  Unexcused(t, s, b, u, id)'
<1> SUFFICES ASSUME N <= 1
             PROVE  /\ <<"window", t, s, b>> \notin initialising'
                    /\ <<"load", u, id, b>> \notin initialising'
  BY DEF Unexcused
<1>1. /\ <<"window", t, s, b>> \notin initialising
      /\ <<"load", u, id, b>> \notin initialising
  BY DEF Unexcused
<1>2. /\ t # u /\ b \in Byte /\ t \in accessors'[b] /\ u \in accessors'[b]
      /\ accessors'[b] \subseteq Tid
  BY DEF Saw
<1>3. ~(Cardinality(accessors'[b]) <= N)
  BY <1>2, TwoAccess
<1>4. ASSUME NEW x, NEW a \in Tid, Noting(a, x), x = <<"window", t, s, b>>
      PROVE  FALSE
  <2>1. PICK v \in closed'[a] : /\ <<"window", t, s, b>> = <<"window", a, v.store, v.byte>>
                                /\ Cardinality(accessors'[v.byte]) <= N
    BY <1>4 DEF Noting
  <2>2. v.byte = b
    BY <2>1
  <2>3. QED BY <1>3, <2>1, <2>2
<1>5. ASSUME NEW x, NEW a \in Tid, Noting(a, x), x = <<"load", u, id, b>>
      PROVE  FALSE
  <2>1. PICK y \in Byte : /\ <<"load", u, id, b>> = <<"load", a, ip[a], y>>
                          /\ Cardinality(accessors'[y]) <= N
    BY <1>5 DEF Noting
  <2>2. y = b
    BY <2>1
  <2>3. QED BY <1>3, <2>1, <2>2
<1>6. <<"window", t, s, b>> \notin initialising'
  BY <1>1, <1>4, Notes
<1>7. <<"load", u, id, b>> \notin initialising'
  BY <1>1, <1>5, Notes
<1>8. QED BY <1>6, <1>7

LEMMA CaughtKept ==
  ASSUME TP!ThreadsInv, TP!ThreadsInv', [Next]_vars, FactsInv, FactsInv',
         NEW t, NEW s, NEW b, NEW u, NEW id, CaughtOf(t, s, b, u, id)
  PROVE  CaughtOf(t, s, b, u, id)'
<1>1. /\ Saw(t, s, b, u, id) /\ SawOpen(t, s, b, u, id) /\ SawClosed(t, s, b, u, id)
      /\ Unexcused(t, s, b, u, id)
  BY DEF CaughtOf
<1>2. /\ Progress /\ DOMAIN pc = Tid /\ Tables /\ accessors' \in [Byte -> SUBSET Tid]
  BY Progresses, PcTable DEF FactsInv, TrackerInv, HeuristicInv
<1>3. Saw(t, s, b, u, id)'
  BY <1>1, <1>2, SawNext
<1>4. SawOpen(t, s, b, u, id)'
  BY <1>1, <1>2, SawOpenNext
<1>5. SawClosed(t, s, b, u, id)'
  BY <1>1, <1>2, SawClosedNext
<1>6. Unexcused(t, s, b, u, id)'
  BY <1>1, <1>2, <1>3, UnexcusedNext
<1>7. QED BY <1>3, <1>4, <1>5, <1>6 DEF CaughtOf

\* The locks of an open window are held.
LEMMA OpenFacts ==
  ASSUME FactsInv, NEW t \in Tid, NEW w \in open[t]
  PROVE  /\ pc[t] # "exited" /\ w.locks \subseteq held[t] /\ t \in accessors[w.byte]
         /\ w.byte \in Byte /\ w.store \in DOMAIN begun[t] /\ HasSegment(t, begun[t][w.store])
         /\ \A v \in closed[t] : w.byte = v.byte => w.store # v.store
<1>1. TrackInv(t) /\ WindowsInv(t) /\ pc[t] # "exited"
  BY DEF FactsInv, TrackerInv, TrackInv
<1>2. LocksOK(t) /\ MapsInv(t)
  BY <1>1 DEF TrackInv
<1>3. PICK m, f, b : /\ m = mem_state[t] /\ f = flushed_mem_state[t] /\ b = w.byte
  OBVIOUS
<1>4. \/ b \in DOMAIN m /\ Stands(t, w, b, m[b])
      \/ b \in DOMAIN f /\ Stands(t, w, b, f[b])
  BY <1>2, <1>3 DEF MapsInv, MapsOK
<1>5. t \in accessors[b]
  BY <1>2, <1>3, <1>4 DEF MapsInv, MapsOK
<1>6. \A c : P!CommonLocks(current_timedlockset[t], c) \subseteq DOMAIN current_timedlockset[t]
  BY DEF P!CommonLocks
<1>7. w.locks \subseteq held[t]
  BY <1>2, <1>4, <1>6 DEF Stands, LocksOK
<1>8. QED BY <1>1, <1>3, <1>5, <1>7 DEF WindowsInv

LEMMA HeldApart ==
  ASSUME FactsInv, NEW t \in Tid, NEW u \in Tid, t # u
  PROVE  held[t] \cap held[u] = {}
<1>1. LocksOK(t) /\ LocksOK(u) /\ HolderInv
  BY DEF FactsInv, TrackerInv, TrackInv
<1>2. ASSUME NEW l \in held[t], l \in held[u]
      PROVE  FALSE
  <2>1. l \in Lock /\ depth[t][l] > 0 /\ depth[u][l] > 0
    BY <1>1, <1>2 DEF LocksOK
  <2>2. depth[t][l] \in Nat /\ depth[u][l] \in Nat
    BY <1>1, <2>1 DEF LocksOK
  <2>3. QED BY <1>1, <2>1, <2>2 DEF HolderInv
<1>3. QED BY <1>2

\* A load that is caught.
LEMMA CaughtAnew ==
  ASSUME TP!ThreadsInv, TP!ThreadsInv', [Next]_vars, FactsInv, FactsInv',
         NEW u \in Tid, Load(u), NEW b \in Byte, LoadNoted(u, b),
         NEW t \in Tid, t # u, NEW w \in open[t], w.byte = b,
         NEW i, i = ip[u]
  PROVE  CaughtOf(t, w.store, b, u, i)'
<1>1. /\ Progress /\ DOMAIN pc = Tid /\ Tables /\ accessors' \in [Byte -> SUBSET Tid]
      /\ accessors \in [Byte -> SUBSET Tid]
  BY Progresses, PcTable DEF FactsInv, TrackerInv, HeuristicInv
<1>2. OpStep(u) /\ WindowsKept(u) /\ LocksKept(u)
  BY <1>1, LoadEffect
<1>3. /\ pc[u] = "running" /\ vector_clocks' = vector_clocks /\ ip'[u] = ip[u] + 1
      /\ WindowsKept(t)
  BY <1>2 DEF OpStep, StepOf, Kept
<1>4. /\ pc[t] # "exited" /\ w.locks \subseteq held[t] /\ t \in accessors[b]
      /\ w.store \in DOMAIN begun[t] /\ HasSegment(t, begun[t][w.store])
      /\ \A v \in closed[t] : v.byte = b => w.store # v.store
  BY OpenFacts
<1>5. WindowsInv(t) /\ ReadsInv(u) /\ LocksOK(u)
  BY DEF FactsInv, TrackerInv, TrackInv
<1>6. PICK s, new, g, n, j :
        /\ s = w.store /\ new = NewRead(u, b) /\ g = begun[t][s]
        /\ n = Len(vector_clocks[t]) /\ j = Len(vector_clocks[u])
  OBVIOUS
<1>7. /\ new.byte = b /\ new.locks = held[u] /\ new.segment = j /\ new.id = i
      /\ Tracked(u) /\ j \in Nat \ {0} /\ i \in Nat
  <2>1. Tracked(u)
    BY <1>3, <1>5, RunningTracked
  <2>2. QED BY <1>5, <1>6, <2>1, NewReadIs DEF Tracked, ReadsInv
<1>8. \A r \in reads'[u] : r.id = i => r = new
  BY <1>5, <1>6 DEF LoadNoted, ReadsInv
<1>9. /\ open'[t] = open[t] /\ closed'[t] = closed[t] /\ begun'[t] = begun[t]
  BY <1>3 DEF WindowsKept
<1>10. Saw(t, s, b, u, i)'
  <2>1. t \in accessors'[b]
    BY <1>1, <1>4 DEF Progress, NotesGrow
  <2>2. u \in accessors'[b]
    BY <1>1 DEF LoadNoted
  <2>3. i < ip'[u]
    BY <1>3, <1>6, <1>7
  <2>4. s \in DOMAIN begun'[t]
    BY <1>4, <1>6, <1>9
  <2>5. QED BY <1>7, <1>8, <2>1, <2>2, <2>3, <2>4 DEF Saw
<1>11. TP!Apart(t, g, n, u, j)'
  <2>1. HasSegment(t, g) /\ n \in Nat
    BY <1>1, <1>4, <1>6 DEF Progress, ClocksGrow
  <2>2. HasSegment(t, n) /\ HasSegment(u, j) /\ g <= n /\ 1 <= n
    BY <1>6, <1>7, <2>1 DEF HasSegment
  <2>3. pc[t] \notin {"none", "starting", "signalled", "exited"}
    <3>1. \A x \in TP!Tid : TP!Started(x) <=> Len(vector_clocks[x]) >= 1
      BY HawkSetAssumption, TP!SegmentFacts
    <3>2. TP!Started(t)
      BY <1>6, <2>1, <2>2, <3>1 DEF Tid, TP!Tid
    <3>3. QED BY <1>4, <3>2 DEF TP!Started
  <2>4. pc[u] \notin {"none", "starting", "signalled", "exited"}
    BY <1>3
  <2>5. t \in TP!Tid /\ u \in TP!Tid
    BY DEF Tid, TP!Tid
  <2>6. TP!Apart(t, g, Len(vector_clocks[t]), u, Len(vector_clocks[u]))
    BY <2>3, <2>4, <2>5, HawkSetAssumption, TP!ApartNow
  <2>7. TP!Apart(t, g, n, u, j)
    BY <1>6, <2>6
  <2>8. PICK m : m = Len(vector_clocks'[t])
    OBVIOUS
  <2>9. TP!Apart(t, g, n, u, j)'
    BY <2>1, <2>2, <2>7, <2>8, StillApart
  <2>10. QED BY <2>9
<1>12. w.locks \cap new.locks = {}
  BY <1>4, <1>7, HeldApart
<1>13. SawOpen(t, s, b, u, i)'
  <2> SUFFICES ASSUME NEW v \in open'[t], NEW r \in reads'[u],
                      v.store = s, v.byte = b, r.id = i
               PROVE  /\ v.locks \cap r.locks = {}
                      /\ \A g1, e1, j1 :
                           g1 = begun'[t][s] /\ e1 = Len(vector_clocks'[t]) /\ j1 = r.segment
                           => TP!Apart(t, g1, e1, u, j1)'
    BY DEF SawOpen
  <2>1. r = new /\ v.locks \subseteq held[t]
    BY <1>8, <1>9, OpenFacts
  <2>2. v.locks \cap r.locks = {}
    BY <1>7, <2>1, HeldApart
  <2>3. begun'[t][s] = g /\ Len(vector_clocks'[t]) = n /\ r.segment = j
    BY <1>3, <1>6, <1>7, <1>9, <2>1
  <2>4. QED BY <1>11, <2>2, <2>3
<1>14. SawClosed(t, s, b, u, i)'
  BY <1>4, <1>6, <1>9 DEF SawClosed
<1>15. Unexcused(t, s, b, u, i)'
  <2> SUFFICES ASSUME N <= 1
               PROVE  /\ <<"window", t, s, b>> \notin initialising'
                      /\ <<"load", u, i, b>> \notin initialising'
    BY DEF Unexcused
  <2>1. t \in accessors'[b] /\ u \in accessors'[b] /\ accessors'[b] \subseteq Tid
    BY <1>1, <1>10 DEF Saw
  <2>2. ~(Cardinality(accessors'[b]) <= N)
    BY <2>1, TwoAccess
  <2>3. initialising' = initialising
    BY <2>2 DEF LoadNoted
  <2>4. <<"window", t, s, b>> \notin initialising
    BY <1>4, <1>6 DEF FactsInv, NotedInv
  <2>5. <<"load", u, i, b>> \notin initialising
    BY <1>6, <1>7 DEF FactsInv, NotedInv
  <2>6. QED BY <2>3, <2>4, <2>5
<1>16. CaughtOf(t, s, b, u, i)'
  BY <1>10, <1>13, <1>14, <1>15 DEF CaughtOf
<1>17. QED BY <1>6, <1>16

LEMMA CaughtStep ==
  ASSUME TP!ThreadsInv, TP!ThreadsInv', [Next]_vars, FactsInv, FactsInv', CaughtInv
  PROVE  CaughtInv'
<1>1. DOMAIN pc = Tid /\ Tables
  BY PcTable DEF FactsInv, TrackerInv
<1>2. ASSUME NEW c \in caught
      PROVE  \E t, s, b, u, id : c = <<t, s, b, u, id>> /\ CaughtOf(t, s, b, u, id)'
  <2>1. PICK t, s, b, u, id : c = <<t, s, b, u, id>> /\ CaughtOf(t, s, b, u, id)
    BY DEF CaughtInv
  <2>2. CaughtOf(t, s, b, u, id)'
    BY <2>1, CaughtKept
  <2>3. QED BY <2>1, <2>2
<1>3. CASE caught' = caught
  BY <1>2, <1>3 DEF CaughtInv
<1>4. ASSUME NEW u \in Tid, Load(u)
      PROVE  CaughtInv'
  <2>1. PICK b \in Byte : LoadNoted(u, b)
    BY <1>1, <1>4, LoadEffect
  <2>2. ASSUME NEW c \in CaughtBy(u, b)
        PROVE  \E t, s, a, v, id : c = <<t, s, a, v, id>> /\ CaughtOf(t, s, a, v, id)'
    <3>1. PICK t, w : /\ t \in Tid /\ t # u /\ w \in open[t] /\ w.byte = b
                      /\ c = <<t, w.store, b, u, ip[u]>>
      BY <2>2 DEF CaughtBy
    <3>2. PICK s, i : s = w.store /\ i = ip[u]
      OBVIOUS
    <3>3. CaughtOf(t, w.store, b, u, i)'
      BY <1>4, <2>1, <3>1, <3>2, CaughtAnew
    <3>4. QED BY <3>1, <3>2, <3>3
  <2>3. caught' = caught \cup CaughtBy(u, b)
    BY <2>1 DEF LoadNoted
  <2>4. QED BY <1>2, <2>2, <2>3 DEF CaughtInv
<1>5. CASE Elsewhere
  BY <1>1, <1>3, <1>5, QuietEffect DEF Elsewhere, QuietStep, history
<1>6. ASSUME NEW t \in Tid, Acting(t), ~Load(t)
      PROVE  CaughtInv'
  BY <1>1, <1>3, <1>6, StoreEffect, RMWEffect, FlushEffect, FenceEffect, LockEffect,
     ExitEffect DEF Acting, history
<1>7. QED BY <1>4, <1>5, <1>6, Cases

-----------------------------------------------------------------------------
(* What the tool reports                                                   *)

ToolInv == FactsInv /\ CaughtInv /\ VerdictInv

LEMMA ToolInvariant ==
  Spec => [](TP!ThreadsInv /\ TP!NoFalseConcurrency /\ TP!ClocksExact /\ ToolInv)
<1>1. Init => ToolInv
  BY FactsInit DEF ToolInv, CaughtInv, VerdictInv, Init
<1>2. TP!ThreadsInv /\ TP!ThreadsInv' /\ ToolInv /\ [Next]_vars => ToolInv'
  <2>1. TP!ThreadsInv /\ ToolInv /\ [Next]_vars => FactsInv'
    BY FactsStep DEF ToolInv
  <2>2. ToolInv /\ [Next]_vars => VerdictInv'
    BY VerdictNext DEF ToolInv
  <2>3. TP!ThreadsInv /\ TP!ThreadsInv' /\ ToolInv /\ [Next]_vars => CaughtInv'
    BY <2>1, CaughtStep DEF ToolInv
  <2>4. QED BY <2>1, <2>2, <2>3 DEF ToolInv
<1>3. QED BY <1>1, <1>2, ClocksHold, PTL DEF Spec

LEMMA Pairs ==
  ASSUME TP!ThreadsInv, NEW t \in Tid, NEW u \in Tid, NEW e, NEW j,
         HasSegment(t, e), HasSegment(u, j)
  PROVE  /\ TP!IsConcurrent(vector_clocks[t][e], vector_clocks[u][j])
              <=> TP!Incomparable(vector_clocks[t][e], vector_clocks[u][j])
         /\ t \in TP!Tid /\ u \in TP!Tid
         /\ e \in TP!Segments(t) /\ j \in TP!Segments(u)
         /\ e \in 1 .. Len(vector_clocks[t]) /\ j \in 1 .. Len(vector_clocks[u])
<1>1. t \in TP!Tid /\ u \in TP!Tid
  BY DEF Tid, TP!Tid
<1>2. Len(vector_clocks[t]) \in Nat /\ Len(vector_clocks[u]) \in Nat
  BY <1>1, HawkSetAssumption, TP!SegmentFacts
<1>3. e \in 1 .. Len(vector_clocks[t]) /\ j \in 1 .. Len(vector_clocks[u])
  BY <1>2 DEF HasSegment
<1>4. /\ TP!IsClock(vector_clocks[t][e], TP!Tid)
      /\ TP!IsClock(vector_clocks[u][j], TP!Tid)
  BY <1>1, <1>3, HawkSetAssumption, TP!SegmentFacts
<1>5. PICK c, d : c = vector_clocks[t][e] /\ d = vector_clocks[u][j]
  OBVIOUS
<1>6. TP!IsConcurrent(c, d) <=> TP!Incomparable(c, d)
  BY <1>4, <1>5, HawkSetAssumption, TP!IsConcurrentCorrect
<1>7. QED BY <1>1, <1>3, <1>5, <1>6 DEF TP!Segments

LEMMA SameReport ==
  ASSUME NEW t, NEW u, NEW r, NEW w, NEW q, Tells(r, w), r.persisted \in BOOLEAN
  PROVE  R!Report(<<t, r.write_trace>>, r.fence_trace, r.was_flushed, r.persisted,
                  <<u, q.id>>) = ReportOf(t, w, u, q)
<1>1. /\ r.write_trace = w.store /\ r.fence_trace = w.how /\ r.was_flushed = w.flushed
      /\ r.persisted <=> w.how = "fence"
  BY DEF Tells
<1>2. r.persisted = (w.how = "fence")
  BY <1>1
<1>3. QED BY <1>1, <1>2 DEF ReportOf

\* A report tells of two accesses that have concurrent segments, or of a
\* store that is kept too long.
LEMMA FalseAlarms ==
  ASSUME TP!ThreadsInv, TP!NoFalseConcurrency, FactsInv, VerdictInv, analysed,
         SegmentsNumbered, ~misjoined, "other" \notin overtaken, NEW report \in verdict
  PROVE  \E t \in Tid : \E w \in closed[t] :
           \/ KeptTooLong(t, w) /\ report.write_trace = <<t, w.store>>
           \/ \E u \in Tid : \E r \in reads[u] :
                 Races(t, w, u, r) /\ report = ReportOf(t, w, u, r)
<1>1. PICK t \in Tid, u \in Tid :
        \E r \in race_likely_stores[t], q \in reads[u] : Shows(report, t, r, u, q)
  BY VerdictMeans
<1>2. PICK r \in race_likely_stores[t], q \in reads[u] : Shows(report, t, r, u, q)
  BY <1>1
<1>3. /\ RecordsOK(t, race_likely_stores[t], closed[t], initialising)
      /\ WindowsInv(t) /\ ReadsInv(u)
  BY DEF FactsInv, TrackerInv, TrackInv, RecordsInv
<1>4. PICK w \in closed[t] : \/ KeptTooLong(t, w) /\ w.store = r.write_trace
                             \/ Tells(r, w)
  BY <1>3 DEF RecordsOK
<1>5. r.persisted \in BOOLEAN
  BY <1>3 DEF RecordsOK, IsRecord
<1>6. CASE KeptTooLong(t, w) /\ w.store = r.write_trace
  <2>1. report.write_trace = <<t, r.write_trace>>
    BY <1>2 DEF Shows, R!Report
  <2>2. QED BY <1>6, <2>1
<1>7. CASE Tells(r, w)
  <2>1. report = ReportOf(t, w, u, q)
    BY <1>2, <1>5, <1>7, SameReport DEF Shows
  <2>2. PICK e, j, g : e = w.segment /\ j = q.segment /\ g = begun[t][w.store]
    OBVIOUS
  <2>3. /\ HasSegment(t, e) /\ HasSegment(u, j) /\ HasSegment(t, g) /\ g <= e
    BY <1>3, <2>2 DEF WindowsInv, ReadsInv
  <2>4. e <= IndexModulus /\ j <= IndexModulus
    BY <2>2 DEF SegmentsNumbered
  <2>5. r.clock_i + 1 = e /\ ((q.segment - 1) % IndexModulus) + 1 = j
    <3>1. ((e - 1) % IndexModulus) + 1 = e /\ ((j - 1) % IndexModulus) + 1 = j
      BY <2>3, <2>4, ClockIndex DEF HasSegment
    <3>2. QED BY <1>7, <2>2, <3>1 DEF Tells
  <2>6. /\ t # u /\ r.address = q.byte /\ r.common_set \cap q.locks = {}
        /\ TP!Incomparable(vector_clocks[t][e], vector_clocks[u][j])
    BY <1>2, <2>5 DEF Shows
  <2>7. /\ TP!IsConcurrent(vector_clocks[t][e], vector_clocks[u][j])
        /\ t \in TP!Tid /\ u \in TP!Tid /\ e \in TP!Segments(t) /\ j \in TP!Segments(u)
        /\ e \in 1 .. Len(vector_clocks[t])
    BY <2>3, <2>6, Pairs
  <2>8. TP!Unordered(t, e, u, j)
    BY <2>6, <2>7 DEF TP!NoFalseConcurrency
  <2>9. <<t, e>> \notin past[u][j] /\ <<u, j>> \notin past[t][e]
    BY <2>8 DEF TP!Unordered
  <2>10. past[t][g] \subseteq past[t][e]
    <3>1. g \in 1 .. Len(vector_clocks[t])
      BY <2>3, Pairs
    <3>2. QED BY <2>3, <2>7, <3>1, HawkSetAssumption, TP!SegmentFacts
  <2>11. w.byte = q.byte /\ q.locks \cap w.locks = {}
    BY <1>7, <2>6 DEF Tells
  <2>12. Races(t, w, u, q)
    BY <2>2, <2>6, <2>9, <2>10, <2>11 DEF Races, HappensBefore
  <2>13. QED BY <2>1, <2>12
<1>8. QED BY <1>4, <1>6, <1>7

\* A window that is looked for and a load, neither of them excused, without a
\* common lock and with concurrent segments, are reported.
LEMMA PairReported ==
  ASSUME TP!ThreadsInv, FactsInv, VerdictInv, analysed, SegmentsNumbered, StampsFresh,
         NEW t \in Tid, NEW u \in Tid, t # u, NEW w \in closed[t], NEW q \in reads[u],
         LookedFor(w), <<"window", t, w.store, w.byte>> \notin initialising,
         <<"load", u, q.id, q.byte>> \notin initialising,
         q.byte = w.byte, q.locks \cap w.locks = {},
         TP!Incomparable(vector_clocks[t][w.segment], vector_clocks[u][q.segment])
  PROVE  ReportOf(t, w, u, q) \in verdict
<1>1. /\ RecordsOK(t, race_likely_stores[t], closed[t], initialising)
      /\ WindowsInv(t) /\ ReadsInv(u) /\ Fresh(t)
  BY DEF FactsInv, TrackerInv, TrackInv, RecordsInv, StampsFresh, Fresh
<1>2. PICK r \in race_likely_stores[t] : Tells(r, w) /\ r.common_set = w.locks
  BY <1>1 DEF RecordsOK
<1>3. LoadOf(q) \in race_likely_loads[u]
  BY <1>1 DEF ReadsInv
<1>4. r.persisted \in BOOLEAN
  BY <1>1 DEF RecordsOK, IsRecord
<1>5. PICK e, j : e = w.segment /\ j = q.segment
  OBVIOUS
<1>6. /\ HasSegment(t, e) /\ HasSegment(u, j) /\ e <= IndexModulus /\ j <= IndexModulus
  BY <1>1, <1>5 DEF WindowsInv, ReadsInv, SegmentsNumbered
<1>7. r.clock_i + 1 = e /\ ((q.segment - 1) % IndexModulus) + 1 = j
  <2>1. ((e - 1) % IndexModulus) + 1 = e /\ ((j - 1) % IndexModulus) + 1 = j
    BY <1>6, ClockIndex DEF HasSegment
  <2>2. QED BY <1>2, <1>5, <2>1 DEF Tells
<1>8. PICK report : report = ReportOf(t, w, u, q)
  OBVIOUS
<1>9. report = R!Report(<<t, r.write_trace>>, r.fence_trace, r.was_flushed, r.persisted,
                        <<u, q.id>>)
  BY <1>2, <1>4, <1>8, SameReport
<1>10. r.address = q.byte /\ r.common_set \cap q.locks = {}
  BY <1>2 DEF Tells
<1>11. Shows(report, t, r, u, q)
  BY <1>5, <1>7, <1>9, <1>10 DEF Shows
<1>12. QED BY <1>3, <1>8, <1>11, VerdictMeans

(* Whatever the tool reports is a race, or a store that is kept too long:   *)
(* for any application, any schedule, any number of threads and locks and   *)
(* any limit of the heuristic.  The timestamps of TimedLockset, the         *)
(* interning, the two-step flush and fence, AND-ing of locksets and the     *)
(* vector clocks never make two accesses look like a race that are none.    *)
THEOREM FewFalseAlarms == Spec => []NoFalseAlarms
<1>1. TP!ThreadsInv /\ TP!NoFalseConcurrency /\ TP!ClocksExact /\ ToolInv => NoFalseAlarms
  BY FalseAlarms DEF NoFalseAlarms, ToolInv
<1>2. QED BY <1>1, ToolInvariant, PTL

(* Every race that is left behind is reported, but for the exceptions that  *)
(* RacesReported names: nothing else that HandleStore, the flushes, the     *)
(* fences and the locksets do loses one.                                    *)
THEOREM NoRaceMissed == Spec => []RacesReported
<1>1. ASSUME TP!ThreadsInv, TP!ClocksExact, ToolInv
      PROVE  RacesReported
  <2> SUFFICES ASSUME analysed, SegmentsNumbered, StampsFresh, ~misjoined, overtaken = {},
                      NEW t \in Tid, NEW u \in Tid, NEW w \in closed[t], NEW r \in reads[u],
                      LookedFor(w), Races(t, w, u, r), ~JoinedInside(t, w, u, r),
                      ~Initialising(t, w, u, r)
               PROVE  ReportOf(t, w, u, r) \in verdict
    BY DEF RacesReported
  <2>1. FactsInv /\ VerdictInv
    BY <1>1 DEF ToolInv
  <2>2. PICK e, j : e = w.segment /\ j = r.segment
    OBVIOUS
  <2>3. HasSegment(t, e) /\ HasSegment(u, j)
    BY <2>1, <2>2 DEF FactsInv, WindowsInv, ReadsInv
  <2>4. /\ t # u /\ r.byte = w.byte /\ r.locks \cap w.locks = {}
        /\ <<t, e>> \notin past[u][j] /\ <<u, j>> \notin past[t][e]
    BY <2>2 DEF Races, JoinedInside, HappensBefore
  <2>5. TP!Unordered(t, e, u, j)
    BY <2>4 DEF TP!Unordered
  <2>6. TP!IsConcurrent(vector_clocks[t][e], vector_clocks[u][j])
    <3>1. /\ t \in TP!Tid /\ u \in TP!Tid
          /\ e \in TP!Segments(t) /\ j \in TP!Segments(u)
      BY <1>1, <2>3, Pairs
    <3>2. QED BY <1>1, <2>4, <2>5, <3>1 DEF TP!ClocksExact
  <2>7. TP!Incomparable(vector_clocks[t][e], vector_clocks[u][j])
    BY <1>1, <2>3, <2>6, Pairs
  <2>8. /\ <<"window", t, w.store, w.byte>> \notin initialising
        /\ <<"load", u, r.id, r.byte>> \notin initialising
    BY DEF Initialising
  <2>9. QED BY <1>1, <2>1, <2>2, <2>4, <2>7, <2>8, PairReported
<1>2. QED BY <1>1, ToolInvariant, PTL

(* A load that saw a store before it was persistent is reported: threads    *)
(* that access a byte at the same time hold no lock in common, have touched *)
(* it both, and have segments the clocks leave concurrent.                  *)
THEOREM NoCatchMissed == Spec => []CaughtReported
<1>1. ASSUME TP!ThreadsInv, ToolInv
      PROVE  CaughtReported
  <2> SUFFICES ASSUME analysed, SegmentsNumbered, StampsFresh, ~misjoined, N <= 1,
                      NEW c \in caught, NEW w \in closed[c[1]], NEW r \in reads[c[4]],
                      w.store = c[2], w.byte = c[3], r.id = c[5], LookedFor(w),
                      ~JoinedInside(c[1], w, c[4], r),
                      overtaken = {} \/ ~JoinsInside(c[1], w)
               PROVE  ReportOf(c[1], w, c[4], r) \in verdict
    BY DEF CaughtReported
  <2>1. FactsInv /\ VerdictInv /\ CaughtInv
    BY <1>1 DEF ToolInv
  <2>2. PICK t, s, b, u, id : c = <<t, s, b, u, id>> /\ CaughtOf(t, s, b, u, id)
    BY <2>1 DEF CaughtInv
  <2>3. c[1] = t /\ c[2] = s /\ c[3] = b /\ c[4] = u /\ c[5] = id
    BY <2>2
  <2>4. /\ Saw(t, s, b, u, id) /\ SawClosed(t, s, b, u, id) /\ Unexcused(t, s, b, u, id)
    BY <2>2 DEF CaughtOf
  <2>5. /\ t \in Tid /\ u \in Tid /\ t # u /\ w \in closed[t] /\ r \in reads[u]
        /\ w.store = s /\ w.byte = b /\ r.id = id /\ r.byte = b
    BY <2>3, <2>4 DEF Saw
  <2>6. PICK g, e, j : g = begun[t][s] /\ e = w.segment /\ j = r.segment
    OBVIOUS
  <2>7. w.locks \cap r.locks = {} /\ TP!Apart(t, g, e, u, j)
    BY <2>4, <2>5, <2>6 DEF SawClosed
  <2>8. HasSegment(t, e) /\ HasSegment(u, j)
    BY <2>1, <2>5, <2>6 DEF FactsInv, WindowsInv, ReadsInv
  <2>9. <<u, j>> \notin past[t][e]
    BY <2>3, <2>6 DEF JoinedInside, HappensBefore
  <2>10. overtaken = {} \/ ~\E i \in g + 1 .. e : TP!Gains(t, i)
    BY <2>3, <2>5, <2>6 DEF JoinsInside, TP!Gains
  <2>11. TP!Incomparable(vector_clocks[t][e], vector_clocks[u][j])
    <3>1. /\ t \in TP!Tid /\ u \in TP!Tid
          /\ e \in 1 .. Len(vector_clocks[t]) /\ j \in 1 .. Len(vector_clocks[u])
      BY <1>1, <2>5, <2>8, Pairs
    <3>2. /\ ~TP!Leq(vector_clocks[t][e], vector_clocks[u][j])
          /\ ~TP!Leq(vector_clocks[u][j], vector_clocks[t][e])
      BY <1>1, <2>5, <2>7, <2>9, <2>10, <3>1, HawkSetAssumption, TP!ApartConcurrent
    <3>3. QED BY <3>2 DEF TP!Incomparable
  <2>12. /\ <<"window", t, w.store, w.byte>> \notin initialising
         /\ <<"load", u, r.id, r.byte>> \notin initialising
    BY <2>4, <2>5 DEF Unexcused
  <2>13. ReportOf(t, w, u, r) \in verdict
    BY <1>1, <2>1, <2>5, <2>6, <2>7, <2>11, <2>12, PairReported
  <2>14. QED BY <2>3, <2>13
<1>2. QED BY <1>1, ToolInvariant, PTL

=============================================================================
