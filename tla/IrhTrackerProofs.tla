-------------------------- MODULE IrhTrackerProofs --------------------------
(***************************************************************************)
(* What IrhTracker promises, for every limit N, every number of threads,   *)
(* every width of an access and every set of addresses: the bits of an     *)
(* address stand for the threads that asked about it, the loop of          *)
(* HandleAccess comes to one query, and nothing but initialisation is      *)
(* ignored at the base of an access.                                       *)
(***************************************************************************)
EXTENDS IrhTracker, FiniteSetTheorems, WellFoundedInduction, TLAPS

-----------------------------------------------------------------------------
(* Induction on a set of naturals                                          *)

LEMMA NatSetInduction ==
  ASSUME NEW S, 0 \in S, \A n \in Nat : n \in S => n + 1 \in S
  PROVE  Nat \subseteq S
<1> SUFFICES ASSUME NEW k \in Nat, k \notin S
             PROVE  FALSE
  OBVIOUS
<1> DEFINE Missing == {n \in Nat : n \notin S}
           Below == {0 .. n : n \in Missing}
<1>1. Below \subseteq FiniteSubsetsOf(Nat)
  <2>1. \A n \in Nat : IsFiniteSet(0 .. n) /\ 0 .. n \subseteq Nat
    BY FS_Interval
  <2>2. QED BY <2>1 DEF FiniteSubsetsOf
<1>2. Below # {}
  OBVIOUS
<1>3. PICK m \in Below :
        \A w \in Below : ~(<<w, m>> \in StrictSubsetOrdering(Nat))
  BY <1>1, <1>2, FS_StrictSubsetOrderingWellFounded, WFMin
<1>4. PICK n \in Missing : m = 0 .. n
  BY <1>3
<1>5. n # 0 /\ n - 1 \in Nat
  OBVIOUS
<1>6. n - 1 \notin S
  BY <1>5
<1>7. 0 .. n - 1 \in Below
  BY <1>5, <1>6
<1>8. <<0 .. n - 1, 0 .. n>> \in StrictSubsetOrdering(Nat)
  <2>1. 0 .. n - 1 \subseteq 0 .. n /\ n \in 0 .. n /\ n \notin 0 .. n - 1
    BY <1>5
  <2>2. QED BY <1>5, <2>1 DEF StrictSubsetOrdering
<1>9. QED BY <1>3, <1>4, <1>7, <1>8

-----------------------------------------------------------------------------
(* One query                                                               *)

\* The threads have the indices 0, 1, ... in the order they came.
MapOK(m) ==
  /\ IsFiniteSet(DOMAIN m)
  /\ m = [t \in DOMAIN m |-> m[t]]
  /\ \A t \in DOMAIN m : m[t] \in 0 .. Cardinality(DOMAIN m) - 1
  /\ \A t, u \in DOMAIN m : m[t] = m[u] => t = u

IrhOK(h) ==
  /\ MapOK(h.map)
  /\ h.acc = [b \in DOMAIN h.acc |-> h.acc[b]]
  /\ \A b \in DOMAIN h.acc : h.acc[b] \subseteq Nat

\* What a query of t about `address` leaves of h.
Asked(h, t, address, k) ==
  /\ DOMAIN k.map = DOMAIN h.map \cup {t}
  /\ k.map = [u \in DOMAIN h.map \cup {t} |->
                IF u = t THEN IndexOf(h, t) ELSE h.map[u]]
  /\ k.map[t] = IndexOf(h, t)
  /\ \A u \in DOMAIN h.map : k.map[u] = h.map[u]
  /\ DOMAIN k.acc = DOMAIN h.acc \cup {address}
  /\ k.acc = [b \in DOMAIN h.acc \cup {address} |-> Bits(k, b)]
  /\ Bits(k, address) = BitsAfter(Bits(h, address), IndexOf(h, t), N)
  /\ \A b : b # address => Bits(k, b) = Bits(h, b)

LEMMA IndexIsNat ==
  ASSUME NEW h, MapOK(h.map), NEW t
  PROVE  /\ IndexOf(h, t) \in 0 .. Cardinality(DOMAIN h.map)
         /\ IndexOf(h, t) \in Nat
         /\ Cardinality(DOMAIN h.map) \in Nat
<1>1. Cardinality(DOMAIN h.map) \in Nat
  BY FS_CardinalityType DEF MapOK
<1>2. QED BY <1>1 DEF MapOK, IndexOf

\* The two functions of which the query's result is made.
MapAfter(h, t) == [u \in DOMAIN h.map \cup {t} |->
                     IF u = t THEN IndexOf(h, t) ELSE h.map[u]]
AccAfter(h, t, address) ==
  [b \in DOMAIN h.acc \cup {address} |->
     IF b \in {address} THEN BitsAfter(Bits(h, b), IndexOf(h, t), N)
                        ELSE h.acc[b]]

LEMMA QueryShape ==
  ASSUME NEW h, NEW t, NEW address
  PROVE  IgnoreAccess(h, t, {address}, N) =
           [map |-> MapAfter(h, t), acc |-> AccAfter(h, t, address)]
BY DEF IgnoreAccess, MapAfter, AccAfter

LEMMA QueryAsks ==
  ASSUME NEW h, MapOK(h.map), NEW t, NEW address,
         NEW k, k = IgnoreAccess(h, t, {address}, N)
  PROVE  Asked(h, t, address, k)
<1> DEFINE M == MapAfter(h, t)
           A == AccAfter(h, t, address)
<1>1. k = [map |-> M, acc |-> A]
  BY QueryShape
<1>2. k.map = M /\ k.acc = A
  BY <1>1
<1>3. DOMAIN M = DOMAIN h.map \cup {t} /\ M[t] = IndexOf(h, t)
  BY DEF MapAfter
<1>4. \A u \in DOMAIN h.map : M[u] = h.map[u]
  BY DEF IndexOf, MapAfter
<1>5. /\ DOMAIN A = DOMAIN h.acc \cup {address}
      /\ A[address] = BitsAfter(Bits(h, address), IndexOf(h, t), N)
      /\ \A b \in DOMAIN h.acc : b # address => A[b] = h.acc[b]
  BY DEF AccAfter
<1>6. Bits(k, address) = BitsAfter(Bits(h, address), IndexOf(h, t), N)
  BY <1>2, <1>5 DEF Bits
<1>7. \A b : b # address => Bits(k, b) = Bits(h, b)
  BY <1>2, <1>5 DEF Bits
<1>8. A = [b \in DOMAIN h.acc \cup {address} |-> A[b]]
  BY DEF AccAfter
<1>9. \A b \in DOMAIN h.acc \cup {address} : A[b] = Bits(k, b)
  BY <1>2, <1>5 DEF Bits
<1>10. A = [b \in DOMAIN h.acc \cup {address} |-> Bits(k, b)]
  BY <1>8, <1>9
<1> HIDE DEF A
<1>11. QED BY <1>2, <1>3, <1>4, <1>5, <1>6, <1>7, <1>10 DEF Asked, MapAfter

\* An address was not seen, or has a set of indices.
BitsOK(bits) == bits = Unseen \/ bits \subseteq Nat

LEMMA BitsTyped ==
  ASSUME NEW h, IrhOK(h), NEW address
  PROVE  BitsOK(Bits(h, address))
BY DEF IrhOK, Bits, BitsOK

LEMMA UnseenDiffers ==
  ASSUME NEW bits, bits \subseteq Nat
  PROVE  bits # Unseen
BY DEF Unseen

\* Bits after a query: published, or the asking thread is among them.
LEMMA AfterQuery ==
  ASSUME NEW bits, BitsOK(bits), NEW i \in Nat, NEW n
  PROVE  /\ BitsAfter(bits, i, n) \subseteq Nat
         /\ BitsAfter(bits, i, n) = {} \/ i \in BitsAfter(bits, i, n)
BY UnseenDiffers DEF BitsOK, BitsAfter

LEMMA AnswerIsPublished ==
  ASSUME NEW bits, BitsOK(bits), NEW i \in Nat, NEW n
  PROVE  IgnoreAnswer(bits, i, n) <=> BitsAfter(bits, i, n) # {}
BY UnseenDiffers DEF BitsOK, BitsAfter, IgnoreAnswer

\* A second query of the same thread changes nothing, and answers whether
\* the address is published.
LEMMA SecondQuery ==
  ASSUME NEW bits, bits \subseteq Nat, NEW i \in Nat, NEW n,
         bits = {} \/ i \in bits
  PROVE  /\ BitsAfter(bits, i, n) = bits
         /\ IgnoreAnswer(bits, i, n) <=> bits # {}
<1>1. bits # Unseen
  BY UnseenDiffers
<1>2. i \in bits => bits \cup {i} = bits
  OBVIOUS
<1>3. QED BY <1>1, <1>2 DEF BitsAfter, IgnoreAnswer

LEMMA QueryTwice ==
  ASSUME NEW h, IrhOK(h), NEW t, NEW address,
         NEW k, k = IgnoreAccess(h, t, {address}, N)
  PROVE  /\ IgnoreAccess(k, t, {address}, N) = k
         /\ Ignored(k, t, address, N) <=> Bits(k, address) # {}
         /\ Ignored(h, t, address, N) <=> Bits(k, address) # {}
<1> DEFINE i == IndexOf(h, t)
<1>1. Asked(h, t, address, k) /\ i \in Nat
  BY QueryAsks, IndexIsNat DEF IrhOK
<1>2. IndexOf(k, t) = i
  BY <1>1 DEF Asked, IndexOf
<1>3. BitsOK(Bits(h, address))
  BY BitsTyped
<1>4. Bits(k, address) = BitsAfter(Bits(h, address), i, N)
  BY <1>1 DEF Asked
<1> HIDE DEF i
<1>5. /\ Bits(k, address) \subseteq Nat
      /\ Bits(k, address) = {} \/ i \in Bits(k, address)
  BY <1>1, <1>3, <1>4, AfterQuery
<1>6. /\ BitsAfter(Bits(k, address), i, N) = Bits(k, address)
      /\ IgnoreAnswer(Bits(k, address), i, N) <=> Bits(k, address) # {}
  BY <1>1, <1>5, SecondQuery
<1>7. IgnoreAnswer(Bits(h, address), i, N) <=> Bits(k, address) # {}
  BY <1>1, <1>3, <1>4, AnswerIsPublished
<1>8. IgnoreAccess(k, t, {address}, N) = k
  <2> DEFINE M == MapAfter(k, t)
             A == AccAfter(k, t, address)
  <2>1. IgnoreAccess(k, t, {address}, N) = [map |-> M, acc |-> A]
    BY QueryShape
  <2>2. DOMAIN k.map \cup {t} = DOMAIN k.map /\ k.map[t] = i
    BY <1>1 DEF Asked, i
  <2>3. M = [u \in DOMAIN k.map |-> k.map[u]]
    BY <1>2, <2>2 DEF MapAfter
  <2>4. k.map = [u \in DOMAIN k.map |-> k.map[u]]
    BY <1>1 DEF Asked
  <2>5. DOMAIN k.acc \cup {address} = DOMAIN k.acc
        /\ k.acc[address] = Bits(k, address)
    BY <1>1 DEF Asked
  <2>6. A = [b \in DOMAIN k.acc |-> k.acc[b]]
    BY <1>2, <1>6, <2>5 DEF AccAfter
  <2>7. k.acc = [b \in DOMAIN k.acc |-> k.acc[b]]
    BY <1>1 DEF Asked
  <2>8. k = [map |-> k.map, acc |-> k.acc]
    <3>1. k = [map |-> MapAfter(h, t), acc |-> AccAfter(h, t, address)]
      BY QueryShape
    <3>2. QED BY <3>1
  <2> HIDE DEF M, A
  <2>9. QED BY <2>1, <2>3, <2>4, <2>6, <2>7, <2>8
<1>9. QED BY <1>2, <1>6, <1>7, <1>8 DEF Ignored, i

-----------------------------------------------------------------------------
(* The loop of HandleAccess                                                *)

\* One round of the loop, and what has come of i rounds.
Round(before, t, address, i) ==
  [irh  |-> IgnoreAccess(before.irh, t, {address}, N),
   mask |-> IF Ignored(before.irh, t, address, N)
              THEN before.mask
              ELSE before.mask \cup {i - 1}]

Rounds(t, address, i) ==
  LET after == IgnoreAccess(irh, t, {address}, N)
  IN  IF i = 0 THEN [irh |-> irh, mask |-> {}]
      ELSE [irh  |-> after,
            mask |-> IF Bits(after, address) = {} THEN 0 .. i - 1 ELSE {}]

IsLoop(loop, t, address, size) ==
  loop = [i \in 0 .. size |->
            IF i = 0 THEN [irh |-> irh, mask |-> {}]
            ELSE Round(loop[i - 1], t, address, i)]

LEMMA LoopDefined ==
  ASSUME NEW t, NEW address, NEW size, N # 0
  PROVE  HandleAccessLoop(t, address, size) =
           (CHOOSE loop : IsLoop(loop, t, address, size))[size]
BY DEF HandleAccessLoop, IsLoop, Round

LEMMA RoundAfterRounds ==
  ASSUME IrhOK(irh), NEW t, NEW address, NEW i \in Nat \ {0}
  PROVE  Round(Rounds(t, address, i - 1), t, address, i) =
           Rounds(t, address, i)
<1> DEFINE k == IgnoreAccess(irh, t, {address}, N)
           r == Rounds(t, address, i - 1)
<1>1. /\ IgnoreAccess(k, t, {address}, N) = k
      /\ Ignored(k, t, address, N) <=> Bits(k, address) # {}
      /\ Ignored(irh, t, address, N) <=> Bits(k, address) # {}
  BY QueryTwice
<1>2. r.irh = IF i = 1 THEN irh ELSE k
  BY DEF Rounds
<1>3. r.mask = IF Bits(k, address) = {} THEN 0 .. i - 2 ELSE {}
  <2>1. CASE i = 1
    <3>1. r.mask = {} /\ 0 .. i - 2 = {}
      BY <2>1 DEF Rounds
    <3>2. QED BY <3>1
  <2>2. CASE i # 1
    <3>1. i - 1 # 0 /\ (i - 1) - 1 = i - 2
      BY <2>2
    <3>2. r.mask = IF Bits(k, address) = {} THEN 0 .. (i - 1) - 1 ELSE {}
      BY <3>1 DEF Rounds
    <3>3. QED BY <3>1, <3>2
  <2>3. QED BY <2>1, <2>2
<1>4. Rounds(t, address, i) =
        [irh |-> k, mask |-> IF Bits(k, address) = {} THEN 0 .. i - 1 ELSE {}]
  BY DEF Rounds
<1> HIDE DEF k, r
<1>5. IgnoreAccess(r.irh, t, {address}, N) = k
  BY <1>1, <1>2 DEF k
<1>6. Ignored(r.irh, t, address, N) <=> Bits(k, address) # {}
  BY <1>1, <1>2
<1>7. (0 .. i - 2) \cup {i - 1} = 0 .. i - 1
  OBVIOUS
<1>8. (IF Ignored(r.irh, t, address, N) THEN r.mask ELSE r.mask \cup {i - 1}) =
        IF Bits(k, address) = {} THEN 0 .. i - 1 ELSE {}
  BY <1>3, <1>6, <1>7
<1>9. Round(r, t, address, i) =
        [irh |-> k, mask |-> IF Bits(k, address) = {} THEN 0 .. i - 1 ELSE {}]
  BY <1>5, <1>8 DEF Round
<1>10. QED BY <1>4, <1>9 DEF r

LEMMA LoopExists ==
  ASSUME IrhOK(irh), NEW t, NEW address, NEW size \in Nat
  PROVE  IsLoop([i \in 0 .. size |-> Rounds(t, address, i)], t, address, size)
<1> DEFINE g == [i \in 0 .. size |-> Rounds(t, address, i)]
<1>1. ASSUME NEW i \in 0 .. size
      PROVE  g[i] = IF i = 0 THEN [irh |-> irh, mask |-> {}]
                    ELSE Round(g[i - 1], t, address, i)
  <2>1. CASE i = 0
    BY <2>1 DEF Rounds
  <2>2. CASE i # 0
    <3>1. i \in Nat \ {0} /\ i - 1 \in 0 .. size
      BY <2>2
    <3>2. g[i - 1] = Rounds(t, address, i - 1) /\ g[i] = Rounds(t, address, i)
      BY <3>1
    <3> HIDE DEF g
    <3>3. QED BY <2>2, <3>1, <3>2, RoundAfterRounds
  <2>3. QED BY <2>1, <2>2
<1>2. g = [i \in 0 .. size |-> g[i]]
  OBVIOUS
<1> HIDE DEF g
<1>3. IsLoop(g, t, address, size)
  BY <1>1, <1>2 DEF IsLoop
<1>4. QED BY <1>3 DEF g

LEMMA LoopRounds ==
  ASSUME IrhOK(irh), NEW t, NEW address, NEW size \in Nat,
         NEW loop, IsLoop(loop, t, address, size)
  PROVE  loop[size] = Rounds(t, address, size)
<1> DEFINE S == {i \in Nat : i \in 0 .. size => loop[i] = Rounds(t, address, i)}
<1>1. \A i \in 0 .. size :
        loop[i] = IF i = 0 THEN [irh |-> irh, mask |-> {}]
                  ELSE Round(loop[i - 1], t, address, i)
  BY DEF IsLoop
<1>2. 0 \in S
  BY <1>1 DEF Rounds
<1>3. ASSUME NEW n \in Nat, n \in S
      PROVE  n + 1 \in S
  <2>1. SUFFICES ASSUME n + 1 \in 0 .. size
                 PROVE  loop[n + 1] = Rounds(t, address, n + 1)
    OBVIOUS
  <2>2. loop[n] = Rounds(t, address, n)
    BY <1>3, <2>1
  <2>3. loop[n + 1] = Round(loop[n], t, address, n + 1)
    <3>1. n + 1 # 0 /\ (n + 1) - 1 = n
      OBVIOUS
    <3>2. QED BY <1>1, <2>1, <3>1
  <2>4. Round(Rounds(t, address, n), t, address, n + 1) =
          Rounds(t, address, n + 1)
    <3>1. n + 1 \in Nat \ {0} /\ (n + 1) - 1 = n
      OBVIOUS
    <3>2. QED BY <3>1, RoundAfterRounds
  <2>5. QED BY <2>2, <2>3, <2>4
<1>4. size \in S
  <2> HIDE DEF S
  <2>1. Nat \subseteq S
    BY <1>2, <1>3, NatSetInduction
  <2>2. QED BY <2>1
<1>5. QED BY <1>4

\* The loop's effect and mask, for any width.
LEMMA LoopIsQuery ==
  ASSUME IrhOK(irh), NEW t, NEW address, NEW size \in Nat \ {0}
  PROVE  HandleAccessLoop(t, address, size) =
           HandleAccess(irh, t, address, size, N)
<1>1. CASE N = 0
  BY <1>1 DEF HandleAccessLoop, HandleAccess, AfterBytes
<1>2. CASE N # 0
  <2>1. PICK loop : /\ IsLoop(loop, t, address, size)
                    /\ HandleAccessLoop(t, address, size) = loop[size]
    BY <1>2, LoopDefined, LoopExists
  <2>2. loop[size] = Rounds(t, address, size)
    BY <2>1, LoopRounds
  <2>3. Rounds(t, address, size) = HandleAccess(irh, t, address, size, N)
    BY <1>2 DEF Rounds, HandleAccess, AfterBytes
  <2>4. QED BY <2>1, <2>2, <2>3
<1>3. QED BY <1>1, <1>2

-----------------------------------------------------------------------------
(* The inductive invariant                                                 *)

\* Bits of an address that the threads A asked about, in the indices m.
BitsOf(m, A) ==
  IF A = {} THEN Unseen ELSE IF Cardinality(A) > N THEN {}
  ELSE {m[t] : t \in A}

AskedInv ==
  N # 0 => \A b \in Byte : /\ asked[b] \subseteq DOMAIN irh.map
                           /\ Bits(irh, b) = BitsOf(irh.map, asked[b])

\* The base of an access is asked about by whoever accesses it.
BaseInv ==
  \A b \in Byte \ inside : /\ accessors[b] = asked[b]
                           /\ ignored_at[b] <= N /\ N < reported_at[b]

TrackerInv == TypeOK /\ IrhOK(irh) /\ AskedInv /\ BaseInv

LEMMA ConstantsTyped ==
  /\ IsFiniteSet(Thread) /\ Cardinality(Thread) \in Nat
  /\ Byte \subseteq Nat /\ N \in Nat /\ MaxSize \in Nat \ {0}
  /\ TidBits \in Nat \ {0} /\ TooMany \in Nat
  /\ \A A \in SUBSET Thread : /\ IsFiniteSet(A) /\ Cardinality(A) \in Nat
                              /\ Cardinality(A) <= Cardinality(Thread)
<1>1. IsFiniteSet(Thread) /\ Cardinality(Thread) \in Nat
  BY IrhAssumption, FS_CardinalityType
<1>2. ASSUME NEW A \in SUBSET Thread
      PROVE  /\ IsFiniteSet(A) /\ Cardinality(A) \in Nat
             /\ Cardinality(A) <= Cardinality(Thread)
  <2>1. IsFiniteSet(A) /\ Cardinality(A) <= Cardinality(Thread)
    BY <1>1, FS_Subset
  <2>2. QED BY <2>1, FS_CardinalityType
<1>3. TooMany \in Nat
  BY <1>1, IrhAssumption DEF TooMany
<1>4. QED BY <1>1, <1>2, <1>3, IrhAssumption

-----------------------------------------------------------------------------
(* Indices and threads                                                     *)

\* Different threads have different bits.
LEMMA ImageCardinality ==
  ASSUME NEW m, MapOK(m), NEW A, A \subseteq DOMAIN m,
         NEW I, I = {m[t] : t \in A}
  PROVE  IsFiniteSet(I) /\ Cardinality(I) = Cardinality(A) /\ IsFiniteSet(A)
<1> DEFINE f == [t \in A |-> m[t]]
<1>1. IsFiniteSet(A)
  BY FS_Subset DEF MapOK
<1>2. f \in Bijection(A, I)
  BY DEF MapOK, Bijection, Injection, Surjection, IsInjective
<1>3. ExistsBijection(A, I)
  BY <1>2 DEF ExistsBijection
<1>4. QED BY <1>1, <1>3, FS_Bijection

\* A thread that asks for the first time gets an index of its own.
LEMMA MapExtended ==
  ASSUME NEW h, MapOK(h.map), NEW t, NEW address, NEW k, Asked(h, t, address, k)
  PROVE  MapOK(k.map)
<1>1. CASE t \in DOMAIN h.map
  <2>1. DOMAIN k.map = DOMAIN h.map /\ IndexOf(h, t) = h.map[t]
    BY <1>1 DEF Asked, IndexOf
  <2>2. \A u \in DOMAIN h.map : k.map[u] = h.map[u]
    BY DEF Asked
  <2>3. k.map = [u \in DOMAIN k.map |-> k.map[u]]
    BY DEF Asked
  <2>4. QED BY <2>1, <2>2, <2>3 DEF MapOK
<1>2. CASE t \notin DOMAIN h.map
  <2>1. /\ IsFiniteSet(DOMAIN k.map)
        /\ Cardinality(DOMAIN k.map) = Cardinality(DOMAIN h.map) + 1
        /\ Cardinality(DOMAIN h.map) \in Nat
    BY <1>2, FS_AddElement, FS_CardinalityType DEF Asked, MapOK
  <2>2. k.map[t] = Cardinality(DOMAIN h.map)
    BY <1>2 DEF Asked, IndexOf
  <2>3. \A u \in DOMAIN h.map : /\ k.map[u] = h.map[u]
                                /\ h.map[u] \in 0 .. Cardinality(DOMAIN h.map) - 1
    BY DEF Asked, MapOK
  <2>4. DOMAIN k.map = DOMAIN h.map \cup {t}
    BY DEF Asked
  <2>5. \A u \in DOMAIN k.map :
          k.map[u] \in 0 .. Cardinality(DOMAIN k.map) - 1
    BY <2>1, <2>2, <2>3, <2>4
  <2>6. \A u, v \in DOMAIN k.map : k.map[u] = k.map[v] => u = v
    BY <2>1, <2>2, <2>3, <2>4 DEF MapOK
  <2>7. k.map = [u \in DOMAIN k.map |-> k.map[u]]
    BY DEF Asked
  <2>8. QED BY <2>1, <2>5, <2>6, <2>7 DEF MapOK
<1>3. QED BY <1>1, <1>2

\* The indices of the threads that have asked stay what they were.
LEMMA BitsOfKept ==
  ASSUME NEW h, NEW t, NEW address, NEW k, Asked(h, t, address, k),
         NEW A, A \subseteq DOMAIN h.map
  PROVE  BitsOf(k.map, A) = BitsOf(h.map, A)
<1>1. \A u \in A : k.map[u] = h.map[u]
  BY DEF Asked
<1>2. {k.map[u] : u \in A} = {h.map[u] : u \in A}
  BY <1>1
<1>3. QED BY <1>2 DEF BitsOf

\* One more thread asks: its bit is added, until there are N + 1.
LEMMA BitsGrow ==
  ASSUME NEW m, MapOK(m), NEW A, A \subseteq DOMAIN m, NEW t \in DOMAIN m,
         N # 0
  PROVE  BitsAfter(BitsOf(m, A), m[t], N) = BitsOf(m, A \cup {t})
<1> DEFINE I == {m[u] : u \in A}
           J == {m[u] : u \in A \cup {t}}
           i == m[t]
           B == A \cup {t}
<1>1. /\ IsFiniteSet(A) /\ Cardinality(I) = Cardinality(A)
      /\ Cardinality(A) \in Nat /\ N \in Nat
  BY ImageCardinality, FS_CardinalityType, IrhAssumption
<1>2. /\ Cardinality(J) = Cardinality(B)
      /\ Cardinality(B) = IF t \in A THEN Cardinality(A) ELSE Cardinality(A) + 1
  <2>1. B \subseteq DOMAIN m
    OBVIOUS
  <2>2. QED BY <1>1, <2>1, ImageCardinality, FS_AddElement
<1>3. J = I \cup {i} /\ B # {}
  OBVIOUS
<1>4. i \in I <=> t \in A
  BY DEF MapOK
<1>5. I \subseteq Nat /\ (I = {} <=> A = {}) /\ i \in Nat
  <2>1. Cardinality(DOMAIN m) \in Nat
    BY FS_CardinalityType DEF MapOK
  <2>2. \A u \in DOMAIN m : m[u] \in Nat
    BY <2>1 DEF MapOK
  <2>3. QED BY <2>2
<1>6. /\ BitsOf(m, A) = IF A = {} THEN Unseen ELSE IF Cardinality(A) > N THEN {}
                        ELSE I
      /\ BitsOf(m, B) = IF Cardinality(B) > N THEN {} ELSE J
  BY <1>3 DEF BitsOf
<1> HIDE DEF I, J, i, B
<1>7. CASE A = {}
  <2>1. Cardinality(A) = 0 /\ Cardinality(B) = 1
    BY <1>2, <1>7, FS_EmptySet
  <2>2. J = {i}
    BY <1>3, <1>5, <1>7
  <2>3. BitsAfter(BitsOf(m, A), i, N) = {i}
    BY <1>6, <1>7 DEF BitsAfter
  <2>4. QED BY <1>1, <1>6, <2>1, <2>2, <2>3 DEF B, i
<1>8. CASE A # {} /\ Cardinality(A) > N
  <2>1. BitsOf(m, A) = {} /\ {} # Unseen
    BY <1>6, <1>8 DEF Unseen
  <2>2. BitsAfter(BitsOf(m, A), i, N) = {}
    BY <2>1 DEF BitsAfter
  <2>3. Cardinality(B) > N
    BY <1>1, <1>2, <1>8
  <2>4. QED BY <1>6, <2>2, <2>3 DEF B, i
<1>9. CASE A # {} /\ ~(Cardinality(A) > N)
  <2>1. BitsOf(m, A) = I /\ I # Unseen /\ I # {}
    BY <1>5, <1>6, <1>9, UnseenDiffers
  <2>2. CASE t \in A
    <3>1. I \cup {i} = I /\ i \in I
      BY <1>4, <2>2
    <3>2. BitsAfter(I, i, N) = I
      BY <2>1, <3>1 DEF BitsAfter
    <3>3. Cardinality(B) = Cardinality(A)
      BY <1>2, <2>2
    <3>4. BitsOf(m, B) = I
      BY <1>3, <1>6, <1>9, <3>1, <3>3
    <3>5. QED BY <2>1, <3>2, <3>4 DEF B, i
  <2>3. CASE t \notin A
    <3>1. i \notin I /\ Cardinality(I \cup {i}) = Cardinality(B)
      BY <1>2, <1>3, <1>4, <2>3
    <3>2. Cardinality(B) = Cardinality(A) + 1
      BY <1>2, <2>3
    <3>3. BitsAfter(I, i, N) =
            IF Cardinality(B) = N + 1 THEN {} ELSE I \cup {i}
      BY <2>1, <3>1 DEF BitsAfter
    <3>4. Cardinality(B) > N <=> Cardinality(B) = N + 1
      BY <1>1, <1>9, <3>2
    <3>5. QED BY <1>3, <1>6, <2>1, <3>3, <3>4 DEF B, i
  <2>4. QED BY <2>2, <2>3
<1>10. QED BY <1>7, <1>8, <1>9

-----------------------------------------------------------------------------
(* Both handlers ask once                                                  *)

\* Thread t asks about `address`, the base of an access to the bytes `all`.
Asks(t, address, all) ==
  /\ ~aborted /\ IndexFits(t) /\ UNCHANGED aborted
  /\ address \in all /\ all \subseteq Byte
  /\ irh' = AfterBytes(irh, t, {address}, N)
  /\ Note(t, all, IF N = 0 \/ Bits(irh', address) = {} THEN all ELSE {})
  /\ asked' = [asked EXCEPT ![address] = @ \cup {t}]
  /\ inside' = inside \cup (all \ {address})

LEMMA AccessAsks ==
  ASSUME TrackerInv, NEW t \in Thread, NEW address \in Byte,
         NEW size \in 1 .. MaxSize, Access(t, address, size)
  PROVE  \E all : Asks(t, address, all)
<1> DEFINE all == address .. address + size - 1
           mask == HandleAccess(irh, t, address, size, N).mask
<1>1. address \in Nat /\ size \in Nat \ {0}
  BY ConstantsTyped
<1>2. HandleAccessLoop(t, address, size) = HandleAccess(irh, t, address, size, N)
  BY <1>1, LoopIsQuery DEF TrackerInv
<1>3. irh' = AfterBytes(irh, t, {address}, N)
  BY <1>2 DEF Access, HandleAccess
<1>4. {address + i : i \in mask} =
        IF N = 0 \/ Bits(irh', address) = {} THEN all ELSE {}
  <2>1. mask = IF N = 0 \/ Bits(irh', address) = {} THEN 0 .. size - 1 ELSE {}
    BY <1>3 DEF HandleAccess
  <2>2. {address + i : i \in 0 .. size - 1} = all
    <3>1. ASSUME NEW b \in all
          PROVE  b - address \in 0 .. size - 1 /\ b = address + (b - address)
      BY <1>1
    <3>2. \A i \in 0 .. size - 1 : address + i \in all
      BY <1>1
    <3>3. QED BY <3>1, <3>2
  <2> HIDE DEF mask, all
  <2>3. CASE N = 0 \/ Bits(irh', address) = {}
    BY <2>1, <2>2, <2>3
  <2>4. CASE ~(N = 0 \/ Bits(irh', address) = {})
    BY <2>1, <2>4
  <2>5. QED BY <2>3, <2>4
<1>5. Note(t, all, {address + i : i \in mask})
  BY <1>2 DEF Access
<1>6. address \in all /\ address + 1 .. address + size - 1 = all \ {address}
  BY <1>1
<1> HIDE DEF mask
<1>7. Asks(t, address, all)
  BY <1>3, <1>4, <1>5, <1>6 DEF Access, Asks
<1>8. QED BY <1>7

LEMMA ByteAsks ==
  ASSUME TrackerInv, NEW t \in Thread, NEW address \in Byte,
         AccessByte(t, address)
  PROVE  \E all : Asks(t, address, all)
<1>1. irh' = AfterBytes(irh, t, {address}, N)
  BY DEF AccessByte
<1>2. ReportedBytes(irh, t, {address}, N) =
        IF N = 0 \/ Bits(irh', address) = {} THEN {address} ELSE {}
  <2>1. CASE N = 0
    BY <2>1 DEF ReportedBytes
  <2>2. CASE N # 0
    <3>1. irh' = IgnoreAccess(irh, t, {address}, N)
      BY <1>1, <2>2 DEF AfterBytes
    <3>2. Ignored(irh, t, address, N) <=> Bits(irh', address) # {}
      BY <3>1, QueryTwice DEF TrackerInv
    <3>3. ReportedBytes(irh, t, {address}, N) =
            {b \in {address} : ~Ignored(irh, t, b, N)}
      BY <2>2 DEF ReportedBytes
    <3>4. QED BY <2>2, <3>2, <3>3
  <2>3. QED BY <2>1, <2>2
<1>3. Asks(t, address, {address})
  <2>1. {address} \ {address} = {}
    OBVIOUS
  <2>2. inside' = inside \cup ({address} \ {address})
    BY <2>1 DEF AccessByte
  <2>3. QED BY <1>1, <1>2, <2>2 DEF AccessByte, Asks
<1>4. QED BY <1>3

-----------------------------------------------------------------------------
(* The invariant is kept                                                   *)

LEMMA NoteTyped ==
  ASSUME TypeOK, NEW t \in Thread, NEW all, all \subseteq Byte,
         NEW reported, Note(t, all, reported)
  PROVE  /\ accessors' \in [Byte -> SUBSET Thread]
         /\ ignored_at' \in [Byte -> 0 .. TooMany]
         /\ reported_at' \in [Byte -> 0 .. TooMany]
<1>1. ASSUME NEW b \in Byte
      PROVE  Cardinality(accessors[b] \cup {t}) \in 0 .. TooMany
  <2>1. accessors[b] \cup {t} \in SUBSET Thread
    BY DEF TypeOK
  <2>2. QED BY <2>1, ConstantsTyped DEF TooMany
<1>2. QED BY <1>1 DEF Note, TypeOK

LEMMA IrhStep ==
  ASSUME TrackerInv, NEW t \in Thread, NEW address \in Byte, NEW all,
         Asks(t, address, all)
  PROVE  /\ IrhOK(irh)'
         /\ DOMAIN irh'.map \subseteq Thread
         /\ \A u \in DOMAIN irh'.map : irh'.map[u] \in 0 .. TidBits - 1
         /\ DOMAIN irh'.acc \subseteq Byte
         /\ \A b \in DOMAIN irh'.acc : irh'.acc[b] \subseteq 0 .. TidBits - 1
         /\ N # 0 => Asked(irh, t, address, irh')
<1>1. CASE N = 0
  <2>1. irh' = irh
    BY <1>1 DEF Asks, AfterBytes
  <2>2. QED BY <1>1, <2>1 DEF TrackerInv, TypeOK
<1>2. CASE N # 0
  <2> DEFINE i == IndexOf(irh, t)
  <2>1. irh' = IgnoreAccess(irh, t, {address}, N)
    BY <1>2 DEF Asks, AfterBytes
  <2>2. PICK k : k = irh'
    OBVIOUS
  <2>3. Asked(irh, t, address, k)
    BY <2>1, <2>2, QueryAsks DEF TrackerInv, IrhOK
  <2>4. i \in 0 .. TidBits - 1
    BY <1>2, IndexIsNat, ConstantsTyped
       DEF Asks, IndexFits, TrackerInv, IrhOK
  <2> HIDE DEF i
  <2>5. MapOK(k.map)
    BY <2>3, MapExtended DEF TrackerInv, IrhOK
  <2>6. /\ DOMAIN k.map \subseteq Thread
        /\ \A u \in DOMAIN k.map : k.map[u] \in 0 .. TidBits - 1
    BY <2>3, <2>4 DEF Asked, TrackerInv, TypeOK, i
  <2>7. \A b \in DOMAIN k.acc : k.acc[b] = Bits(k, b)
    BY DEF Bits
  <2>8. ASSUME NEW b \in DOMAIN k.acc
        PROVE  k.acc[b] \subseteq 0 .. TidBits - 1 /\ b \in Byte
    <3>1. CASE b = address
      <4>1. k.acc[b] = BitsAfter(Bits(irh, address), i, N)
        BY <2>3, <2>7, <3>1 DEF Asked, i
      <4>2. Bits(irh, address) = Unseen \/
              Bits(irh, address) \subseteq 0 .. TidBits - 1
        BY DEF Bits, TrackerInv, TypeOK
      <4>3. QED BY <2>4, <3>1, <4>1, <4>2 DEF BitsAfter
    <3>2. CASE b # address
      <4>1. b \in DOMAIN irh.acc /\ k.acc[b] = Bits(irh, b)
        BY <2>3, <2>7, <3>2 DEF Asked
      <4>2. k.acc[b] = irh.acc[b]
        BY <4>1 DEF Bits
      <4>3. QED BY <4>1, <4>2 DEF TrackerInv, TypeOK
    <3>3. QED BY <3>1, <3>2
  <2>9. 0 .. TidBits - 1 \subseteq Nat
    OBVIOUS
  <2>10. k.acc = [b \in DOMAIN k.acc |-> k.acc[b]]
    BY <2>3 DEF Asked
  <2>11. IrhOK(k)
    BY <2>5, <2>8, <2>9, <2>10 DEF IrhOK
  <2>12. QED BY <2>2, <2>3, <2>6, <2>8, <2>11 DEF IrhOK, MapOK
<1>3. QED BY <1>1, <1>2

LEMMA AskedStep ==
  ASSUME TrackerInv, NEW t \in Thread, NEW address \in Byte, NEW all,
         Asks(t, address, all)
  PROVE  AskedInv'
<1> SUFFICES ASSUME N # 0, NEW b \in Byte
             PROVE  /\ asked'[b] \subseteq DOMAIN irh'.map
                    /\ Bits(irh, b)' = BitsOf(irh.map, asked[b])'
  BY DEF AskedInv
<1>1. PICK k : k = irh'
  OBVIOUS
<1>2. Asked(irh, t, address, k) /\ MapOK(k.map)
  BY <1>1, IrhStep, MapExtended DEF TrackerInv, IrhOK
<1>3. asked[b] \subseteq DOMAIN irh.map
      /\ Bits(irh, b) = BitsOf(irh.map, asked[b])
  BY DEF TrackerInv, AskedInv
<1>4. PICK A : A = asked[b]
  OBVIOUS
<1>5. BitsOf(k.map, A) = BitsOf(irh.map, A)
  BY <1>2, <1>3, <1>4, BitsOfKept
<1>6. CASE b = address
  <2>1. PICK B : B = asked'[b]
    OBVIOUS
  <2>2. B = A \cup {t}
    BY <1>4, <1>6, <2>1 DEF Asks, TrackerInv, TypeOK
  <2>3. t \in DOMAIN k.map /\ A \subseteq DOMAIN k.map
        /\ k.map[t] = IndexOf(irh, t)
    BY <1>2, <1>3, <1>4 DEF Asked
  <2>4. BitsAfter(BitsOf(k.map, A), k.map[t], N) = BitsOf(k.map, B)
    BY <1>2, <2>2, <2>3, BitsGrow
  <2>5. Bits(k, b) = BitsOf(k.map, B)
    BY <1>2, <1>3, <1>4, <1>5, <1>6, <2>3, <2>4 DEF Asked
  <2>6. QED BY <1>1, <2>1, <2>2, <2>3, <2>5 DEF Bits, BitsOf
<1>7. CASE b # address
  <2>1. asked'[b] = A
    BY <1>4, <1>7 DEF Asks, TrackerInv, TypeOK
  <2>2. Bits(k, b) = BitsOf(k.map, A) /\ A \subseteq DOMAIN k.map
    BY <1>2, <1>3, <1>4, <1>5, <1>7 DEF Asked
  <2>3. QED BY <1>1, <2>1, <2>2 DEF Bits, BitsOf
<1>8. QED BY <1>6, <1>7

LEMMA BaseStep ==
  ASSUME TrackerInv, NEW t \in Thread, NEW address \in Byte, NEW all,
         Asks(t, address, all), AskedInv', TypeOK'
  PROVE  BaseInv'
<1> SUFFICES ASSUME NEW b \in Byte, b \notin inside'
             PROVE  /\ accessors'[b] = asked'[b]
                    /\ ignored_at'[b] <= N /\ N < reported_at'[b]
  BY DEF BaseInv
<1>1. /\ accessors[b] = asked[b]
      /\ ignored_at[b] <= N /\ N < reported_at[b]
  BY DEF TrackerInv, BaseInv, Asks
<1>2. CASE b \notin all
  <2>1. b # address
    BY <1>2 DEF Asks
  <2>2. asked'[b] = asked[b]
    BY <2>1 DEF Asks, TrackerInv, TypeOK
  <2>3. accessors'[b] = accessors[b] /\ ignored_at'[b] = ignored_at[b]
        /\ reported_at'[b] = reported_at[b]
    BY <1>2 DEF Asks, Note
  <2>4. QED BY <1>1, <2>2, <2>3
<1>3. CASE b \in all
  <2>1. b = address
    BY <1>3 DEF Asks
  <2>2. PICK A : A = asked[b] \cup {t}
    OBVIOUS
  <2>3. asked'[b] = A /\ accessors'[b] = A
    BY <1>1, <1>3, <2>1, <2>2 DEF Asks, Note, TrackerInv, TypeOK
  <2>4. Cardinality(A) \in Nat /\ Cardinality(A) # 0
    <3>1. A \in SUBSET Thread /\ A # {}
      BY <2>2 DEF TrackerInv, TypeOK
    <3>2. QED BY <3>1, ConstantsTyped, FS_EmptySet
  <2>5. N = 0 \/ Bits(irh', address) = {} <=> Cardinality(A) > N
    <3>1. CASE N = 0
      BY <2>4, <3>1
    <3>2. CASE N # 0
      <4>1. /\ Bits(irh', b) = BitsOf(irh'.map, asked'[b])
        BY <3>2 DEF AskedInv, Bits, BitsOf
      <4>2. A # {}
        BY <2>2
      <4>3. {irh'.map[u] : u \in A} # {}
        BY <4>2
      <4>4. QED BY <2>1, <2>3, <3>2, <4>1, <4>2, <4>3 DEF BitsOf
    <3>3. QED BY <3>1, <3>2
  <2>6. CASE Cardinality(A) > N
    <3>1. Note(t, all, all)
      BY <2>5, <2>6 DEF Asks
    <3>2. /\ ignored_at'[b] = ignored_at[b]
          /\ reported_at'[b] = IF Cardinality(A) < reported_at[b]
                                 THEN Cardinality(A) ELSE reported_at[b]
      BY <1>1, <1>3, <2>2, <3>1 DEF Note
    <3>3. QED BY <1>1, <2>3, <2>6, <3>2
  <2>7. CASE ~(Cardinality(A) > N)
    <3>1. Note(t, all, {})
      BY <2>5, <2>7 DEF Asks
    <3>2. /\ reported_at'[b] = reported_at[b]
          /\ ignored_at'[b] = IF Cardinality(A) > ignored_at[b]
                                THEN Cardinality(A) ELSE ignored_at[b]
      BY <1>1, <1>3, <2>2, <3>1 DEF Note
    <3>3. QED BY <1>1, <2>3, <2>4, <2>7, <3>2, ConstantsTyped
  <2>8. QED BY <2>6, <2>7
<1>4. QED BY <1>2, <1>3

LEMMA TrackerInit == Init => TrackerInv
<1> SUFFICES ASSUME Init PROVE TrackerInv
  OBVIOUS
<1>1. /\ irh.map = [t \in {} |-> 0] /\ irh.acc = [b \in {} |-> {}]
      /\ DOMAIN irh.map = {} /\ DOMAIN irh.acc = {}
  BY DEF Init, InitialIrh
<1>2. IrhOK(irh)
  BY <1>1, FS_EmptySet DEF IrhOK, MapOK
<1>3. TypeOK
  <2>1. aborted \in BOOLEAN
    BY DEF Init
  <2>2. /\ asked \in [Byte -> SUBSET Thread]
        /\ accessors \in [Byte -> SUBSET Thread] /\ inside \subseteq Byte
    BY DEF Init
  <2>3. /\ ignored_at \in [Byte -> 0 .. TooMany]
        /\ reported_at \in [Byte -> 0 .. TooMany]
    BY ConstantsTyped DEF Init
  <2>4. QED BY <1>1, <2>1, <2>2, <2>3 DEF TypeOK
<1>4. AskedInv
  BY <1>1 DEF Init, AskedInv, BitsOf, Bits
<1>5. BaseInv
  BY ConstantsTyped DEF Init, BaseInv, TooMany
<1>6. QED BY <1>2, <1>3, <1>4, <1>5 DEF TrackerInv

\* A step that at most aborts.
LEMMA NothingElse ==
  ASSUME TrackerInv, aborted' \in BOOLEAN,
         UNCHANGED <<irh, asked, accessors, inside, ignored_at, reported_at>>
  PROVE  TrackerInv'
<1>1. TypeOK'
  BY DEF TrackerInv, TypeOK
<1>2. IrhOK(irh)'
  BY DEF TrackerInv, IrhOK, MapOK
<1>3. AskedInv'
  BY DEF TrackerInv, AskedInv, Bits, BitsOf
<1>4. BaseInv'
  BY DEF TrackerInv, BaseInv
<1>5. QED BY <1>1, <1>2, <1>3, <1>4 DEF TrackerInv

LEMMA TrackerStep == TrackerInv /\ [Next]_vars => TrackerInv'
<1> SUFFICES ASSUME TrackerInv, [Next]_vars
             PROVE  TrackerInv'
  OBVIOUS
<1>1. ASSUME NEW t \in Thread, NEW address \in Byte, NEW all,
             Asks(t, address, all)
      PROVE  TrackerInv'
  <2>1. TypeOK'
    <3>1. \E reported : Note(t, all, reported)
      BY <1>1 DEF Asks
    <3>2. /\ accessors' \in [Byte -> SUBSET Thread]
          /\ ignored_at' \in [Byte -> 0 .. TooMany]
          /\ reported_at' \in [Byte -> 0 .. TooMany]
      BY <1>1, <3>1, NoteTyped DEF Asks, TrackerInv
    <3>3. /\ asked' \in [Byte -> SUBSET Thread]
          /\ inside' \subseteq Byte /\ aborted' \in BOOLEAN
      BY <1>1 DEF Asks, TrackerInv, TypeOK
    <3>4. QED BY <1>1, <3>2, <3>3, IrhStep DEF TypeOK
  <2>2. IrhOK(irh)' /\ AskedInv'
    BY <1>1, IrhStep, AskedStep
  <2>3. QED BY <1>1, <2>1, <2>2, BaseStep DEF TrackerInv
<1>2. ASSUME NEW t \in Thread, Abort(t)
      PROVE  TrackerInv'
  <2>1. aborted' \in BOOLEAN
        /\ UNCHANGED <<irh, asked, accessors, inside, ignored_at, reported_at>>
    BY <1>2 DEF Abort
  <2>2. QED BY <2>1, NothingElse
<1>3. CASE UNCHANGED vars
  <2>1. aborted' \in BOOLEAN
        /\ UNCHANGED <<irh, asked, accessors, inside, ignored_at, reported_at>>
    BY <1>3 DEF vars, TrackerInv, TypeOK
  <2>2. QED BY <2>1, NothingElse
<1>4. QED BY <1>1, <1>2, <1>3, AccessAsks, ByteAsks DEF Next, Dead

LEMMA Invariant == Spec => []TrackerInv
BY TrackerInit, TrackerStep, PTL DEF Spec

-----------------------------------------------------------------------------
(* The theorems                                                            *)

(* No bit of variable_accessed is out of its width: the assertion on the   *)
(* number of threads ends the program first.                               *)
THEOREM IrhTyped == Spec => []TypeOK
<1>1. TrackerInv => TypeOK
  BY DEF TrackerInv
<1>2. QED BY <1>1, Invariant, PTL

(* The bits of an address are those of the threads that asked about it,    *)
(* until N + 1 have, and no two threads share one.                         *)
THEOREM BitsAreThreads == Spec => []ThresholdExact
<1>1. TrackerInv => ThresholdExact
  BY DEF TrackerInv, AskedInv, BitsOf, ThresholdExact, IrhOK, MapOK
<1>2. QED BY <1>1, Invariant, PTL

(* HandleAccess asks about its base once for each byte, and whatever the   *)
(* width, the first answer is every byte's.                                *)
THEOREM LoopAsksOnce == Spec => []LoopIsOneQuery
<1>1. TrackerInv => LoopIsOneQuery
  BY LoopIsQuery DEF TrackerInv, LoopIsOneQuery
<1>2. QED BY <1>1, Invariant, PTL

(* For a byte that is never inside a wider access, ignoring means          *)
(* initialisation: at most N threads, counting the one that accesses it.   *)
THEOREM InitialisationIgnored == Spec => []OnlyInitialisationIgnored
<1>1. TrackerInv => OnlyInitialisationIgnored
  BY DEF TrackerInv, BaseInv, OnlyInitialisationIgnored
<1>2. QED BY <1>1, Invariant, PTL
=============================================================================
