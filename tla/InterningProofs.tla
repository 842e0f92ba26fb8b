--------------------------- MODULE InterningProofs ---------------------------
(***************************************************************************)
(* Locksets, and registration and interning under any number of threads,   *)
(* mutexes and images.  The words of a Lockset are a representation of the *)
(* set of its indices: what set_mutex_internal, to_lockset,                *)
(* short_intersect and operator== do with them is what one would do with   *)
(* the set, for vectors of any length.                                     *)
(***************************************************************************)
EXTENDS Interning, FiniteSetTheorems, WellFoundedInduction, TLAPS

(* An index determines its word and the position in it. *)
LEMMA Place ==
  ASSUME NEW a \in Nat, NEW b \in Nat,
         NEW i \in 0 .. WordBits - 1, NEW j \in 0 .. WordBits - 1,
         a * WordBits + i = b * WordBits + j
  PROVE  a = b /\ i = j
<1> DEFINE W == WordBits
<1>w. W \in Nat \ {0}
  BY WordAssumption
<1>1. ASSUME NEW c \in Nat, NEW d \in Nat,
             NEW k \in 0 .. W - 1, NEW l \in 0 .. W - 1, c < d
      PROVE  c * W + k # d * W + l
  <2>1. (c + 1) * W <= d * W
    BY <1>1, <1>w
  <2>2. (c + 1) * W = c * W + W
    BY <1>w
  <2>3. c * W \in Nat /\ d * W \in Nat
    BY <1>w
  <2> HIDE DEF W
  <2>4. QED BY <2>1, <2>2, <2>3, <1>w
<1>2. ~(a < b) /\ ~(b < a)
  BY <1>1
<1>3. a = b
  BY <1>2
<1>4. a * W \in Nat
  BY <1>w
<1>5. QED BY <1>3, <1>4, <1>w

(* div and mod give an index its place. *)
LEMMA PlaceOf ==
  ASSUME NEW index \in Nat
  PROVE  /\ index \div WordBits \in Nat
         /\ index % WordBits \in 0 .. WordBits - 1
         /\ index = (index \div WordBits) * WordBits + (index % WordBits)
<1>1. index \div WordBits \in Nat /\ index % WordBits \in 0 .. WordBits - 1
  BY WordAssumption
<1>2. index = (index \div WordBits) * WordBits + (index % WordBits)
  BY WordAssumption
<1>3. QED BY <1>1, <1>2

(* What a bit of a word stands for is an index that no other bit has. *)
LEMMA IndexOfBit ==
  ASSUME NEW words, IsWords(words), NEW index
  PROVE  index \in Indices(words) <=>
           \E macro \in DOMAIN words : \E micro \in words[macro] :
              index = (macro - 1) * WordBits + micro
  BY DEF Indices

LEMMA BitOfIndex ==
  ASSUME NEW words, IsWords(words),
         NEW macro \in Nat \ {0}, NEW micro \in 0 .. WordBits - 1
  PROVE  (macro - 1) * WordBits + micro \in Indices(words) <=>
           macro \in DOMAIN words /\ micro \in words[macro]
<1>1. ASSUME NEW m \in DOMAIN words, NEW i \in words[m],
             (macro - 1) * WordBits + micro = (m - 1) * WordBits + i
      PROVE  m = macro /\ i = micro
  <2>1. m \in Nat \ {0} /\ i \in 0 .. WordBits - 1
    BY DEF IsWords
  <2>2. macro - 1 \in Nat /\ m - 1 \in Nat
    BY <2>1
  <2>3. macro - 1 = m - 1 /\ micro = i
    BY <1>1, <2>1, <2>2, Place
  <2>4. QED BY <2>1, <2>3
<1>2. QED BY <1>1, IndexOfBit

-----------------------------------------------------------------------------
(* short_intersect's loop finds a common bit exactly if the two sets have a *)
(* common index: words that only one vector has cannot matter.             *)
THEOREM MeetExact ==
  ASSUME NEW v, NEW w, IsWords(v), IsWords(w)
  PROVE  WordsMeet(v, w) <=> Indices(v) \cap Indices(w) # {}
<1> USE DEF IsWords
<1>1. ASSUME WordsMeet(v, w)
      PROVE  Indices(v) \cap Indices(w) # {}
  <2>1. PICK macro \in 1 .. MinLen(v, w) : v[macro] \cap w[macro] # {}
    BY <1>1 DEF WordsMeet
  <2>2. PICK micro : micro \in v[macro] /\ micro \in w[macro]
    BY <2>1
  <2>3. macro \in DOMAIN v /\ macro \in DOMAIN w
    BY DEF MinLen
  <2>4. /\ (macro - 1) * WordBits + micro \in Indices(v)
        /\ (macro - 1) * WordBits + micro \in Indices(w)
    BY <2>2, <2>3, IndexOfBit
  <2>5. QED BY <2>4
<1>2. ASSUME Indices(v) \cap Indices(w) # {}
      PROVE  WordsMeet(v, w)
  <2>1. PICK index : index \in Indices(v) /\ index \in Indices(w)
    BY <1>2
  <2>2. PICK macro \in DOMAIN v : \E micro \in v[macro] :
          index = (macro - 1) * WordBits + micro
    BY <2>1, IndexOfBit
  <2>3. PICK micro \in v[macro] : index = (macro - 1) * WordBits + micro
    BY <2>2
  <2>4. macro \in Nat \ {0} /\ micro \in 0 .. WordBits - 1
    OBVIOUS
  <2>5. macro \in DOMAIN w /\ micro \in w[macro]
    BY <2>1, <2>3, <2>4, BitOfIndex
  <2>6. macro \in 1 .. MinLen(v, w)
    BY <2>5 DEF MinLen
  <2>7. QED BY <2>3, <2>5, <2>6 DEF WordsMeet
<1>3. QED BY <1>1, <1>2

(* Of two equal vectors each word of the one is in the other, or empty. *)
LEMMA EqualWord ==
  ASSUME NEW v, NEW w, IsWords(v), IsWords(w), WordsEqual(v, w),
         NEW macro \in DOMAIN v, NEW micro \in v[macro]
  PROVE  macro \in DOMAIN w /\ micro \in w[macro]
<1> USE DEF IsWords, MinLen, WordsEqual
<1>1. CASE macro \in 1 .. MinLen(v, w)
  BY <1>1
<1>2. CASE macro \notin 1 .. MinLen(v, w)
  <2>1. macro > MinLen(v, w) /\ Len(v) > Len(w)
    BY <1>2
  <2>2. v[macro] = {}
    BY <2>1
  <2>3. QED BY <2>2
<1>3. QED BY <1>1, <1>2

(* operator== holds exactly if the two sets are the same, also for vectors  *)
(* of different lengths: the caches never hold one set twice because of its *)
(* words.                                                                  *)
THEOREM EqualExact ==
  ASSUME NEW v, NEW w, IsWords(v), IsWords(w)
  PROVE  WordsEqual(v, w) <=> Indices(v) = Indices(w)
<1>1. ASSUME WordsEqual(v, w)
      PROVE  Indices(v) = Indices(w)
  <2>1. WordsEqual(w, v)
    BY <1>1 DEF WordsEqual, MinLen, IsWords
  <2>2. Indices(v) \subseteq Indices(w)
    BY <1>1, EqualWord, IndexOfBit
  <2>3. Indices(w) \subseteq Indices(v)
    BY <2>1, EqualWord, IndexOfBit
  <2>4. QED BY <2>2, <2>3
<1>2. ASSUME Indices(v) = Indices(w)
      PROVE  WordsEqual(v, w)
  <2>1. ASSUME NEW macro \in Nat \ {0}, NEW micro \in 0 .. WordBits - 1
        PROVE  macro \in DOMAIN v /\ micro \in v[macro] <=>
                 macro \in DOMAIN w /\ micro \in w[macro]
    BY <1>2, BitOfIndex
  <2>2. ASSUME NEW macro \in 1 .. MinLen(v, w)
        PROVE  v[macro] = w[macro]
    <3>1. macro \in DOMAIN v /\ macro \in DOMAIN w /\ macro \in Nat \ {0}
      BY DEF MinLen, IsWords
    <3>2. v[macro] \subseteq 0 .. WordBits - 1 /\ w[macro] \subseteq 0 .. WordBits - 1
      BY <3>1 DEF IsWords
    <3>3. QED BY <2>1, <3>1, <3>2
  <2>3. ASSUME NEW macro \in DOMAIN v \cup DOMAIN w, macro > MinLen(v, w)
        PROVE  (IF Len(v) > Len(w) THEN v[macro] ELSE w[macro]) = {}
    <3>1. macro \in Nat \ {0}
      BY DEF IsWords
    <3>2. CASE Len(v) > Len(w)
      <4>1. macro \in DOMAIN v /\ macro \notin DOMAIN w
        BY <2>3, <3>2 DEF MinLen, IsWords
      <4>2. v[macro] \subseteq 0 .. WordBits - 1
        BY <4>1 DEF IsWords
      <4>3. v[macro] = {}
        BY <2>1, <3>1, <4>1, <4>2
      <4>4. QED BY <3>2, <4>3
    <3>3. CASE ~(Len(v) > Len(w))
      <4>1. macro \in DOMAIN w /\ macro \notin DOMAIN v
        BY <2>3, <3>3 DEF MinLen, IsWords
      <4>2. w[macro] \subseteq 0 .. WordBits - 1
        BY <4>1 DEF IsWords
      <4>3. w[macro] = {}
        BY <2>1, <3>1, <4>1, <4>2
      <4>4. QED BY <3>3, <4>3
    <3>4. QED BY <3>2, <3>3
  <2>4. QED BY <2>2, <2>3 DEF WordsEqual
<1>3. QED BY <1>1, <1>2

(* set_mutex_internal adds its index and nothing else, however far the      *)
(* vector has to grow for it.                                              *)
THEOREM WithMutexAdds ==
  ASSUME NEW words, IsWords(words), NEW index \in Nat
  PROVE  /\ IsWords(WithMutex(words, index))
         /\ Indices(WithMutex(words, index)) = Indices(words) \cup {index}
<1> DEFINE macro == index \div WordBits + 1
           micro == index % WordBits
           new   == WithMutex(words, index)
           size  == IF macro > Len(words) THEN macro ELSE Len(words)
<1>1. macro \in Nat \ {0} /\ micro \in 0 .. WordBits - 1
  BY PlaceOf
<1>2. index = (macro - 1) * WordBits + micro
  BY PlaceOf
<1>3. size \in Nat /\ macro \in 1 .. size /\ Len(words) \in 0 .. size
  BY <1>1 DEF IsWords
<1>4. new = [i \in 1 .. size |->
               (IF i <= Len(words) THEN words[i] ELSE {}) \cup
               (IF i = macro THEN {micro} ELSE {})]
  BY DEF WithMutex
<1> HIDE DEF macro, micro, new, size
<1>5. IsWords(new)
  <2>1. ASSUME NEW i \in 1 .. size
        PROVE  new[i] \in SUBSET (0 .. WordBits - 1)
    BY <1>1, <1>3, <1>4 DEF IsWords
  <2>2. new \in [1 .. size -> SUBSET (0 .. WordBits - 1)]
    BY <1>4, <2>1
  <2>3. QED BY <1>3, <2>2 DEF IsWords
<1>6. DOMAIN new = 1 .. size /\ DOMAIN words = 1 .. Len(words)
  BY <1>4 DEF IsWords
<1>7. ASSUME NEW i \in Nat \ {0}, NEW bit
      PROVE  i \in DOMAIN new /\ bit \in new[i] <=>
               (i \in DOMAIN words /\ bit \in words[i]) \/ (i = macro /\ bit = micro)
  BY <1>1, <1>3, <1>4, <1>6
<1>8. ASSUME NEW x
      PROVE  x \in Indices(new) <=> x \in Indices(words) \/ x = index
  <2>1. x \in Indices(new) <=>
          \E i \in DOMAIN new : \E bit \in new[i] : x = (i - 1) * WordBits + bit
    BY <1>5, IndexOfBit
  <2>2. x \in Indices(words) <=>
          \E i \in DOMAIN words : \E bit \in words[i] : x = (i - 1) * WordBits + bit
    BY IndexOfBit
  <2>3. DOMAIN new \subseteq Nat \ {0} /\ DOMAIN words \subseteq Nat \ {0}
    BY <1>3, <1>6
  <2>4. x \in Indices(new) => x \in Indices(words) \/ x = index
    BY <1>2, <1>7, <2>1, <2>2, <2>3
  <2>5. x \in Indices(words) => x \in Indices(new)
    BY <1>7, <2>1, <2>2, <2>3
  <2>6. macro \in DOMAIN new /\ micro \in new[macro]
    BY <1>1, <1>7
  <2>7. index \in Indices(new)
    BY <1>2, <1>5, <2>6, IndexOfBit
  <2>8. QED BY <2>4, <2>5, <2>7
<1>9. Indices(new) = Indices(words) \cup {index}
  BY <1>8
<1>10. QED BY <1>5, <1>9 DEF new

-----------------------------------------------------------------------------
(* ToLockset                                                               *)

\* What holds of the empty set and goes from T to T and one element more
\* holds of a finite set: F is the set of those it holds of.
LEMMA SetInduction ==
  ASSUME NEW A, IsFiniteSet(A), NEW F, {} \in F,
         \A T \in SUBSET A : (\A x \in T : T \ {x} \in F) /\ T # {} => T \in F
  PROVE  \A T \in SUBSET A : T \in F
<1> DEFINE Bad == {T \in SUBSET A : T \notin F}
<1>1. SUFFICES ASSUME Bad # {} PROVE FALSE
  OBVIOUS
<1>2. \A T \in SUBSET A : T \in Bad <=> T \notin F
  OBVIOUS
<1>3. Bad \subseteq SUBSET A /\ Bad \subseteq FiniteSubsetsOf(A)
  BY FS_Subset DEF FiniteSubsetsOf
<1> HIDE DEF Bad
<1>4. \E T \in Bad : \A U \in Bad : ~(<<U, T>> \in StrictSubsetOrdering(A))
  BY <1>1, <1>3, FS_StrictSubsetOrderingWellFounded, WFMin
<1>5. PICK T \in Bad : \A U \in Bad : ~(<<U, T>> \in StrictSubsetOrdering(A))
  BY <1>4
<1>6. T \in SUBSET A /\ T \notin F
  BY <1>2, <1>3
<1>7. T # {}
  BY <1>6
<1>8. ASSUME NEW x \in T
      PROVE  T \ {x} \in F
  <2>1. T \ {x} \in SUBSET A /\ T \ {x} # T /\ T \ {x} \subseteq T
    BY <1>6
  <2>2. <<T \ {x}, T>> \in StrictSubsetOrdering(A)
    BY <1>6, <2>1 DEF StrictSubsetOrdering
  <2>3. T \ {x} \notin Bad
    BY <1>5, <2>2
  <2>4. QED BY <1>2, <2>1, <2>3
<1>9. QED BY <1>6, <1>7, <1>8

IsLast(i, S) == i \in S /\ \A j \in S : j <= i

Last(S) == CHOOSE i \in S : \A j \in S : j <= i

LEMMA LastExists ==
  ASSUME NEW A \in SUBSET Nat, IsFiniteSet(A)
  PROVE  \A S \in SUBSET A : S # {} => IsLast(Last(S), S)
<1> DEFINE F == {S \in SUBSET A : S # {} => \E i \in S : \A j \in S : j <= i}
<1>1. {} \in F
  OBVIOUS
<1>2. ASSUME NEW T \in SUBSET A, NEW x \in T, T \ {x} \in F
      PROVE  T \in F
  <2>1. CASE T \ {x} = {}
    <3>1. \A j \in T : j <= x
      BY <2>1
    <3>2. QED BY <3>1
  <2>2. CASE T \ {x} # {}
    <3>1. PICK i \in T \ {x} : \A j \in T \ {x} : j <= i
      BY <1>2, <2>2
    <3>2. CASE x <= i
      <4>1. \A j \in T : j <= i
        BY <3>1, <3>2
      <4>2. QED BY <3>1, <4>1
    <3>3. CASE ~(x <= i)
      <4>1. \A j \in T : j <= x
        BY <3>1, <3>3
      <4>2. QED BY <4>1
    <3>4. QED BY <3>2, <3>3
  <2>3. QED BY <2>1, <2>2
<1> HIDE DEF F
<1>3. ASSUME NEW T \in SUBSET A, \A x \in T : T \ {x} \in F, T # {}
      PROVE  T \in F
  <2>1. PICK x \in T : TRUE
    BY <1>3
  <2>2. QED BY <1>2, <1>3, <2>1
<1>4. \A T \in SUBSET A : (\A x \in T : T \ {x} \in F) /\ T # {} => T \in F
  BY <1>3
<1>5. \A T \in SUBSET A : T \in F
  BY <1>1, <1>4, SetInduction
<1>6. QED BY <1>5 DEF F, IsLast, Last

\* Words as long as the last index needs, and a bit for each index.
WordsOf(S) ==
  [i \in 1 .. (IF S = {} THEN 1 ELSE Last(S) \div WordBits + 1) |->
     {x % WordBits : x \in {y \in S : y \div WordBits + 1 = i}}]

IsFold(after, A) ==
  after = [S \in SUBSET A |->
             IF S = {} THEN EmptyWords
             ELSE WithMutex(after[S \ {Last(S)}], Last(S))]

LEMMA FoldDefined ==
  ASSUME NEW f
  PROVE  ToLockset(f) = (CHOOSE after : IsFold(after, DOMAIN f))[DOMAIN f]
BY DEF ToLockset, IsFold, Last

LEMMA DivMonotone ==
  ASSUME NEW i \in Nat, NEW j \in Nat, j <= i
  PROVE  /\ j \div WordBits <= i \div WordBits
         /\ i \div WordBits \in Nat /\ j \div WordBits \in Nat
<1>1. WordBits \in Nat \ {0}
  BY WordAssumption
<1>2. PICK q, r, u, v : /\ q = i \div WordBits /\ r = i % WordBits
                        /\ u = j \div WordBits /\ v = j % WordBits
  OBVIOUS
<1>3. /\ q \in Nat /\ r \in 0 .. WordBits - 1 /\ i = q * WordBits + r
      /\ u \in Nat /\ v \in 0 .. WordBits - 1 /\ j = u * WordBits + v
  BY <1>1, <1>2, PlaceOf
<1>4. u <= q
  <2> SUFFICES ASSUME q < u PROVE FALSE
    BY <1>3
  <2>1. (q + 1) * WordBits <= u * WordBits
    BY <1>1, <1>3
  <2>2. (q + 1) * WordBits = q * WordBits + WordBits
    BY <1>1, <1>3
  <2>3. q * WordBits \in Nat /\ u * WordBits \in Nat
    BY <1>1, <1>3
  <2>4. QED BY <1>1, <1>3, <2>1, <2>2, <2>3
<1>5. QED BY <1>2, <1>3, <1>4

LEMMA WordsOfEmpty == WordsOf({}) = EmptyWords
<1>1. WordsOf({}) = [i \in 1 .. 1 |-> {}]
  BY DEF WordsOf
<1>2. EmptyWords = [i \in 1 .. 1 |-> {}]
  BY DEF EmptyWords
<1>3. QED BY <1>1, <1>2

\* The words of a set grow by its last index.
LEMMA WordsOfGrow ==
  ASSUME NEW A \in SUBSET Nat, IsFiniteSet(A), NEW S \in SUBSET A, S # {}
  PROVE  WordsOf(S) = WithMutex(WordsOf(S \ {Last(S)}), Last(S))
<1> DEFINE m == Last(S)
           R == S \ {m}
           old == WordsOf(R)
           macro == m \div WordBits + 1
           len == IF R = {} THEN 1 ELSE Last(R) \div WordBits + 1
<1>1. IsLast(m, S) /\ (R # {} => IsLast(Last(R), R))
  BY LastExists
<1>2. m \in Nat /\ m \in S /\ \A x \in S : x \in Nat /\ x <= m
  BY <1>1 DEF IsLast
<1>3. macro \in Nat \ {0} /\ \A x \in S : x \div WordBits \in Nat /\ x \div WordBits + 1 <= macro
  BY <1>2, DivMonotone
<1>4. /\ len \in 1 .. macro
      /\ \A x \in R : x \div WordBits + 1 <= len
  <2>1. CASE R = {}
    BY <2>1, <1>3
  <2>2. CASE R # {}
    <3>1. Last(R) \in R /\ \A x \in R : x <= Last(R)
      BY <1>1, <2>2 DEF IsLast
    <3>2. Last(R) \in S /\ Last(R) \in Nat
      BY <3>1, <1>2
    <3>3. \A x \in R : x \div WordBits <= Last(R) \div WordBits
      BY <3>1, <3>2, <1>2, DivMonotone
    <3>4. len = Last(R) \div WordBits + 1
      BY <2>2
    <3> HIDE DEF m, R, macro, len
    <3>5. R \subseteq S
      BY DEF R
    <3>6. QED BY <1>3, <3>2, <3>3, <3>4, <3>5
  <2>3. QED BY <2>1, <2>2
<1>5. old = [i \in 1 .. len |->
               {x % WordBits : x \in {y \in R : y \div WordBits + 1 = i}}]
  BY DEF WordsOf
<1>6. WordsOf(S) = [i \in 1 .. macro |->
               {x % WordBits : x \in {y \in S : y \div WordBits + 1 = i}}]
  BY <1>2 DEF WordsOf
<1>7. WithMutex(old, m) =
        LET size == IF macro > Len(old) THEN macro ELSE Len(old)
        IN  [i \in 1 .. size |->
               (IF i <= Len(old) THEN old[i] ELSE {}) \cup
               (IF i = macro THEN {m % WordBits} ELSE {})]
  BY DEF WithMutex
<1> HIDE DEF old
<1>8. Len(old) = len
  BY <1>4, <1>5
<1>9. WithMutex(old, m) =
        [i \in 1 .. macro |->
               (IF i <= len THEN old[i] ELSE {}) \cup
               (IF i = macro THEN {m % WordBits} ELSE {})]
  <2>1. (IF macro > Len(old) THEN macro ELSE Len(old)) = macro
    BY <1>3, <1>4, <1>8
  <2>2. QED BY <1>7, <1>8, <2>1
<1>10. ASSUME NEW i \in 1 .. macro
       PROVE  {x % WordBits : x \in {y \in S : y \div WordBits + 1 = i}} =
                (IF i <= len THEN old[i] ELSE {}) \cup
                (IF i = macro THEN {m % WordBits} ELSE {})
  <2>1. (IF i <= len THEN old[i] ELSE {}) =
          {x % WordBits : x \in {y \in R : y \div WordBits + 1 = i}}
    <3>1. CASE i <= len
      <4>1. i \in 1 .. len
        BY <3>1, <1>4
      <4>2. QED BY <3>1, <4>1, <1>5
    <3>2. CASE ~(i <= len)
      <4>1. \A y \in R : y \div WordBits + 1 # i
        BY <3>2, <1>4
      <4>2. QED BY <3>2, <4>1
    <3>3. QED BY <3>1, <3>2
  <2>2. (IF i = macro THEN {m % WordBits} ELSE {}) =
          {x % WordBits : x \in {y \in {m} : y \div WordBits + 1 = i}}
    OBVIOUS
  <2>3. {y \in S : y \div WordBits + 1 = i} =
          {y \in R : y \div WordBits + 1 = i} \cup {y \in {m} : y \div WordBits + 1 = i}
    BY <1>2
  <2>4. QED BY <2>1, <2>2, <2>3
<1> DEFINE Word(i) == {x % WordBits : x \in {y \in S : y \div WordBits + 1 = i}}
           Grown(i) == (IF i <= len THEN old[i] ELSE {}) \cup
                       (IF i = macro THEN {m % WordBits} ELSE {})
<1>11. \A i \in 1 .. macro : Word(i) = Grown(i)
  BY <1>10
<1>12. WordsOf(S) = [i \in 1 .. macro |-> Word(i)]
  BY <1>6
<1>13. WithMutex(old, m) = [i \in 1 .. macro |-> Grown(i)]
  BY <1>9
<1> HIDE DEF Word, Grown, m, macro
<1>14. WordsOf(S) = WithMutex(old, m)
  BY <1>11, <1>12, <1>13
<1>15. QED BY <1>14 DEF old, m

\* The recursion of ToLockset has a solution.
LEMMA FoldExists ==
  ASSUME NEW A \in SUBSET Nat, IsFiniteSet(A)
  PROVE  \E after : IsFold(after, A)
<1> DEFINE after == [S \in SUBSET A |-> WordsOf(S)]
<1>1. ASSUME NEW S \in SUBSET A
      PROVE  WordsOf(S) = IF S = {} THEN EmptyWords
                          ELSE WithMutex(after[S \ {Last(S)}], Last(S))
  <2>1. CASE S = {}
    BY <2>1, WordsOfEmpty
  <2>2. CASE S # {}
    <3>1. S \ {Last(S)} \in SUBSET A
      OBVIOUS
    <3>2. after[S \ {Last(S)}] = WordsOf(S \ {Last(S)})
      BY <3>1
    <3>3. QED BY <2>2, <3>2, WordsOfGrow
  <2>3. QED BY <2>1, <2>2
<1>2. IsFold(after, A)
  BY <1>1 DEF IsFold
<1>3. QED BY <1>2

\* One step of the recursion.
LEMMA FoldAt ==
  ASSUME NEW A, NEW after, IsFold(after, A), NEW S \in SUBSET A
  PROVE  after[S] = IF S = {} THEN EmptyWords
                    ELSE WithMutex(after[S \ {Last(S)}], Last(S))
BY DEF IsFold

LEMMA EmptyWordsEmpty == IsWords(EmptyWords) /\ Indices(EmptyWords) = {}
<1>1. EmptyWords = [i \in 1 .. 1 |-> {}]
  BY DEF EmptyWords
<1>2. EmptyWords \in Seq(SUBSET (0 .. WordBits - 1))
  BY <1>1
<1>3. QED BY <1>1, <1>2 DEF IsWords, Indices

\* to_lockset has the locks of the timed lockset, whatever they are: no index
\* is lost, put in the wrong word, or overwritten by a later one.
THEOREM ToLocksetExact ==
  ASSUME NEW f, DOMAIN f \in SUBSET Nat, IsFiniteSet(DOMAIN f)
  PROVE  IsWords(ToLockset(f)) /\ Indices(ToLockset(f)) = DOMAIN f
<1> DEFINE A == DOMAIN f
<1>1. PICK after : IsFold(after, A) /\ ToLockset(f) = after[A]
  <2>1. IsFold(CHOOSE after : IsFold(after, A), A)
    BY FoldExists
  <2>2. QED BY <2>1, FoldDefined
<1> DEFINE F == {S \in SUBSET A : IsWords(after[S]) /\ Indices(after[S]) = S}
<1>2. {} \in F
  <2>1. after[{}] = EmptyWords
    BY <1>1, FoldAt
  <2>2. QED BY <2>1, EmptyWordsEmpty
<1>3. ASSUME NEW T \in SUBSET A, \A x \in T : T \ {x} \in F, T # {}
      PROVE  T \in F
  <2> DEFINE old == after[T \ {Last(T)}]
  <2>1. Last(T) \in T /\ Last(T) \in Nat
    BY <1>3, LastExists DEF IsLast
  <2>2. T \ {Last(T)} \in F
    BY <2>1, <1>3
  <2>3. IsWords(old) /\ Indices(old) = T \ {Last(T)}
    BY <2>2
  <2>4. after[T] = WithMutex(old, Last(T))
    BY <1>1, <1>3, FoldAt
  <2> HIDE DEF old
  <2>5. IsWords(after[T]) /\ Indices(after[T]) = (T \ {Last(T)}) \cup {Last(T)}
    BY <2>1, <2>3, <2>4, WithMutexAdds
  <2>6. (T \ {Last(T)}) \cup {Last(T)} = T
    BY <2>1
  <2>7. QED BY <2>5, <2>6
<1>4. \A T \in SUBSET A : (\A x \in T : T \ {x} \in F) /\ T # {} => T \in F
  BY <1>3
<1>5. IsFiniteSet(A)
  OBVIOUS
<1> HIDE DEF F, A
<1>6. \A T \in SUBSET A : T \in F
  BY <1>2, <1>4, <1>5, SetInduction
<1>7. A \in F
  BY <1>6
<1>8. QED BY <1>1, <1>7 DEF F, A

-----------------------------------------------------------------------------
(* Registration and the locks of a thread                                  *)

Registered == DOMAIN lock_index \cup DOMAIN special_mutex

FiniteNatSets == {D \in SUBSET Nat : IsFiniteSet(D)}

Stamps == UNION {[D -> Nat] : D \in FiniteNatSets}

(* What the handlers work on. *)
Typed ==
  /\ pc \in [Thread -> {"idle", "registering", "inserting", "indexing"}]
  /\ call \in [Thread -> [mutex : Mutex \cup {None}, acquires : BOOLEAN,
                          stamp : Nat, index : Nat]]
  /\ lock_clock \in [Thread -> Nat]
  /\ timestamps \in [Thread -> Stamps]
  /\ DOMAIN held = Thread
  /\ lock_counter \in Nat
  /\ DOMAIN lock_index \subseteq Mutex
  /\ DOMAIN special_mutex \subseteq Special
  /\ \A m \in DOMAIN lock_index : lock_index[m] \in Nat
  /\ \A s \in DOMAIN special_mutex : special_mutex[s] \in Nat
  /\ \A t \in Thread : pc[t] # "idle" => call[t].mutex \in Mutex
  /\ \A t \in Thread : pc[t] = "indexing" => call[t].mutex \in DOMAIN lock_index

(* Every lock has one index and every index one lock, and the index a       *)
(* thread is about to insert is free and its mutex without one.             *)
OwnIndices ==
  /\ \A l \in Registered : IndexOf(l) < lock_counter
  /\ \A k, l \in Registered : IndexOf(k) = IndexOf(l) => k = l
  /\ \A t \in Thread : pc[t] = "inserting" =>
       /\ lock_register_mutex = t
       /\ call[t].mutex \notin DOMAIN lock_index
       /\ call[t].index < lock_counter
       /\ \A l \in Registered : IndexOf(l) # call[t].index

(* Between the history and the stamps of t: only the mutex of a call that   *)
(* is not over can be in one of them and not in the other.                  *)
InCall(t) == IF pc[t] = "idle" THEN {} ELSE {call[t].mutex}

Holds(t) ==
  /\ \A l \in DOMAIN held[t] \ InCall(t) :
       /\ l \in Registered
       /\ IndexOf(l) \in DOMAIN timestamps[t]
       /\ timestamps[t][IndexOf(l)] = held[t][l]
  /\ \A i \in DOMAIN timestamps[t] : \E l \in Registered :
       IndexOf(l) = i /\ l \in DOMAIN held[t] \cup InCall(t)
  /\ pc[t] # "idle" =>
       IF call[t].acquires
         THEN call[t].mutex \in DOMAIN held[t] /\ held[t][call[t].mutex] = call[t].stamp
         ELSE call[t].mutex \notin DOMAIN held[t]

(* The copy a thread keeps is void during a lock or unlock function. *)
CopyInv ==
  /\ timedlocksets_cache \in Seq(Stamps)
  /\ cached_timedlockset \in [Thread -> Nat]
  /\ \A t \in Thread : cached_timedlockset[t] # 0 =>
       /\ pc[t] = "idle"
       /\ cached_timedlockset[t] \in DOMAIN timedlocksets_cache
       /\ timedlocksets_cache[cached_timedlockset[t]] = timestamps[t]

IndexInv == Typed /\ (~missed => OwnIndices)

HoldInv == ~missed => \A t \in Thread : Holds(t)

-----------------------------------------------------------------------------
(* Stamps *)

LEMMA StampsWith ==
  ASSUME NEW f \in Stamps, NEW i \in Nat, NEW stamp \in Nat
  PROVE  /\ With(f, i, stamp) \in Stamps
         /\ Without(f, i) \in Stamps
<1>1. PICK D \in FiniteNatSets : f \in [D -> Nat]
  BY DEF Stamps
<1>2. D \cup {i} \in FiniteNatSets /\ D \ {i} \in FiniteNatSets
  BY FS_AddElement, FS_RemoveElement DEF FiniteNatSets
<1>3. With(f, i, stamp) \in [D \cup {i} -> Nat]
  BY <1>1 DEF With
<1>4. Without(f, i) \in [D \ {i} -> Nat]
  BY <1>1 DEF Without
<1>5. QED BY <1>2, <1>3, <1>4 DEF Stamps

LEMMA StampsFinite ==
  ASSUME NEW f \in Stamps
  PROVE  /\ DOMAIN f \in SUBSET Nat /\ IsFiniteSet(DOMAIN f)
         /\ \A i \in DOMAIN f : f[i] \in Nat
BY DEF Stamps, FiniteNatSets

LEMMA StampedTyped ==
  ASSUME Typed, NEW t \in Thread, NEW i \in Nat
  PROVE  Stamped(t, i) \in Stamps
<1>1. timestamps[t] \in Stamps /\ call[t].stamp \in Nat
  BY DEF Typed
<1>2. QED BY <1>1, StampsWith DEF Stamped

LEMMA TypedInit == Init => Typed
<1> SUFFICES ASSUME Init PROVE Typed
  OBVIOUS
<1>1. NoStamps \in Stamps
  <2>1. NoStamps \in [{} -> Nat]
    BY DEF NoStamps
  <2>2. {} \in FiniteNatSets
    BY FS_EmptySet DEF FiniteNatSets
  <2>3. QED BY <2>1, <2>2 DEF Stamps
<1>2. NoCall \in [mutex : Mutex \cup {None}, acquires : BOOLEAN,
                  stamp : Nat, index : Nat]
  BY DEF NoCall
<1>3. QED BY <1>1, <1>2 DEF Init, Typed

LEMMA TypedStep == Typed /\ [Next]_vars => Typed'
<1> SUFFICES ASSUME Typed, [Next]_vars PROVE Typed'
  OBVIOUS
<1> USE DEF Typed
<1>1. ASSUME NEW t \in Thread, NEW m \in Mutex, NEW acquires \in BOOLEAN,
             ProcessLock(t, m, acquires)
      PROVE  Typed'
  BY <1>1 DEF ProcessLock, NoteCall, With, Without, registry, caches, records
<1>2. ASSUME NEW t \in Thread, RegisteredAlready(t)
      PROVE  Typed'
  BY <1>2 DEF RegisteredAlready, registry, own, caches, records
<1>3. ASSUME NEW t \in Thread, RegisterBegin(t)
      PROVE  Typed'
  BY <1>3 DEF RegisterBegin, own, caches, records
<1>4. ASSUME NEW t \in Thread, RegisterEnd(t)
      PROVE  Typed'
  BY <1>4 DEF RegisterEnd, With, own, caches, records
<1>5. ASSUME NEW t \in Thread, GetIndex(t)
      PROVE  Typed'
  <2>1. lock_index[call[t].mutex] \in Nat
    BY <1>5 DEF GetIndex
  <2>2. Stamped(t, lock_index[call[t].mutex]) \in Stamps
    BY <2>1, StampedTyped
  <2>3. QED BY <1>5, <2>2 DEF GetIndex, NoCall, registry, caches, records
<1>6. ASSUME NEW t \in Thread, GetIndexMissing(t)
      PROVE  Typed'
  <2>1. Stamped(t, 0) \in Stamps
    BY StampedTyped
  <2>2. call[t].mutex \in Mutex
    BY <1>6 DEF GetIndexMissing
  <2>3. QED BY <1>6, <2>1, <2>2 DEF GetIndexMissing, NoCall, With, caches, records
<1>7. ASSUME NEW s \in Special, RegisterSpecial(s)
      PROVE  Typed'
  BY <1>7 DEF RegisterSpecial, With, own, caches, records
<1>8. ASSUME NEW t \in Thread, NEW s \in Special, NEW acquires \in BOOLEAN,
             ProcessLockSpecial(t, s, acquires)
      PROVE  Typed'
  <2>1. special_mutex[s] \in Nat /\ timestamps[t] \in Stamps /\ lock_clock[t] \in Nat
    BY <1>8 DEF ProcessLockSpecial
  <2>2. /\ With(timestamps[t], special_mutex[s], lock_clock[t]) \in Stamps
        /\ Without(timestamps[t], special_mutex[s]) \in Stamps
    BY <2>1, StampsWith
  <2>3. timestamps' \in [Thread -> Stamps]
    BY <1>8, <2>2 DEF ProcessLockSpecial
  <2>4. DOMAIN held' = Thread /\ lock_clock' \in [Thread -> Nat]
    BY <1>8 DEF ProcessLockSpecial, NoteCall
  <2>5. QED BY <1>8, <2>3, <2>4 DEF ProcessLockSpecial, registry, caches, records
<1>9. ASSUME NEW t \in Thread, Store(t) \/ Fence(t) \/ Load(t)
      PROVE  Typed'
  BY <1>9 DEF Store, Fence, Load, registry
<1>10. CASE UNCHANGED vars
  BY <1>10 DEF vars, registry, own
<1>11. QED BY <1>1, <1>2, <1>3, <1>4, <1>5, <1>6, <1>7, <1>8, <1>9, <1>10
           DEF Next, Step

-----------------------------------------------------------------------------
(* Indices *)

(* What an action does to the two maps, unless a lookup misses: nothing, or *)
(* one more lock with an index that no other lock has.                     *)
LEMMA MapsStep ==
  ASSUME Typed, ~missed => OwnIndices, [Next]_vars, ~missed'
  PROVE  \/ UNCHANGED <<lock_index, special_mutex>>
         \/ \E t \in Thread :
              /\ pc[t] = "inserting"
              /\ lock_index' = With(lock_index, call[t].mutex, call[t].index)
              /\ UNCHANGED special_mutex
              /\ RegisterEnd(t)
         \/ \E s \in Special \ DOMAIN special_mutex :
              /\ special_mutex' = With(special_mutex, s, lock_counter)
              /\ UNCHANGED lock_index
              /\ RegisterSpecial(s)
  BY DEF Next, Step, vars, registry, ProcessLock, RegisteredAlready, RegisterBegin,
         RegisterEnd, GetIndex, GetIndexMissing, RegisterSpecial,
         ProcessLockSpecial, Store, Fence, Load

(* The locks that have an index keep it, and a new index is one that no     *)
(* lock had.                                                               *)
LEMMA IndicesKept ==
  ASSUME Typed, ~missed, OwnIndices, [Next]_vars, ~missed'
  PROVE  /\ \A l \in Registered : l \in Registered' /\ IndexOf(l)' = IndexOf(l)
         /\ \A k \in Registered' \ Registered, l \in Registered' :
              IndexOf(k)' = IndexOf(l)' => k = l
<1> USE InterningAssumption DEF Registered, IndexOf
<1>1. CASE UNCHANGED <<lock_index, special_mutex>>
  BY <1>1
<1>2. ASSUME NEW t \in Thread, pc[t] = "inserting", RegisterEnd(t)
      PROVE  /\ \A l \in Registered : l \in Registered' /\ IndexOf(l)' = IndexOf(l)
             /\ \A k \in Registered' \ Registered, l \in Registered' :
                  IndexOf(k)' = IndexOf(l)' => k = l
  BY <1>2 DEF RegisterEnd, With, OwnIndices, Typed
<1>3. ASSUME NEW s \in Special, RegisterSpecial(s)
      PROVE  /\ \A l \in Registered : l \in Registered' /\ IndexOf(l)' = IndexOf(l)
             /\ \A k \in Registered' \ Registered, l \in Registered' :
                  IndexOf(k)' = IndexOf(l)' => k = l
  BY <1>3 DEF RegisterSpecial, With, OwnIndices, Typed
<1>4. QED BY <1>1, <1>2, <1>3, MapsStep

LEMMA OwnInit == Init => OwnIndices
<1> SUFFICES ASSUME Init PROVE OwnIndices
  OBVIOUS
<1>1. Registered = {}
  BY DEF Init, Registered
<1>2. QED BY <1>1 DEF Init, OwnIndices

LEMMA OwnStep == IndexInv /\ [Next]_vars => IndexInv'
<1> SUFFICES ASSUME IndexInv, [Next]_vars PROVE IndexInv'
  OBVIOUS
<1>1. Typed /\ Typed'
  BY TypedStep DEF IndexInv
<1> SUFFICES ASSUME ~missed' PROVE OwnIndices'
  BY <1>1 DEF IndexInv
<1>2. ~missed /\ OwnIndices
  BY DEF IndexInv, Next, Step, vars, ProcessLock, RegisteredAlready, RegisterBegin,
         RegisterEnd, GetIndex, GetIndexMissing, RegisterSpecial,
         ProcessLockSpecial, Store, Fence, Load
<1>3. /\ \A l \in Registered : l \in Registered' /\ IndexOf(l)' = IndexOf(l)
      /\ \A k \in Registered' \ Registered, l \in Registered' :
           IndexOf(k)' = IndexOf(l)' => k = l
  BY <1>1, <1>2, IndicesKept
<1>4. \A k, l \in Registered' : IndexOf(k)' = IndexOf(l)' => k = l
  BY <1>2, <1>3 DEF OwnIndices
<1>5. CASE UNCHANGED <<lock_index, special_mutex, lock_counter, lock_register_mutex,
                       call>>
           /\ \A t \in Thread : pc'[t] = "inserting" => pc[t] = "inserting"
  BY <1>2, <1>5 DEF OwnIndices, Registered, IndexOf
<1>6. ASSUME NEW t \in Thread, NEW m \in Mutex, NEW acquires \in BOOLEAN,
             ProcessLock(t, m, acquires)
      PROVE  OwnIndices'
  BY <1>1, <1>2, <1>6 DEF ProcessLock, registry, OwnIndices, Registered, IndexOf, Typed
<1>7. ASSUME NEW t \in Thread, RegisterBegin(t)
      PROVE  OwnIndices'
  <2>1. /\ call'[t].index = lock_counter /\ call'[t].mutex = call[t].mutex
        /\ \A u \in Thread \ {t} : call'[u] = call[u] /\ pc'[u] = pc[u]
        /\ lock_counter' = lock_counter + 1 /\ lock_register_mutex' = t
        /\ call[t].mutex \notin DOMAIN lock_index
    BY <1>1, <1>7 DEF RegisterBegin, Typed
  <2>2. \A u \in Thread : pc[u] # "inserting"
    BY <1>2, <1>7, InterningAssumption DEF RegisterBegin, CanRegister, OwnIndices
  <2>3. /\ UNCHANGED <<lock_index, special_mutex>>
        /\ Registered' = Registered
        /\ \A l \in Registered : IndexOf(l)' = IndexOf(l) /\ IndexOf(l) \in Nat
    BY <1>1, <1>7, InterningAssumption DEF RegisterBegin, Registered, IndexOf, Typed
  <2>4. lock_counter \in Nat
    BY <1>1 DEF Typed
  <2>5. QED BY <1>2, <2>1, <2>2, <2>3, <2>4 DEF OwnIndices
<1>8. ASSUME NEW t \in Thread, RegisterEnd(t)
      PROVE  OwnIndices'
  <2>1. \A u \in Thread : pc'[u] # "inserting"
    BY <1>1, <1>2, <1>8 DEF RegisterEnd, OwnIndices, Typed
  <2>2. \A l \in Registered' : IndexOf(l)' < lock_counter'
    BY <1>1, <1>2, <1>8, InterningAssumption
       DEF RegisterEnd, OwnIndices, Typed, With, Registered, IndexOf
  <2>3. QED BY <1>4, <2>1, <2>2 DEF OwnIndices
<1>9. ASSUME NEW s \in Special, RegisterSpecial(s)
      PROVE  OwnIndices'
  <2>1. \A l \in Registered' : IndexOf(l)' < lock_counter'
    BY <1>1, <1>2, <1>9, InterningAssumption
       DEF RegisterSpecial, OwnIndices, Typed, With, Registered, IndexOf
  <2>2. \A l \in Registered' : l \in Registered \/ IndexOf(l)' = lock_counter
    BY <1>9 DEF RegisterSpecial, With, Registered, IndexOf
  <2>3. ASSUME NEW t \in Thread, pc'[t] = "inserting"
        PROVE  /\ lock_register_mutex' = t
               /\ call'[t].mutex \notin DOMAIN lock_index'
               /\ call'[t].index < lock_counter'
               /\ \A l \in Registered' : IndexOf(l)' # call'[t].index
    <3>1. /\ lock_register_mutex = t
          /\ call[t].mutex \notin DOMAIN lock_index
          /\ call[t].index < lock_counter
          /\ \A l \in Registered : IndexOf(l) # call[t].index
      BY <1>2, <1>9, <2>3 DEF RegisterSpecial, OwnIndices
    <3>2. lock_counter \in Nat /\ call[t].index \in Nat
      BY <1>1 DEF Typed
    <3>3. QED BY <1>3, <1>9, <2>2, <3>1, <3>2 DEF RegisterSpecial
  <2>4. QED BY <1>4, <2>1, <2>3 DEF OwnIndices
<1>10. ASSUME NEW t \in Thread, GetIndex(t)
       PROVE  OwnIndices'
  BY <1>1, <1>2, <1>10 DEF GetIndex, registry, OwnIndices, Registered, IndexOf, Typed
<1>11. ASSUME NEW t \in Thread,
              \/ RegisteredAlready(t) \/ Store(t) \/ Fence(t) \/ Load(t)
              \/ \E s \in Special, acquires \in BOOLEAN : ProcessLockSpecial(t, s, acquires)
       PROVE  OwnIndices'
  BY <1>1, <1>2, <1>11
     DEF RegisteredAlready, Store, Fence, Load, ProcessLockSpecial, registry,
         OwnIndices, Registered, IndexOf, Typed
<1>12. CASE UNCHANGED vars
  BY <1>5, <1>12 DEF vars, registry
<1>13. ASSUME NEW t \in Thread, GetIndexMissing(t)
       PROVE  FALSE
  BY <1>13 DEF GetIndexMissing
<1>14. QED BY <1>6, <1>7, <1>8, <1>9, <1>10, <1>11, <1>12, <1>13 DEF Next, Step

(* Whatever threads register, and whatever images are loaded, at the same   *)
(* time: an index belongs to one lock for good, unless a lookup in the map  *)
(* misses its key.                                                         *)
THEOREM IndicesFixed == Spec => IndicesStay
<1>1. Init => IndexInv
  BY TypedInit, OwnInit DEF IndexInv
<1> DEFINE Stays ==
      ~missed' =>
       /\ \A m \in DOMAIN lock_index :
            m \in DOMAIN lock_index' /\ lock_index'[m] = lock_index[m]
       /\ \A m, n \in DOMAIN lock_index' :
            lock_index'[m] = lock_index'[n] => m = n
       /\ \A m \in DOMAIN lock_index', s \in DOMAIN special_mutex' :
            lock_index'[m] # special_mutex'[s]
<1>2. IndexInv /\ IndexInv' /\ [Next]_vars => [Stays]_vars
  <2> SUFFICES ASSUME IndexInv, IndexInv', [Next]_vars, ~missed' PROVE Stays
    OBVIOUS
  <2>1. ~missed /\ OwnIndices /\ OwnIndices' /\ Typed /\ Typed'
    BY DEF IndexInv, Next, Step, vars, ProcessLock, RegisteredAlready, RegisterBegin,
           RegisterEnd, GetIndex, GetIndexMissing, RegisterSpecial,
           ProcessLockSpecial, Store, Fence, Load
  <2>2. \A l \in Registered : l \in Registered' /\ IndexOf(l)' = IndexOf(l)
    BY <2>1, IndicesKept
  <2>3. /\ DOMAIN lock_index \subseteq Mutex /\ DOMAIN lock_index' \subseteq Mutex
        /\ DOMAIN special_mutex' \subseteq Special
    BY <2>1 DEF Typed
  <2>4. QED BY <2>1, <2>2, <2>3, InterningAssumption
            DEF OwnIndices, Registered, IndexOf
<1>3. QED BY <1>1, <1>2, OwnStep, PTL DEF Spec, IndicesStay, Stays

-----------------------------------------------------------------------------
(* Interned copies *)

LEMMA CopyInit == Init => CopyInv
  BY DEF Init, CopyInv

(* Interning gives an address of what it interned, and addresses stay good. *)
LEMMA Interned ==
  ASSUME Typed, CopyInv, NEW t \in Thread, NEW p, pc[t] = "idle",
         GetTimedlockset(t, p), UNCHANGED <<pc, timestamps>>
  PROVE  CopyInv'
<1>1. timestamps[t] \in Stamps /\ timestamps' = timestamps /\ pc' = pc
  BY DEF Typed
<1>2. CASE cached_timedlockset[t] # 0
  BY <1>1, <1>2 DEF CopyInv, GetTimedlockset
<1>3. CASE cached_timedlockset[t] = 0 /\ TimedAddresses(timestamps[t]) # {}
  <2>1. /\ p \in DOMAIN timedlocksets_cache
        /\ timedlocksets_cache[p] = timestamps[t]
        /\ timedlocksets_cache' = timedlocksets_cache
        /\ cached_timedlockset' = [cached_timedlockset EXCEPT ![t] = p]
    BY <1>3 DEF GetTimedlockset, TimedAddresses, TimedEqual
  <2>2. p \in Nat
    BY <2>1 DEF CopyInv
  <2>3. QED BY <1>1, <2>1, <2>2 DEF CopyInv
<1>4. CASE cached_timedlockset[t] = 0 /\ TimedAddresses(timestamps[t]) = {}
  <2>1. /\ p = Len(timedlocksets_cache) + 1
        /\ timedlocksets_cache' = Append(timedlocksets_cache, timestamps[t])
        /\ cached_timedlockset' = [cached_timedlockset EXCEPT ![t] = p]
    BY <1>4 DEF GetTimedlockset
  <2>2. /\ timedlocksets_cache' \in Seq(Stamps)
        /\ DOMAIN timedlocksets_cache' = DOMAIN timedlocksets_cache \cup {p}
        /\ timedlocksets_cache'[p] = timestamps[t]
        /\ \A q \in DOMAIN timedlocksets_cache :
             timedlocksets_cache'[q] = timedlocksets_cache[q]
        /\ p \in Nat
    BY <1>1, <2>1 DEF CopyInv
  <2>3. QED BY <1>1, <2>1, <2>2 DEF CopyInv
<1>5. QED BY <1>2, <1>3, <1>4

LEMMA CopyStep == Typed /\ CopyInv /\ [Next]_vars => CopyInv'
<1> SUFFICES ASSUME Typed, CopyInv, [Next]_vars PROVE CopyInv'
  OBVIOUS
<1>1. ASSUME NEW t \in Thread,
             \/ \E m \in Mutex, acquires \in BOOLEAN : ProcessLock(t, m, acquires)
             \/ \E s \in Special, acquires \in BOOLEAN : ProcessLockSpecial(t, s, acquires)
      PROVE  CopyInv'
  <2>1. /\ cached_timedlockset' = [cached_timedlockset EXCEPT ![t] = 0]
        /\ UNCHANGED timedlocksets_cache
        /\ \A u \in Thread \ {t} : pc'[u] = pc[u] /\ timestamps'[u] = timestamps[u]
    BY <1>1 DEF ProcessLock, ProcessLockSpecial, CachedAfterCall, caches, Typed
  <2>2. QED BY <2>1 DEF CopyInv
<1>2. ASSUME NEW t \in Thread,
             \/ RegisteredAlready(t) \/ RegisterBegin(t) \/ RegisterEnd(t)
             \/ GetIndex(t) \/ GetIndexMissing(t)
      PROVE  CopyInv'
  <2>1. /\ pc[t] # "idle"
        /\ UNCHANGED <<cached_timedlockset, timedlocksets_cache>>
        /\ \A u \in Thread \ {t} : pc'[u] = pc[u] /\ timestamps'[u] = timestamps[u]
    BY <1>2 DEF RegisteredAlready, RegisterBegin, RegisterEnd, GetIndex,
                GetIndexMissing, own, caches, Typed
  <2>2. QED BY <2>1 DEF CopyInv
<1>3. ASSUME NEW s \in Special, RegisterSpecial(s)
      PROVE  CopyInv'
  BY <1>3 DEF RegisterSpecial, own, caches, CopyInv
<1>4. ASSUME NEW t \in Thread, Store(t) \/ Fence(t) \/ Load(t)
      PROVE  CopyInv'
  <2>1. PICK p : GetTimedlockset(t, p)
    BY <1>4 DEF Store, Fence, Load
  <2>2. pc[t] = "idle" /\ UNCHANGED <<pc, timestamps>>
    BY <1>4 DEF Store, Fence, Load
  <2>3. QED BY <2>1, <2>2, Interned
<1>5. CASE UNCHANGED vars
  BY <1>5 DEF vars, own, caches, CopyInv
<1>6. QED BY <1>1, <1>2, <1>3, <1>4, <1>5 DEF Next, Step

(* The copy of its lockset that a thread keeps is never an old one, whatever *)
(* it and others lock, register and intern.                                 *)
THEOREM CopiesCurrent == Spec => []CachedIsCurrent
<1>1. Init => Typed /\ CopyInv
  BY TypedInit, CopyInit
<1>2. Typed /\ CopyInv /\ [Next]_vars => Typed' /\ CopyInv'
  BY TypedStep, CopyStep
<1>3. CopyInv => CachedIsCurrent
  BY DEF CopyInv, CachedIsCurrent
<1>4. QED BY <1>1, <1>2, <1>3, PTL DEF Spec

-----------------------------------------------------------------------------
(* Locksets *)

LEMMA HoldInit == Init => HoldInv
<1> SUFFICES ASSUME Init, NEW t \in Thread PROVE Holds(t)
  BY DEF HoldInv
<1>1. held[t] = [l \in {} |-> 0] /\ timestamps[t] = NoStamps /\ pc[t] = "idle"
  BY DEF Init
<1>2. DOMAIN held[t] = {} /\ DOMAIN timestamps[t] = {}
  BY <1>1 DEF NoStamps
<1>3. QED BY <1>1, <1>2 DEF Holds

(* A thread that does nothing keeps its locks: their indices stay.          *)
LEMMA HoldsKept ==
  ASSUME NEW t \in Thread, Holds(t),
         \A l \in Registered : l \in Registered' /\ IndexOf(l)' = IndexOf(l),
         held'[t] = held[t], timestamps'[t] = timestamps[t],
         InCall(t)' = InCall(t),
         pc'[t] # "idle" =>
           /\ pc[t] # "idle"
           /\ call'[t].mutex = call[t].mutex
           /\ call'[t].acquires = call[t].acquires
           /\ call'[t].stamp = call[t].stamp
  PROVE  Holds(t)'
<1>1. \A l \in DOMAIN held'[t] \ InCall(t)' :
       /\ l \in Registered'
       /\ IndexOf(l)' \in DOMAIN timestamps'[t]
       /\ timestamps'[t][IndexOf(l)'] = held'[t][l]
  BY DEF Holds
<1>2. \A i \in DOMAIN timestamps'[t] : \E l \in Registered' :
       IndexOf(l)' = i /\ l \in DOMAIN held'[t] \cup InCall(t)'
  BY DEF Holds
<1>3. pc'[t] # "idle" =>
       IF call'[t].acquires
         THEN call'[t].mutex \in DOMAIN held'[t] /\ held'[t][call'[t].mutex] = call'[t].stamp
         ELSE call'[t].mutex \notin DOMAIN held'[t]
  BY DEF Holds
<1>4. QED BY <1>1, <1>2, <1>3 DEF Holds

(* The thread at the end of its call finds the index of its mutex and stamps *)
(* it or takes its stamp away, no other.                                    *)
LEMMA HoldsStamped ==
  ASSUME Typed, OwnIndices, NEW t \in Thread, Holds(t), GetIndex(t)
  PROVE  Holds(t)'
<1> DEFINE m == call[t].mutex
<1>1. /\ pc[t] # "idle" /\ pc'[t] = "idle"
      /\ held' = held
      /\ timestamps'[t] = Stamped(t, lock_index[m])
      /\ Registered' = Registered
      /\ \A l \in Registered : IndexOf(l)' = IndexOf(l)
  BY DEF GetIndex, Typed, registry, Registered, IndexOf
<1>2. m \in Registered /\ IndexOf(m) = lock_index[m]
  BY InterningAssumption DEF GetIndex, Typed, Registered, IndexOf
<1>3. InCall(t) = {m} /\ InCall(t)' = {}
  BY <1>1 DEF InCall
<1>4. \A l \in DOMAIN held[t] \ {m} :
        /\ l \in Registered /\ IndexOf(l) # IndexOf(m)
        /\ IndexOf(l) \in DOMAIN timestamps[t]
        /\ timestamps[t][IndexOf(l)] = held[t][l]
  BY <1>2, <1>3 DEF Holds, OwnIndices
<1>5. \A i \in DOMAIN timestamps[t] : \E l \in Registered :
        IndexOf(l) = i /\ l \in DOMAIN held[t] \cup {m}
  BY <1>3 DEF Holds
<1>6. CASE call[t].acquires
  <2>1. timestamps'[t] = With(timestamps[t], IndexOf(m), call[t].stamp)
    BY <1>1, <1>2, <1>6 DEF Stamped
  <2>2. m \in DOMAIN held[t] /\ held[t][m] = call[t].stamp
    BY <1>1, <1>6 DEF Holds
  <2>3. \A l \in DOMAIN held[t] :
          /\ l \in Registered /\ IndexOf(l) \in DOMAIN timestamps'[t]
          /\ timestamps'[t][IndexOf(l)] = held[t][l]
    BY <1>2, <1>4, <2>1, <2>2 DEF With
  <2>4. \A i \in DOMAIN timestamps'[t] : \E l \in Registered :
          IndexOf(l) = i /\ l \in DOMAIN held[t]
    BY <1>2, <1>5, <2>1, <2>2 DEF With
  <2>5. QED BY <1>1, <1>3, <2>3, <2>4 DEF Holds
<1>7. CASE ~call[t].acquires
  <2>1. timestamps'[t] = Without(timestamps[t], IndexOf(m))
    BY <1>1, <1>2, <1>7 DEF Stamped
  <2>2. m \notin DOMAIN held[t]
    BY <1>1, <1>7 DEF Holds
  <2>3. \A l \in DOMAIN held[t] :
          /\ l \in Registered /\ IndexOf(l) \in DOMAIN timestamps'[t]
          /\ timestamps'[t][IndexOf(l)] = held[t][l]
    BY <1>4, <2>1, <2>2 DEF Without
  <2>4. \A i \in DOMAIN timestamps'[t] : \E l \in Registered :
          IndexOf(l) = i /\ l \in DOMAIN held[t]
    BY <1>5, <2>1 DEF Without
  <2>5. QED BY <1>1, <1>3, <2>3, <2>4 DEF Holds
<1>8. QED BY <1>6, <1>7

(* An adquire-release function has its index and ends in one step.          *)
LEMMA HoldsSpecial ==
  ASSUME Typed, OwnIndices, NEW t \in Thread, Holds(t), NEW s \in Special,
         NEW acquires \in BOOLEAN, ProcessLockSpecial(t, s, acquires)
  PROVE  Holds(t)'
<1>1. /\ pc[t] = "idle" /\ pc'[t] = "idle"
      /\ Registered' = Registered
      /\ \A l \in Registered : IndexOf(l)' = IndexOf(l)
      /\ s \in Registered /\ IndexOf(s) = special_mutex[s]
  BY DEF ProcessLockSpecial, registry, Registered, IndexOf
<1>2. InCall(t) = {} /\ InCall(t)' = {}
  BY <1>1 DEF InCall
<1>3. \A l \in DOMAIN held[t] :
        /\ l \in Registered /\ (l # s => IndexOf(l) # IndexOf(s))
        /\ IndexOf(l) \in DOMAIN timestamps[t]
        /\ timestamps[t][IndexOf(l)] = held[t][l]
  BY <1>1, <1>2 DEF Holds, OwnIndices
<1>4. \A i \in DOMAIN timestamps[t] : \E l \in Registered :
        IndexOf(l) = i /\ l \in DOMAIN held[t]
  BY <1>2 DEF Holds
<1>5. CASE acquires
  <2>1. /\ timestamps'[t] = With(timestamps[t], IndexOf(s), lock_clock[t])
        /\ held'[t] = With(held[t], s, lock_clock[t])
    BY <1>1, <1>5 DEF ProcessLockSpecial, NoteCall, Typed
  <2>2. \A l \in DOMAIN held'[t] :
          /\ l \in Registered /\ IndexOf(l) \in DOMAIN timestamps'[t]
          /\ timestamps'[t][IndexOf(l)] = held'[t][l]
    BY <1>1, <1>3, <2>1 DEF With
  <2>3. \A i \in DOMAIN timestamps'[t] : \E l \in Registered :
          IndexOf(l) = i /\ l \in DOMAIN held'[t]
    BY <1>1, <1>4, <2>1 DEF With
  <2>4. QED BY <1>1, <1>2, <2>2, <2>3 DEF Holds
<1>6. CASE ~acquires
  <2>1. /\ timestamps'[t] = Without(timestamps[t], IndexOf(s))
        /\ held'[t] = Without(held[t], s)
    BY <1>1, <1>6 DEF ProcessLockSpecial, NoteCall, Typed
  <2>2. \A l \in DOMAIN held'[t] :
          /\ l \in Registered /\ IndexOf(l) \in DOMAIN timestamps'[t]
          /\ timestamps'[t][IndexOf(l)] = held'[t][l]
    BY <1>3, <2>1 DEF Without
  <2>3. \A i \in DOMAIN timestamps'[t] : \E l \in Registered :
          IndexOf(l) = i /\ l \in DOMAIN held'[t]
    BY <1>4, <2>1 DEF Without
  <2>4. QED BY <1>1, <1>2, <2>2, <2>3 DEF Holds
<1>7. QED BY <1>5, <1>6

LEMMA HoldsCalled ==
  ASSUME Typed, NEW t \in Thread, Holds(t), NEW m \in Mutex,
         NEW acquires \in BOOLEAN, ProcessLock(t, m, acquires)
  PROVE  Holds(t)'
<1>1. /\ pc[t] = "idle" /\ pc'[t] = "registering"
      /\ call'[t] = [mutex |-> m, acquires |-> acquires,
                     stamp |-> lock_clock[t], index |-> 0]
      /\ timestamps' = timestamps
      /\ Registered' = Registered
      /\ \A l \in Registered : IndexOf(l)' = IndexOf(l)
      /\ held'[t] = IF acquires THEN With(held[t], m, lock_clock[t])
                                ELSE Without(held[t], m)
  BY DEF ProcessLock, NoteCall, Typed, registry, Registered, IndexOf
<1>2. InCall(t) = {} /\ InCall(t)' = {m}
  BY <1>1 DEF InCall
<1>3. /\ \A l \in DOMAIN held'[t] \ {m} :
           l \in DOMAIN held[t] /\ held'[t][l] = held[t][l]
      /\ DOMAIN held[t] \subseteq DOMAIN held'[t] \cup {m}
      /\ acquires => m \in DOMAIN held'[t] /\ held'[t][m] = lock_clock[t]
      /\ ~acquires => m \notin DOMAIN held'[t]
  BY <1>1 DEF With, Without
<1>4. \A l \in DOMAIN held'[t] \ InCall(t)' :
        /\ l \in Registered'
        /\ IndexOf(l)' \in DOMAIN timestamps'[t]
        /\ timestamps'[t][IndexOf(l)'] = held'[t][l]
  BY <1>1, <1>2, <1>3 DEF Holds
<1>5. \A i \in DOMAIN timestamps'[t] : \E l \in Registered' :
        IndexOf(l)' = i /\ l \in DOMAIN held'[t] \cup InCall(t)'
  BY <1>1, <1>2, <1>3 DEF Holds
<1>6. QED BY <1>1, <1>3, <1>4, <1>5 DEF Holds

LEMMA HoldStep ==
  IndexInv /\ IndexInv' /\ HoldInv /\ [Next]_vars => HoldInv'
<1> SUFFICES ASSUME IndexInv, IndexInv', HoldInv, [Next]_vars, ~missed',
                    NEW u \in Thread
             PROVE  Holds(u)'
  BY DEF HoldInv
<1>1. /\ ~missed
      /\ \A t \in Thread : ~GetIndexMissing(t)
  BY DEF Next, Step, vars, ProcessLock, RegisteredAlready, RegisterBegin,
         RegisterEnd, GetIndex, GetIndexMissing, RegisterSpecial,
         ProcessLockSpecial, Store, Fence, Load
<1>2. Typed /\ OwnIndices /\ Holds(u)
  BY <1>1 DEF IndexInv, HoldInv
<1>3. \A l \in Registered : l \in Registered' /\ IndexOf(l)' = IndexOf(l)
  BY <1>1, <1>2, IndicesKept
<1>4. ASSUME held'[u] = held[u], timestamps'[u] = timestamps[u],
             pc'[u] = pc[u], call'[u] = call[u]
      PROVE  Holds(u)'
  <2>1. InCall(u)' = InCall(u)
    BY <1>4 DEF InCall
  <2>2. QED BY <1>2, <1>3, <1>4, <2>1, HoldsKept
<1>5. ASSUME NEW t \in Thread, NEW m \in Mutex, NEW acquires \in BOOLEAN,
             ProcessLock(t, m, acquires)
      PROVE  Holds(u)'
  <2>1. CASE u = t
    BY <1>2, <1>5, <2>1, HoldsCalled
  <2>2. CASE u # t
    BY <1>2, <1>4, <1>5, <2>2 DEF ProcessLock, NoteCall, Typed
  <2>3. QED BY <2>1, <2>2
<1>6. ASSUME NEW t \in Thread,
             RegisteredAlready(t) \/ RegisterBegin(t) \/ RegisterEnd(t)
      PROVE  Holds(u)'
  <2>1. /\ held' = held /\ timestamps' = timestamps
        /\ u # t => pc'[u] = pc[u] /\ call'[u] = call[u]
        /\ pc[t] # "idle" /\ pc'[t] # "idle"
        /\ call'[t].mutex = call[t].mutex
        /\ call'[t].acquires = call[t].acquires
        /\ call'[t].stamp = call[t].stamp
    BY <1>2, <1>6 DEF RegisteredAlready, RegisterBegin, RegisterEnd, own, Typed
  <2>2. CASE u # t
    BY <1>4, <2>1, <2>2
  <2>3. CASE u = t
    <3>1. InCall(u)' = InCall(u)
      BY <2>1, <2>3 DEF InCall
    <3>2. QED BY <1>2, <1>3, <2>1, <2>3, <3>1, HoldsKept
  <2>4. QED BY <2>2, <2>3
<1>7. ASSUME NEW t \in Thread, GetIndex(t)
      PROVE  Holds(u)'
  <2>1. CASE u = t
    BY <1>2, <1>7, <2>1, HoldsStamped
  <2>2. CASE u # t
    BY <1>2, <1>4, <1>7, <2>2 DEF GetIndex, Typed
  <2>3. QED BY <2>1, <2>2
<1>8. ASSUME NEW t \in Thread, NEW s \in Special, NEW acquires \in BOOLEAN,
             ProcessLockSpecial(t, s, acquires)
      PROVE  Holds(u)'
  <2>1. CASE u = t
    BY <1>2, <1>8, <2>1, HoldsSpecial
  <2>2. CASE u # t
    BY <1>2, <1>4, <1>8, <2>2 DEF ProcessLockSpecial, NoteCall, Typed
  <2>3. QED BY <2>1, <2>2
<1>9. CASE UNCHANGED <<held, timestamps, pc, call>>
  BY <1>4, <1>9
<1>10. ASSUME NEW t \in Thread, Store(t) \/ Fence(t) \/ Load(t)
       PROVE  UNCHANGED <<held, timestamps, pc, call>>
  BY <1>10 DEF Store, Fence, Load
<1>11. ASSUME NEW s \in Special, RegisterSpecial(s)
       PROVE  UNCHANGED <<held, timestamps, pc, call>>
  BY <1>11 DEF RegisterSpecial, own
<1>12. CASE UNCHANGED vars
  BY <1>9, <1>12 DEF vars, own
<1>13. QED BY <1>1, <1>5, <1>6, <1>7, <1>8, <1>9, <1>10, <1>11, <1>12 DEF Next, Step

(* Between two lock functions a thread's lockset is that of the locks it     *)
(* holds, with the acquisitions that took them, in every program.           *)
THEOREM LocksetsHeld == Spec => []LocksetIsHeld
<1>1. Init => IndexInv /\ HoldInv
  BY TypedInit, OwnInit, HoldInit DEF IndexInv
<1>2. IndexInv /\ HoldInv /\ [Next]_vars => IndexInv' /\ HoldInv'
  BY OwnStep, HoldStep
<1>3. HoldInv => LocksetIsHeld
  <2> SUFFICES ASSUME ~missed, NEW t \in Thread, pc[t] = "idle", Holds(t)
               PROVE  /\ DOMAIN timestamps[t] = {IndexOf(l) : l \in DOMAIN held[t]}
                      /\ \A l \in DOMAIN held[t] :
                           timestamps[t][IndexOf(l)] = held[t][l]
    BY DEF HoldInv, LocksetIsHeld
  <2>1. InCall(t) = {}
    BY DEF InCall
  <2>2. QED BY <2>1 DEF Holds
<1>4. QED BY <1>1, <1>2, <1>3, PTL DEF Spec

-----------------------------------------------------------------------------
(* Bounds *)

(* Indices have been given out, and stamps too, those of calls under way     *)
(* and also when a lookup misses.                                           *)
Bounds ==
  /\ lock_register_mutex \in Thread \cup {None}
  /\ \A m \in DOMAIN lock_index : lock_index[m] < lock_counter
  /\ \A s \in DOMAIN special_mutex : special_mutex[s] < lock_counter
  /\ \A t \in Thread :
       /\ pc[t] = "inserting" => call[t].index < lock_counter
       /\ pc[t] # "idle" /\ call[t].acquires => call[t].stamp < lock_clock[t]
       /\ \A i \in DOMAIN timestamps[t] :
            i < lock_counter /\ timestamps[t][i] < lock_clock[t]

(* A lockset has one address in the cache. *)
CacheInv ==
  /\ locksets_cache \in Seq(Seq(SUBSET (0 .. WordBits - 1)))
  /\ Len(locksets_cache) >= empty_lockset
  /\ locksets_cache[empty_lockset] = EmptyWords
  /\ InternedOnce

(* Addresses that are kept are those of interned sets. *)
AddressInv ==
  /\ DOMAIN pending = Thread /\ DOMAIN race_likely_stores = Thread
  /\ DOMAIN race_likely_loads = Thread
  /\ \A t \in Thread :
       /\ \A data \in pending[t] : data.timed_lockset \in DOMAIN timedlocksets_cache
       /\ \A r \in race_likely_stores[t] : r.common_set \in DOMAIN locksets_cache
       /\ \A l \in race_likely_loads[t] : l.lockset \in DOMAIN locksets_cache

StoreInv == Typed /\ CopyInv /\ Bounds /\ CacheInv /\ AddressInv

(* The stamps f are those of the locks of h. *)
Stands(f, h) ==
  /\ \A l \in DOMAIN h : /\ l \in Registered /\ IndexOf(l) \in DOMAIN f
                         /\ f[IndexOf(l)] = h[l]
  /\ \A i \in DOMAIN f : \E l \in DOMAIN h : IndexOf(l) = i

(* The words are those of the locks in L. *)
Names(words, L) ==
  /\ L \subseteq Registered
  /\ Indices(words) = {IndexOf(l) : l \in L}

(* What is kept at an address still is what the locks were. *)
MeaningInv ==
  \A t \in Thread :
    /\ \A data \in pending[t] :
         Stands(timedlocksets_cache[data.timed_lockset], data.held)
    /\ \A r \in race_likely_stores[t] : Names(locksets_cache[r.common_set], r.held)
    /\ \A l \in race_likely_loads[t] : Names(locksets_cache[l.lockset], l.held)

ProtectionInv == ~missed => MeaningInv

LEMMA BoundsInit == Init => Bounds
BY DEF Init, Bounds, NoStamps

LEMMA BoundsStep == Typed /\ Typed' /\ Bounds /\ [Next]_vars => Bounds'
<1> SUFFICES ASSUME Typed, Typed', Bounds, [Next]_vars PROVE Bounds'
  OBVIOUS
<1>0. /\ lock_counter \in Nat
      /\ \A t \in Thread : lock_clock[t] \in Nat /\ call[t].index \in Nat
                           /\ call[t].stamp \in Nat
      /\ \A t \in Thread : \A i \in DOMAIN timestamps[t] : i \in Nat
  <2>1. \A t \in Thread : timestamps[t] \in Stamps
    BY DEF Typed
  <2>2. QED BY <2>1, StampsFinite DEF Typed
<1> USE DEF Bounds
<1>1. ASSUME NEW t \in Thread, NEW m \in Mutex, NEW acquires \in BOOLEAN,
             ProcessLock(t, m, acquires)
      PROVE  Bounds'
  <2>1. /\ UNCHANGED <<registry, timestamps>>
        /\ pc'[t] = "registering" /\ \A u \in Thread \ {t} : pc'[u] = pc[u]
        /\ call'[t].acquires = acquires /\ call'[t].stamp = lock_clock[t]
        /\ \A u \in Thread \ {t} : call'[u] = call[u] /\ lock_clock'[u] = lock_clock[u]
        /\ lock_clock'[t] = IF acquires THEN lock_clock[t] + 1 ELSE lock_clock[t]
    BY <1>1 DEF ProcessLock, Typed
  <2>2. ASSUME NEW u \in Thread
        PROVE  /\ pc'[u] = "inserting" => call'[u].index < lock_counter'
               /\ pc'[u] # "idle" /\ call'[u].acquires => call'[u].stamp < lock_clock'[u]
               /\ \A i \in DOMAIN timestamps'[u] :
                    i < lock_counter' /\ timestamps'[u][i] < lock_clock'[u]
    <3>1. CASE u = t
      <4>1. \A i \in DOMAIN timestamps[t] : timestamps[t][i] \in Nat
        BY StampsFinite DEF Typed
      <4>2. QED BY <1>0, <2>1, <3>1, <4>1 DEF registry
    <3>2. CASE u # t
      BY <2>1, <3>2 DEF registry
    <3>3. QED BY <3>1, <3>2
  <2>3. QED BY <2>1, <2>2 DEF registry
<1>2. ASSUME NEW t \in Thread, RegisteredAlready(t)
      PROVE  Bounds'
  BY <1>2 DEF RegisteredAlready, registry, own, Typed
<1>3. ASSUME NEW t \in Thread, RegisterBegin(t)
      PROVE  Bounds'
  <2>1. /\ UNCHANGED <<lock_index, special_mutex, timestamps, lock_clock>>
        /\ lock_register_mutex' = t /\ lock_counter' = lock_counter + 1
        /\ pc[t] = "registering" /\ \A u \in Thread \ {t} : pc'[u] = pc[u] /\ call'[u] = call[u]
        /\ call'[t].index = lock_counter
        /\ call'[t].acquires = call[t].acquires /\ call'[t].stamp = call[t].stamp
    BY <1>3 DEF RegisterBegin, own, Typed
  <2>2. \A m \in DOMAIN lock_index : lock_index[m] < lock_counter + 1
    BY <1>0 DEF Typed
  <2>3. \A s \in DOMAIN special_mutex : special_mutex[s] < lock_counter + 1
    BY <1>0 DEF Typed
  <2>4. ASSUME NEW u \in Thread
        PROVE  /\ pc'[u] = "inserting" => call'[u].index < lock_counter'
               /\ pc'[u] # "idle" /\ call'[u].acquires => call'[u].stamp < lock_clock'[u]
               /\ \A i \in DOMAIN timestamps'[u] :
                    i < lock_counter' /\ timestamps'[u][i] < lock_clock'[u]
    <3>1. CASE u = t
      BY <1>0, <2>1, <3>1
    <3>2. CASE u # t
      BY <1>0, <2>1, <3>2
    <3>3. QED BY <3>1, <3>2
  <2>5. QED BY <2>1, <2>2, <2>3, <2>4
<1>4. ASSUME NEW t \in Thread, RegisterEnd(t)
      PROVE  Bounds'
  BY <1>4 DEF RegisterEnd, With, own, Typed
<1>5. ASSUME NEW t \in Thread, NEW i \in Nat, i < lock_counter, pc[t] # "idle"
      PROVE  \A j \in DOMAIN Stamped(t, i) :
               j < lock_counter /\ Stamped(t, i)[j] < lock_clock[t]
  BY <1>5 DEF Stamped, With, Without
<1>6. ASSUME NEW t \in Thread, GetIndex(t)
      PROVE  Bounds'
  <2>1. lock_index[call[t].mutex] \in Nat /\ lock_index[call[t].mutex] < lock_counter
    BY <1>6 DEF GetIndex, Typed
  <2>2. /\ UNCHANGED <<registry, lock_clock>>
        /\ pc[t] # "idle" /\ pc'[t] = "idle"
        /\ timestamps'[t] = Stamped(t, lock_index[call[t].mutex])
        /\ \A u \in Thread \ {t} : pc'[u] = pc[u] /\ call'[u] = call[u]
                                   /\ timestamps'[u] = timestamps[u]
    BY <1>6 DEF GetIndex, Typed
  <2>3. QED BY <1>5, <2>1, <2>2 DEF registry
<1>7. ASSUME NEW t \in Thread, GetIndexMissing(t)
      PROVE  Bounds'
  <2>1. 0 < lock_counter
    BY <1>0, <1>7 DEF GetIndexMissing
  <2>2. /\ UNCHANGED <<lock_counter, lock_register_mutex, special_mutex, lock_clock>>
        /\ lock_index' = With(lock_index, call[t].mutex, 0)
        /\ pc[t] # "idle" /\ pc'[t] = "idle"
        /\ timestamps'[t] = Stamped(t, 0)
        /\ \A u \in Thread \ {t} : pc'[u] = pc[u] /\ call'[u] = call[u]
                                   /\ timestamps'[u] = timestamps[u]
    BY <1>7 DEF GetIndexMissing, Typed
  <2>3. \A m \in DOMAIN lock_index' : lock_index'[m] < lock_counter
    BY <2>1, <2>2 DEF With
  <2>4. QED BY <1>5, <2>1, <2>2, <2>3
<1>8. ASSUME NEW s \in Special, RegisterSpecial(s)
      PROVE  Bounds'
  <2>1. /\ UNCHANGED <<lock_index, lock_register_mutex, pc, call, timestamps, lock_clock>>
        /\ special_mutex' = With(special_mutex, s, lock_counter)
        /\ lock_counter' = lock_counter + 1
    BY <1>8 DEF RegisterSpecial, own
  <2>2. \A m \in DOMAIN lock_index : lock_index[m] < lock_counter + 1
    BY <1>0 DEF Typed
  <2>3. \A r \in DOMAIN special_mutex' : special_mutex'[r] < lock_counter + 1
    BY <1>0, <2>1 DEF Typed, With
  <2>4. QED BY <1>0, <2>1, <2>2, <2>3
<1>9. ASSUME NEW t \in Thread, NEW s \in Special, NEW acquires \in BOOLEAN,
             ProcessLockSpecial(t, s, acquires)
      PROVE  Bounds'
  <2>1. /\ UNCHANGED <<registry, pc, call>>
        /\ pc[t] = "idle" /\ special_mutex[s] < lock_counter
        /\ timestamps'[t] = IF acquires THEN With(timestamps[t], special_mutex[s], lock_clock[t])
                                        ELSE Without(timestamps[t], special_mutex[s])
        /\ lock_clock'[t] = IF acquires THEN lock_clock[t] + 1 ELSE lock_clock[t]
        /\ \A u \in Thread \ {t} : timestamps'[u] = timestamps[u]
                                   /\ lock_clock'[u] = lock_clock[u]
    BY <1>9 DEF ProcessLockSpecial, Typed
  <2>2. \A i \in DOMAIN timestamps[t] : timestamps[t][i] \in Nat
    BY StampsFinite DEF Typed
  <2>3. \A i \in DOMAIN timestamps'[t] :
          i < lock_counter /\ timestamps'[t][i] < lock_clock'[t]
    <3>1. CASE acquires
      BY <1>0, <2>1, <2>2, <3>1 DEF With
    <3>2. CASE ~acquires
      BY <2>1, <3>2 DEF Without
    <3>3. QED BY <3>1, <3>2
  <2>4. QED BY <2>1, <2>3 DEF registry
<1>10. ASSUME NEW t \in Thread, Store(t) \/ Fence(t) \/ Load(t)
      PROVE  Bounds'
  BY <1>10 DEF Store, Fence, Load, registry
<1>11. CASE UNCHANGED vars
  BY <1>11 DEF vars, registry, own
<1>12. QED BY <1>1, <1>2, <1>3, <1>4, <1>6, <1>7, <1>8, <1>9, <1>10, <1>11
           DEF Next, Step

-----------------------------------------------------------------------------
(* Addresses *)

(* What is interned at p, and that what was interned stays.                 *)
TimedGrows(p, f) ==
  /\ p \in DOMAIN timedlocksets_cache' /\ timedlocksets_cache'[p] = f
  /\ \A q \in DOMAIN timedlocksets_cache :
       q \in DOMAIN timedlocksets_cache' /\ timedlocksets_cache'[q] = timedlocksets_cache[q]

CacheGrows(p, S) ==
  /\ p \in DOMAIN locksets_cache' /\ Indices(locksets_cache'[p]) = S
  /\ \A q \in DOMAIN locksets_cache :
       q \in DOMAIN locksets_cache' /\ locksets_cache'[q] = locksets_cache[q]

LEMMA TimedInterned ==
  ASSUME CopyInv, NEW t \in Thread, NEW p, pc[t] = "idle", GetTimedlockset(t, p)
  PROVE  TimedGrows(p, timestamps[t])
<1>1. CASE cached_timedlockset[t] # 0
  BY <1>1 DEF CopyInv, GetTimedlockset, TimedGrows
<1>2. CASE cached_timedlockset[t] = 0 /\ TimedAddresses(timestamps[t]) # {}
  BY <1>2 DEF GetTimedlockset, TimedAddresses, TimedEqual, TimedGrows
<1>3. CASE cached_timedlockset[t] = 0 /\ TimedAddresses(timestamps[t]) = {}
  <2>1. /\ p = Len(timedlocksets_cache) + 1
        /\ timedlocksets_cache' = Append(timedlocksets_cache, timestamps[t])
    BY <1>3 DEF GetTimedlockset
  <2>2. timedlocksets_cache \in Seq(Stamps)
    BY DEF CopyInv
  <2>3. QED BY <2>1, <2>2 DEF TimedGrows
<1>4. QED BY <1>1, <1>2, <1>3

(* A lookup gives the address of an equal lockset, and what it adds is not   *)
(* there yet.                                                               *)
LEMMA LooksUp ==
  ASSUME CacheInv, NEW words, IsWords(words), NEW p, LocksetCacheGet(words, p)
  PROVE  CacheInv' /\ CacheGrows(p, Indices(words))
<1> DEFINE Words == Seq(SUBSET (0 .. WordBits - 1))
<1>0. locksets_cache \in Seq(Words) /\ words \in Words
      /\ \A q \in DOMAIN locksets_cache : IsWords(locksets_cache[q])
  BY DEF CacheInv, IsWords
<1>1. CASE Addresses(words) # {}
  <2>1. /\ p \in DOMAIN locksets_cache /\ WordsEqual(locksets_cache[p], words)
        /\ locksets_cache' = locksets_cache
    BY <1>1 DEF LocksetCacheGet, Addresses
  <2>2. Indices(locksets_cache[p]) = Indices(words)
    BY <1>0, <2>1, EqualExact
  <2>3. QED BY <2>1, <2>2 DEF CacheInv, CacheGrows, InternedOnce
<1>2. CASE Addresses(words) = {}
  <2>1. p = Len(locksets_cache) + 1 /\ locksets_cache' = Append(locksets_cache, words)
    BY <1>2 DEF LocksetCacheGet
  <2>2. \A q \in DOMAIN locksets_cache \ {empty_lockset} :
          Indices(locksets_cache[q]) # Indices(words)
    BY <1>0, <1>2, EqualExact DEF Addresses
  <2> HIDE DEF Words
  <2>3. /\ locksets_cache' \in Seq(Words)
        /\ DOMAIN locksets_cache' = DOMAIN locksets_cache \cup {p}
        /\ locksets_cache'[p] = words
        /\ \A q \in DOMAIN locksets_cache : locksets_cache'[q] = locksets_cache[q]
        /\ Len(locksets_cache') = Len(locksets_cache) + 1
    BY <1>0, <2>1
  <2>4. InternedOnce'
    BY <2>2, <2>3 DEF CacheInv, InternedOnce
  <2>5. empty_lockset \in DOMAIN locksets_cache
    BY DEF CacheInv, empty_lockset
  <2>6. CacheInv'
    BY <2>3, <2>4, <2>5 DEF CacheInv, Words, empty_lockset
  <2>7. QED BY <2>3, <2>6 DEF CacheGrows
<1>3. QED BY <1>1, <1>2

LEMMA IntersectTyped ==
  ASSUME NEW f \in Stamps, NEW g \in Stamps
  PROVE  Intersect(f, g) \in Stamps
<1>1. DOMAIN Intersect(f, g) = {j \in DOMAIN f \cap DOMAIN g : f[j] = g[j]}
  BY DEF Intersect
<1>2. DOMAIN Intersect(f, g) \in FiniteNatSets
  BY <1>1, StampsFinite, FS_Subset DEF FiniteNatSets
<1>3. Intersect(f, g) \in [DOMAIN Intersect(f, g) -> Nat]
  BY <1>1, StampsFinite DEF Intersect
<1>4. QED BY <1>2, <1>3 DEF Stamps

(* The intersection of two interned timed locksets, whichever of its three   *)
(* ways it takes.                                                           *)
LEMMA Intersected ==
  ASSUME CacheInv, NEW a, NEW b, NEW p, IntersectTimedlockset(a, b, p),
         timedlocksets_cache'[a] \in Stamps, timedlocksets_cache'[b] \in Stamps
  PROVE  CacheInv' /\ CacheGrows(p, DOMAIN Intersect(timedlocksets_cache'[a],
                                                     timedlocksets_cache'[b]))
<1> DEFINE f == timedlocksets_cache'[a]
           g == timedlocksets_cache'[b]
<1>1. DOMAIN Intersect(f, g) = {j \in DOMAIN f \cap DOMAIN g : f[j] = g[j]}
  BY DEF Intersect
<1>2. CASE DOMAIN f = {} \/ DOMAIN g = {}
  <2>1. p = empty_lockset /\ locksets_cache' = locksets_cache
    BY <1>2 DEF IntersectTimedlockset
  <2>2. DOMAIN Intersect(f, g) = {}
    BY <1>1, <1>2
  <2>3. empty_lockset \in DOMAIN locksets_cache
    BY DEF CacheInv, empty_lockset
  <2>4. Indices(locksets_cache[p]) = {}
    BY <2>1, EmptyWordsEmpty DEF CacheInv
  <2>5. CacheInv'
    BY <2>1 DEF CacheInv, InternedOnce
  <2>6. QED BY <2>1, <2>2, <2>3, <2>4, <2>5 DEF CacheGrows
<1>3. CASE ~(DOMAIN f = {} \/ DOMAIN g = {})
  <2> DEFINE h == IF a = b THEN f ELSE Intersect(f, g)
  <2>1. LocksetCacheGet(ToLockset(h), p)
    BY <1>3 DEF IntersectTimedlockset
  <2>2. h \in Stamps /\ DOMAIN h = DOMAIN Intersect(f, g)
    BY <1>1, IntersectTyped
  <2> HIDE DEF h
  <2>3. IsWords(ToLockset(h)) /\ Indices(ToLockset(h)) = DOMAIN h
    BY <2>2, StampsFinite, ToLocksetExact
  <2>4. CacheInv' /\ CacheGrows(p, Indices(ToLockset(h)))
    BY <2>1, <2>3, LooksUp
  <2>5. QED BY <2>2, <2>3, <2>4
<1>4. QED BY <1>2, <1>3

LEMMA StoreInit == Init => CacheInv /\ AddressInv
<1> SUFFICES ASSUME Init PROVE CacheInv /\ AddressInv
  OBVIOUS
<1>1. locksets_cache = << EmptyWords >>
  BY DEF Init
<1>2. EmptyWords \in Seq(SUBSET (0 .. WordBits - 1))
  BY EmptyWordsEmpty DEF IsWords
<1>3. /\ locksets_cache \in Seq(Seq(SUBSET (0 .. WordBits - 1)))
      /\ Len(locksets_cache) = 1 /\ DOMAIN locksets_cache = {1}
      /\ locksets_cache[1] = EmptyWords
  BY <1>1, <1>2
<1>4. CacheInv
  BY <1>3 DEF CacheInv, InternedOnce, empty_lockset
<1>5. AddressInv
  BY DEF Init, AddressInv
<1>6. QED BY <1>4, <1>5

(* What a thread's access does to the two caches and to what it keeps.      *)
LEMMA Stored ==
  ASSUME StoreInv, NEW t \in Thread, Store(t)
  PROVE  \E p :
           /\ TimedGrows(p, timestamps[t])
           /\ UNCHANGED <<locksets_cache, race_likely_stores, race_likely_loads>>
           /\ pending' = [pending EXCEPT ![t] =
                            @ \cup {[timed_lockset |-> p, held |-> held[t]]}]
<1>1. pc[t] = "idle"
  BY DEF Store
<1>2. PICK p : /\ GetTimedlockset(t, p)
               /\ UNCHANGED <<locksets_cache, race_likely_stores, race_likely_loads>>
               /\ pending' = [pending EXCEPT ![t] =
                                @ \cup {[timed_lockset |-> p, held |-> held[t]]}]
  BY DEF Store
<1>3. TimedGrows(p, timestamps[t])
  BY <1>1, <1>2, TimedInterned DEF StoreInv
<1>4. QED BY <1>2, <1>3

LEMMA Fenced ==
  ASSUME StoreInv, StoreInv => CopyInv', NEW t \in Thread, Fence(t)
  PROVE  \E data, p, q :
           /\ data \in pending[t]
           /\ TimedGrows(p, timestamps[t])
           /\ CacheInv'
           /\ CacheGrows(q, DOMAIN Intersect(timestamps[t],
                                     timedlocksets_cache[data.timed_lockset]))
           /\ UNCHANGED race_likely_loads
           /\ pending' = [pending EXCEPT ![t] = @ \ {data}]
           /\ race_likely_stores' = [race_likely_stores EXCEPT ![t] =
                @ \cup {[common_set |-> q, held |-> HeldSince(t, data)]}]
<1>1. pc[t] = "idle"
  BY DEF Fence
<1>2. PICK data, p, q :
           /\ data \in pending[t]
           /\ GetTimedlockset(t, p)
           /\ IntersectTimedlockset(p, data.timed_lockset, q)
           /\ UNCHANGED race_likely_loads
           /\ pending' = [pending EXCEPT ![t] = @ \ {data}]
           /\ race_likely_stores' = [race_likely_stores EXCEPT ![t] =
                @ \cup {[common_set |-> q, held |-> HeldSince(t, data)]}]
  BY DEF Fence
<1>3. TimedGrows(p, timestamps[t])
  BY <1>1, <1>2, TimedInterned DEF StoreInv
<1>4. data.timed_lockset \in DOMAIN timedlocksets_cache
  BY <1>2 DEF StoreInv, AddressInv
<1> DEFINE a == data.timed_lockset
<1> HIDE DEF a
<1>5. /\ timedlocksets_cache'[p] = timestamps[t]
      /\ timedlocksets_cache'[a] = timedlocksets_cache[a]
  BY <1>3, <1>4 DEF TimedGrows, a
<1>6. timestamps[t] \in Stamps /\ timedlocksets_cache[a] \in Stamps
  BY <1>4 DEF StoreInv, Typed, CopyInv, a
<1>7. CacheInv' /\ CacheGrows(q, DOMAIN Intersect(timedlocksets_cache'[p],
                                                  timedlocksets_cache'[a]))
  BY <1>2, <1>5, <1>6, Intersected DEF StoreInv, a
<1>8. CacheGrows(q, DOMAIN Intersect(timestamps[t], timedlocksets_cache[a]))
  BY <1>5, <1>7
<1>9. QED BY <1>2, <1>3, <1>7, <1>8 DEF a

LEMMA Loaded ==
  ASSUME StoreInv, NEW t \in Thread, Load(t)
  PROVE  \E p, q :
           /\ TimedGrows(p, timestamps[t])
           /\ CacheInv'
           /\ CacheGrows(q, DOMAIN timestamps[t])
           /\ UNCHANGED <<pending, race_likely_stores>>
           /\ race_likely_loads' = [race_likely_loads EXCEPT ![t] =
                @ \cup {[lockset |-> q, held |-> DOMAIN held[t]]}]
<1>1. pc[t] = "idle"
  BY DEF Load
<1>2. PICK p, q :
           /\ GetTimedlockset(t, p)
           /\ LocksetCacheGet(ToLockset(timedlocksets_cache'[p]), q)
           /\ UNCHANGED <<pending, race_likely_stores>>
           /\ race_likely_loads' = [race_likely_loads EXCEPT ![t] =
                @ \cup {[lockset |-> q, held |-> DOMAIN held[t]]}]
  BY DEF Load
<1>3. TimedGrows(p, timestamps[t])
  BY <1>1, <1>2, TimedInterned DEF StoreInv
<1>4. timedlocksets_cache'[p] = timestamps[t]
  BY <1>3 DEF TimedGrows
<1>5. timestamps[t] \in Stamps
  BY DEF StoreInv, Typed
<1>6. LocksetCacheGet(ToLockset(timestamps[t]), q)
  BY <1>2, <1>4
<1>7. /\ IsWords(ToLockset(timestamps[t]))
      /\ Indices(ToLockset(timestamps[t])) = DOMAIN timestamps[t]
  BY <1>5, StampsFinite, ToLocksetExact
<1>8. CacheInv' /\ CacheGrows(q, Indices(ToLockset(timestamps[t])))
  BY <1>6, <1>7, LooksUp DEF StoreInv
<1>9. QED BY <1>2, <1>3, <1>7, <1>8

(* The other steps touch neither the caches nor what is kept.               *)
LEMMA OtherStep ==
  ASSUME [Next]_vars, \A t \in Thread : ~Store(t) /\ ~Fence(t) /\ ~Load(t)
  PROVE  UNCHANGED <<locksets_cache, timedlocksets_cache, pending,
                     race_likely_stores, race_likely_loads>>
  BY DEF Next, Step, vars, ProcessLock, RegisteredAlready, RegisterBegin,
         RegisterEnd, GetIndex, GetIndexMissing, RegisterSpecial,
         ProcessLockSpecial, caches, records

LEMMA StoreStep == StoreInv /\ [Next]_vars => StoreInv'
<1> SUFFICES ASSUME StoreInv, [Next]_vars PROVE StoreInv'
  OBVIOUS
<1>1. Typed' /\ CopyInv' /\ Bounds'
  BY TypedStep, CopyStep, BoundsStep DEF StoreInv
<1>2. CacheInv /\ AddressInv
  BY DEF StoreInv
<1>3. ASSUME NEW t \in Thread, Store(t)
      PROVE  CacheInv' /\ AddressInv'
  <2>1. PICK p :
           /\ TimedGrows(p, timestamps[t])
           /\ UNCHANGED <<locksets_cache, race_likely_stores, race_likely_loads>>
           /\ pending' = [pending EXCEPT ![t] =
                            @ \cup {[timed_lockset |-> p, held |-> held[t]]}]
    BY <1>3, Stored
  <2>2. CacheInv'
    BY <1>2, <2>1 DEF CacheInv, InternedOnce
  <2>3. ASSUME NEW u \in Thread, NEW data \in pending'[u]
        PROVE  data.timed_lockset \in DOMAIN timedlocksets_cache'
    <3>1. data \in pending[u] \/ data.timed_lockset = p
      BY <1>2, <2>1 DEF AddressInv
    <3>2. QED BY <1>2, <2>1, <3>1 DEF AddressInv, TimedGrows
  <2>4. QED BY <1>2, <2>1, <2>2, <2>3 DEF AddressInv
<1>4. ASSUME NEW t \in Thread, Fence(t)
      PROVE  CacheInv' /\ AddressInv'
  <2>1. PICK data, p, q :
           /\ data \in pending[t]
           /\ TimedGrows(p, timestamps[t])
           /\ CacheInv'
           /\ CacheGrows(q, DOMAIN Intersect(timestamps[t],
                                     timedlocksets_cache[data.timed_lockset]))
           /\ UNCHANGED race_likely_loads
           /\ pending' = [pending EXCEPT ![t] = @ \ {data}]
           /\ race_likely_stores' = [race_likely_stores EXCEPT ![t] =
                @ \cup {[common_set |-> q, held |-> HeldSince(t, data)]}]
    BY <1>1, <1>4, Fenced
  <2>2. /\ \A a \in DOMAIN timedlocksets_cache : a \in DOMAIN timedlocksets_cache'
        /\ \A a \in DOMAIN locksets_cache : a \in DOMAIN locksets_cache'
        /\ q \in DOMAIN locksets_cache'
    BY <2>1 DEF TimedGrows, CacheGrows
  <2>3. ASSUME NEW u \in Thread, NEW r \in race_likely_stores'[u]
        PROVE  r.common_set \in DOMAIN locksets_cache'
    <3>1. r \in race_likely_stores[u] \/ r.common_set = q
      BY <1>2, <2>1 DEF AddressInv
    <3>2. QED BY <1>2, <2>2, <3>1 DEF AddressInv
  <2>4. \A u \in Thread : pending'[u] \subseteq pending[u]
    BY <1>2, <2>1 DEF AddressInv
  <2>5. DOMAIN pending' = Thread /\ DOMAIN race_likely_stores' = Thread
    BY <1>2, <2>1 DEF AddressInv
  <2>6. QED BY <1>2, <2>1, <2>2, <2>3, <2>4, <2>5 DEF AddressInv
<1>5. ASSUME NEW t \in Thread, Load(t)
      PROVE  CacheInv' /\ AddressInv'
  <2>1. PICK p, q :
           /\ TimedGrows(p, timestamps[t])
           /\ CacheInv'
           /\ CacheGrows(q, DOMAIN timestamps[t])
           /\ UNCHANGED <<pending, race_likely_stores>>
           /\ race_likely_loads' = [race_likely_loads EXCEPT ![t] =
                @ \cup {[lockset |-> q, held |-> DOMAIN held[t]]}]
    BY <1>5, Loaded
  <2>2. /\ \A a \in DOMAIN timedlocksets_cache : a \in DOMAIN timedlocksets_cache'
        /\ \A a \in DOMAIN locksets_cache : a \in DOMAIN locksets_cache'
        /\ q \in DOMAIN locksets_cache'
    BY <2>1 DEF TimedGrows, CacheGrows
  <2>3. ASSUME NEW u \in Thread, NEW l \in race_likely_loads'[u]
        PROVE  l.lockset \in DOMAIN locksets_cache'
    <3>1. l \in race_likely_loads[u] \/ l.lockset = q
      BY <1>2, <2>1 DEF AddressInv
    <3>2. QED BY <1>2, <2>2, <3>1 DEF AddressInv
  <2>4. QED BY <1>2, <2>1, <2>2, <2>3 DEF AddressInv
<1>6. CASE \A t \in Thread : ~Store(t) /\ ~Fence(t) /\ ~Load(t)
  <2>1. UNCHANGED <<locksets_cache, timedlocksets_cache, pending,
                    race_likely_stores, race_likely_loads>>
    BY <1>6, OtherStep
  <2>2. QED BY <1>1, <1>2, <2>1 DEF StoreInv, CacheInv, AddressInv, InternedOnce
<1>7. QED BY <1>1, <1>3, <1>4, <1>5, <1>6 DEF StoreInv

-----------------------------------------------------------------------------
(* What the addresses mean *)

MapsKept == \A l \in Registered : l \in Registered' /\ IndexOf(l)' = IndexOf(l)

StandsNow(f, h) ==
  /\ \A l \in DOMAIN h : /\ l \in Registered' /\ IndexOf(l)' \in DOMAIN f
                         /\ f[IndexOf(l)'] = h[l]
  /\ \A i \in DOMAIN f : \E l \in DOMAIN h : IndexOf(l)' = i

NamesNow(words, L) ==
  /\ L \subseteq Registered'
  /\ Indices(words) = {IndexOf(l)' : l \in L}

LEMMA StandsKept ==
  ASSUME MapsKept, NEW f, NEW h, Stands(f, h)
  PROVE  StandsNow(f, h)
BY DEF MapsKept, Stands, StandsNow

LEMMA NamesKept ==
  ASSUME MapsKept, NEW words, NEW L, Names(words, L)
  PROVE  NamesNow(words, L)
<1>1. L \subseteq Registered' /\ \A l \in L : IndexOf(l)' = IndexOf(l)
  BY DEF MapsKept, Names
<1>2. {IndexOf(l)' : l \in L} = {IndexOf(l) : l \in L}
  BY <1>1
<1>3. QED BY <1>1, <1>2 DEF Names, NamesNow

LEMMA MeaningNow ==
  ASSUME \A u \in Thread :
           /\ \A data \in pending'[u] :
                StandsNow(timedlocksets_cache'[data.timed_lockset], data.held)
           /\ \A r \in race_likely_stores'[u] :
                NamesNow(locksets_cache'[r.common_set], r.held)
           /\ \A l \in race_likely_loads'[u] :
                NamesNow(locksets_cache'[l.lockset], l.held)
  PROVE  MeaningInv'
BY DEF MeaningInv, StandsNow, NamesNow, Stands, Names

(* An entry of the lists is as good as it was, or is the one just added.    *)
LEMMA MeaningKept ==
  ASSUME AddressInv, MeaningInv, MapsKept,
         \A a \in DOMAIN timedlocksets_cache :
           timedlocksets_cache'[a] = timedlocksets_cache[a],
         \A a \in DOMAIN locksets_cache : locksets_cache'[a] = locksets_cache[a],
         NEW u \in Thread
  PROVE  /\ \A data \in pending[u] :
              StandsNow(timedlocksets_cache'[data.timed_lockset], data.held)
         /\ \A r \in race_likely_stores[u] :
              NamesNow(locksets_cache'[r.common_set], r.held)
         /\ \A l \in race_likely_loads[u] :
              NamesNow(locksets_cache'[l.lockset], l.held)
<1>1. ASSUME NEW data \in pending[u]
      PROVE  StandsNow(timedlocksets_cache'[data.timed_lockset], data.held)
  <2>1. Stands(timedlocksets_cache[data.timed_lockset], data.held)
    BY DEF MeaningInv
  <2>2. timedlocksets_cache'[data.timed_lockset] = timedlocksets_cache[data.timed_lockset]
    BY DEF AddressInv
  <2>3. QED BY <2>1, <2>2, StandsKept
<1>2. ASSUME NEW r \in race_likely_stores[u]
      PROVE  NamesNow(locksets_cache'[r.common_set], r.held)
  <2>1. Names(locksets_cache[r.common_set], r.held)
    BY DEF MeaningInv
  <2>2. locksets_cache'[r.common_set] = locksets_cache[r.common_set]
    BY DEF AddressInv
  <2>3. QED BY <2>1, <2>2, NamesKept
<1>3. ASSUME NEW l \in race_likely_loads[u]
      PROVE  NamesNow(locksets_cache'[l.lockset], l.held)
  <2>1. Names(locksets_cache[l.lockset], l.held)
    BY DEF MeaningInv
  <2>2. locksets_cache'[l.lockset] = locksets_cache[l.lockset]
    BY DEF AddressInv
  <2>3. QED BY <2>1, <2>2, NamesKept
<1>4. QED BY <1>1, <1>2, <1>3

LEMMA StampsStand ==
  ASSUME NEW t \in Thread, Holds(t), pc[t] = "idle"
  PROVE  Stands(timestamps[t], held[t])
BY DEF Holds, InCall, Stands

(* Two stamps agree on the index of a lock that both have exactly if the     *)
(* same acquisition took it.                                                *)
LEMMA IntersectNames ==
  ASSUME OwnIndices, NEW t \in Thread, NEW data, NEW g,
         Stands(timestamps[t], held[t]), Stands(g, data.held)
  PROVE  /\ HeldSince(t, data) \subseteq Registered
         /\ DOMAIN Intersect(timestamps[t], g) =
              {IndexOf(l) : l \in HeldSince(t, data)}
<1> DEFINE f == timestamps[t]
           S == {IndexOf(l) : l \in HeldSince(t, data)}
<1>1. DOMAIN Intersect(f, g) = {j \in DOMAIN f \cap DOMAIN g : f[j] = g[j]}
  BY DEF Intersect
<1>2. HeldSince(t, data) \subseteq Registered
  BY DEF HeldSince, Stands
<1>3. ASSUME NEW j \in DOMAIN f \cap DOMAIN g, f[j] = g[j]
      PROVE  j \in S
  <2>1. PICK k \in DOMAIN held[t] : IndexOf(k) = j
    BY DEF Stands
  <2>2. PICK l \in DOMAIN data.held : IndexOf(l) = j
    BY DEF Stands
  <2>3. k \in Registered /\ l \in Registered
    BY DEF Stands
  <2>4. k = l
    BY <2>1, <2>2, <2>3 DEF OwnIndices
  <2>5. f[j] = held[t][l] /\ g[j] = data.held[l]
    BY <2>1, <2>2, <2>4 DEF Stands
  <2>6. l \in HeldSince(t, data)
    BY <1>3, <2>4, <2>5 DEF HeldSince
  <2>7. QED BY <2>2, <2>6
<1>4. ASSUME NEW l \in HeldSince(t, data)
      PROVE  IndexOf(l) \in DOMAIN f \cap DOMAIN g /\ f[IndexOf(l)] = g[IndexOf(l)]
  BY DEF HeldSince, Stands
<1>5. DOMAIN Intersect(f, g) = S
  <2>1. \A j : j \in S <=> j \in DOMAIN f \cap DOMAIN g /\ f[j] = g[j]
    BY <1>3, <1>4
  <2> HIDE DEF S
  <2>2. QED BY <1>1, <2>1
<1>6. QED BY <1>2, <1>5

LEMMA MeaningStep ==
  ASSUME StoreInv, StoreInv', ~missed, OwnIndices, MeaningInv,
         \A t \in Thread : Holds(t), MapsKept, [Next]_vars
  PROVE  MeaningInv'
<1>0. AddressInv
  BY DEF StoreInv
<1> DEFINE Now(u) ==
      /\ \A data \in pending'[u] :
           StandsNow(timedlocksets_cache'[data.timed_lockset], data.held)
      /\ \A r \in race_likely_stores'[u] :
           NamesNow(locksets_cache'[r.common_set], r.held)
      /\ \A l \in race_likely_loads'[u] :
           NamesNow(locksets_cache'[l.lockset], l.held)
<1>1. ASSUME NEW t \in Thread, Store(t), NEW u \in Thread
      PROVE  Now(u)
  <2>1. PICK p :
           /\ TimedGrows(p, timestamps[t])
           /\ UNCHANGED <<locksets_cache, race_likely_stores, race_likely_loads>>
           /\ pending' = [pending EXCEPT ![t] =
                            @ \cup {[timed_lockset |-> p, held |-> held[t]]}]
    BY <1>1, Stored
  <2>2. \A a \in DOMAIN timedlocksets_cache :
           timedlocksets_cache'[a] = timedlocksets_cache[a]
    BY <2>1 DEF TimedGrows
  <2>3. /\ \A data \in pending[u] :
              StandsNow(timedlocksets_cache'[data.timed_lockset], data.held)
        /\ \A r \in race_likely_stores[u] :
              NamesNow(locksets_cache'[r.common_set], r.held)
        /\ \A l \in race_likely_loads[u] :
              NamesNow(locksets_cache'[l.lockset], l.held)
    BY <1>0, <2>1, <2>2, MeaningKept
  <2>4. StandsNow(timedlocksets_cache'[p], held[t])
    <3>1. pc[t] = "idle"
      BY <1>1 DEF Store
    <3>2. Stands(timestamps[t], held[t])
      BY <3>1, StampsStand
    <3>3. QED BY <2>1, <3>2, StandsKept DEF TimedGrows
  <2>5. ASSUME NEW data \in pending'[u]
        PROVE  StandsNow(timedlocksets_cache'[data.timed_lockset], data.held)
    <3>1. data \in pending[u] \/ (data.timed_lockset = p /\ data.held = held[t])
      BY <1>0, <2>1 DEF AddressInv
    <3>2. QED BY <2>3, <2>4, <3>1
  <2>6. QED BY <2>1, <2>3, <2>5
<1>2. ASSUME NEW t \in Thread, Fence(t), NEW u \in Thread
      PROVE  Now(u)
  <2>1. PICK data, p, q :
           /\ data \in pending[t]
           /\ TimedGrows(p, timestamps[t])
           /\ CacheInv'
           /\ CacheGrows(q, DOMAIN Intersect(timestamps[t],
                                     timedlocksets_cache[data.timed_lockset]))
           /\ UNCHANGED race_likely_loads
           /\ pending' = [pending EXCEPT ![t] = @ \ {data}]
           /\ race_likely_stores' = [race_likely_stores EXCEPT ![t] =
                @ \cup {[common_set |-> q, held |-> HeldSince(t, data)]}]
    BY <1>2, Fenced DEF StoreInv
  <2>2. /\ \A a \in DOMAIN timedlocksets_cache :
             timedlocksets_cache'[a] = timedlocksets_cache[a]
        /\ \A a \in DOMAIN locksets_cache : locksets_cache'[a] = locksets_cache[a]
    BY <2>1 DEF TimedGrows, CacheGrows
  <2>3. /\ \A d \in pending[u] :
              StandsNow(timedlocksets_cache'[d.timed_lockset], d.held)
        /\ \A r \in race_likely_stores[u] :
              NamesNow(locksets_cache'[r.common_set], r.held)
        /\ \A l \in race_likely_loads[u] :
              NamesNow(locksets_cache'[l.lockset], l.held)
    BY <1>0, <2>2, MeaningKept
  <2>4. NamesNow(locksets_cache'[q], HeldSince(t, data))
    <3>1. pc[t] = "idle"
      BY <1>2 DEF Fence
    <3>2. /\ Stands(timestamps[t], held[t])
          /\ Stands(timedlocksets_cache[data.timed_lockset], data.held)
      BY <2>1, <3>1, StampsStand DEF MeaningInv
    <3>3. /\ HeldSince(t, data) \subseteq Registered
          /\ DOMAIN Intersect(timestamps[t], timedlocksets_cache[data.timed_lockset])
               = {IndexOf(l) : l \in HeldSince(t, data)}
      BY <3>2, IntersectNames
    <3>4. Names(locksets_cache'[q], HeldSince(t, data))
      BY <2>1, <3>3 DEF CacheGrows, Names
    <3>5. QED BY <3>4, NamesKept
  <2>5. ASSUME NEW r \in race_likely_stores'[u]
        PROVE  NamesNow(locksets_cache'[r.common_set], r.held)
    <3>1. \/ r \in race_likely_stores[u]
          \/ r.common_set = q /\ r.held = HeldSince(t, data)
      BY <1>0, <2>1 DEF AddressInv
    <3>2. QED BY <2>3, <2>4, <3>1
  <2>6. pending'[u] \subseteq pending[u]
    BY <1>0, <2>1 DEF AddressInv
  <2>7. QED BY <2>1, <2>3, <2>5, <2>6
<1>3. ASSUME NEW t \in Thread, Load(t), NEW u \in Thread
      PROVE  Now(u)
  <2>1. PICK p, q :
           /\ TimedGrows(p, timestamps[t])
           /\ CacheInv'
           /\ CacheGrows(q, DOMAIN timestamps[t])
           /\ UNCHANGED <<pending, race_likely_stores>>
           /\ race_likely_loads' = [race_likely_loads EXCEPT ![t] =
                @ \cup {[lockset |-> q, held |-> DOMAIN held[t]]}]
    BY <1>3, Loaded
  <2>2. /\ \A a \in DOMAIN timedlocksets_cache :
             timedlocksets_cache'[a] = timedlocksets_cache[a]
        /\ \A a \in DOMAIN locksets_cache : locksets_cache'[a] = locksets_cache[a]
    BY <2>1 DEF TimedGrows, CacheGrows
  <2>3. /\ \A data \in pending[u] :
              StandsNow(timedlocksets_cache'[data.timed_lockset], data.held)
        /\ \A r \in race_likely_stores[u] :
              NamesNow(locksets_cache'[r.common_set], r.held)
        /\ \A l \in race_likely_loads[u] :
              NamesNow(locksets_cache'[l.lockset], l.held)
    BY <1>0, <2>2, MeaningKept
  <2>4. NamesNow(locksets_cache'[q], DOMAIN held[t])
    <3>1. pc[t] = "idle"
      BY <1>3 DEF Load
    <3>2. Stands(timestamps[t], held[t])
      BY <3>1, StampsStand
    <3>3. /\ DOMAIN held[t] \subseteq Registered
          /\ DOMAIN timestamps[t] = {IndexOf(l) : l \in DOMAIN held[t]}
      BY <3>2 DEF Stands
    <3>4. Names(locksets_cache'[q], DOMAIN held[t])
      BY <2>1, <3>3 DEF CacheGrows, Names
    <3>5. QED BY <3>4, NamesKept
  <2>5. ASSUME NEW l \in race_likely_loads'[u]
        PROVE  NamesNow(locksets_cache'[l.lockset], l.held)
    <3>1. \/ l \in race_likely_loads[u]
          \/ l.lockset = q /\ l.held = DOMAIN held[t]
      BY <1>0, <2>1 DEF AddressInv
    <3>2. QED BY <2>3, <2>4, <3>1
  <2>6. QED BY <2>1, <2>3, <2>5
<1>4. ASSUME \A t \in Thread : ~Store(t) /\ ~Fence(t) /\ ~Load(t), NEW u \in Thread
      PROVE  Now(u)
  <2>1. UNCHANGED <<locksets_cache, timedlocksets_cache, pending,
                    race_likely_stores, race_likely_loads>>
    BY <1>4, OtherStep
  <2>2. QED BY <1>0, <2>1, MeaningKept
<1>5. \A u \in Thread : Now(u)
  BY <1>1, <1>2, <1>3, <1>4
<1>6. QED BY <1>5, MeaningNow

LEMMA ProtectionStep ==
  /\ StoreInv /\ StoreInv' /\ IndexInv /\ HoldInv /\ ProtectionInv /\ [Next]_vars
  => ProtectionInv'
<1> SUFFICES ASSUME StoreInv, StoreInv', IndexInv, HoldInv, ProtectionInv,
                    [Next]_vars, ~missed'
             PROVE  MeaningInv'
  BY DEF ProtectionInv
<1>1. ~missed
  BY DEF Next, Step, vars, ProcessLock, RegisteredAlready, RegisterBegin,
         RegisterEnd, GetIndex, GetIndexMissing, RegisterSpecial,
         ProcessLockSpecial, Store, Fence, Load
<1>2. Typed /\ OwnIndices /\ MeaningInv /\ \A t \in Thread : Holds(t)
  BY <1>1 DEF IndexInv, HoldInv, ProtectionInv
<1>3. MapsKept
  BY <1>1, <1>2, IndicesKept DEF MapsKept
<1>4. QED BY <1>1, <1>2, <1>3, MeaningStep

(* What the analysis asks of two addresses.                                 *)
LEMMA MeetsHeld ==
  ASSUME CacheInv, OwnIndices, NEW p \in DOMAIN locksets_cache,
         NEW q \in DOMAIN locksets_cache, NEW K, NEW L,
         Names(locksets_cache[p], K), Names(locksets_cache[q], L)
  PROVE  ShortIntersect(p, q) <=> K \cap L # {}
<1> DEFINE v == locksets_cache[p]
           w == locksets_cache[q]
<1>1. IsWords(v) /\ IsWords(w)
  BY DEF CacheInv, IsWords
<1>2. \A x : IsWords(x) => (IsEmpty(x) <=> Indices(x) = {})
  <2>1. ASSUME NEW x, IsWords(x)
        PROVE  IsEmpty(x) <=> Indices(x) = {}
    <3>1. ASSUME NEW i \in DOMAIN x, NEW bit \in x[i]
          PROVE  Indices(x) # {}
      <4>1. (i - 1) * WordBits + bit \in Indices(x)
        BY <2>1, <3>1, IndexOfBit
      <4>2. QED BY <4>1
    <3>2. ASSUME NEW index \in Indices(x)
          PROVE  \E i \in DOMAIN x : x[i] # {}
      <4>1. \E i \in DOMAIN x : \E bit \in x[i] : index = (i - 1) * WordBits + bit
        BY <2>1, IndexOfBit
      <4>2. QED BY <4>1
    <3>3. QED BY <3>1, <3>2 DEF IsEmpty
  <2>2. QED BY <2>1
<1>3. WordsMeet(v, w) <=> Indices(v) \cap Indices(w) # {}
  BY <1>1, MeetExact
<1>4. Indices(v) \cap Indices(w) # {} <=> K \cap L # {}
  <2>1. /\ K \subseteq Registered /\ L \subseteq Registered
        /\ Indices(v) = {IndexOf(l) : l \in K} /\ Indices(w) = {IndexOf(l) : l \in L}
    BY DEF Names
  <2>2. ASSUME NEW k \in K, NEW l \in L, IndexOf(k) = IndexOf(l)
        PROVE  k \in K \cap L
    BY <2>1, <2>2 DEF OwnIndices
  <2>3. QED BY <2>1, <2>2
<1>5. ShortIntersect(p, q) <=> Indices(v) \cap Indices(w) # {}
  <2>1. ShortIntersect(p, q) <=>
          ~IsEmpty(v) /\ ~IsEmpty(w) /\ (p = q \/ WordsMeet(v, w))
    BY DEF ShortIntersect
  <2>2. (IsEmpty(v) <=> Indices(v) = {}) /\ (IsEmpty(w) <=> Indices(w) = {})
    BY <1>1, <1>2
  <2>3. p = q => Indices(v) = Indices(w)
    OBVIOUS
  <2> HIDE DEF v, w
  <2>4. QED BY <1>3, <2>1, <2>2, <2>3
<1>6. QED BY <1>4, <1>5

AllInv == StoreInv /\ IndexInv /\ HoldInv /\ ProtectionInv

LEMMA AllInvariant == Spec => []AllInv
<1>1. Init => AllInv
  <2>1. Init => Typed /\ CopyInv /\ Bounds /\ CacheInv /\ AddressInv
    BY TypedInit, CopyInit, BoundsInit, StoreInit
  <2>2. Init => MeaningInv
    BY DEF Init, MeaningInv
  <2>3. Init => OwnIndices /\ HoldInv
    BY OwnInit, HoldInit
  <2>4. QED BY <2>1, <2>2, <2>3 DEF AllInv, StoreInv, IndexInv, ProtectionInv
<1>2. AllInv /\ [Next]_vars => AllInv'
  BY StoreStep, OwnStep, HoldStep, ProtectionStep DEF AllInv
<1>3. QED BY <1>1, <1>2, PTL DEF Spec

(* The types of the variables, for any number of threads, locks and words:   *)
(* what get_index hands out is in range even when its lookup misses.        *)
THEOREM InterningTyped == Spec => []TypeOK
<1>1. AllInv => TypeOK
  <2> SUFFICES ASSUME AllInv PROVE TypeOK
    OBVIOUS
  <2>1. Typed /\ CopyInv /\ Bounds /\ CacheInv /\ AddressInv
    BY DEF AllInv, StoreInv
  <2>2. \A p \in DOMAIN locksets_cache : IsWords(locksets_cache[p])
    BY <2>1 DEF CacheInv, IsWords
  <2>3. \A t \in Thread : cached_timedlockset[t] \in {0} \cup DOMAIN timedlocksets_cache
    BY <2>1 DEF CopyInv
  <2>4. \A m \in DOMAIN lock_index :
          m \in Mutex /\ lock_index[m] \in 0 .. lock_counter - 1
    BY <2>1 DEF Typed, Bounds
  <2>5. \A s \in DOMAIN special_mutex :
          s \in Special /\ special_mutex[s] \in 0 .. lock_counter - 1
    BY <2>1 DEF Typed, Bounds
  <2>6. QED BY <2>1, <2>2, <2>3, <2>4, <2>5 DEF TypeOK, Typed, Bounds, AddressInv
<1>2. QED BY <1>1, AllInvariant, PTL

(* lockset_cache_get never allocates a lockset that the cache has under      *)
(* another address, also when the two are vectors of different lengths.     *)
THEOREM OneAddress == Spec => []InternedOnce
<1>1. AllInv => InternedOnce
  BY DEF AllInv, StoreInv, CacheInv
<1>2. QED BY <1>1, AllInvariant, PTL

(* From the stamps of two threads over interned timed locksets, their        *)
(* intersection at a fence, the conversion to words and the second cache,    *)
(* short_intersect answers what was asked: whether the one thread held a     *)
(* lock from its store to its fence that the other held at its load.        *)
THEOREM ProtectionFound == Spec => []ProtectionExact
<1>1. AllInv => ProtectionExact
  <2> SUFFICES ASSUME AllInv, ~missed, NEW t \in Thread, NEW u \in Thread,
                      NEW r \in race_likely_stores[t], NEW l \in race_likely_loads[u]
               PROVE  ShortIntersect(l.lockset, r.common_set) <=> r.held \cap l.held # {}
    BY DEF ProtectionExact
  <2>1. CacheInv /\ OwnIndices /\ AddressInv /\ MeaningInv
    BY DEF AllInv, StoreInv, IndexInv, ProtectionInv
  <2>2. l.lockset \in DOMAIN locksets_cache /\ r.common_set \in DOMAIN locksets_cache
    BY <2>1 DEF AddressInv
  <2>3. /\ Names(locksets_cache[l.lockset], l.held)
        /\ Names(locksets_cache[r.common_set], r.held)
    BY <2>1 DEF MeaningInv
  <2>4. ShortIntersect(l.lockset, r.common_set) <=> l.held \cap r.held # {}
    BY <2>1, <2>2, <2>3, MeetsHeld
  <2>5. l.held \cap r.held = r.held \cap l.held
    OBVIOUS
  <2>6. QED BY <2>4, <2>5
<1>2. QED BY <1>1, AllInvariant, PTL
=============================================================================
