------------------------------- MODULE Lockset -------------------------------
(***************************************************************************)
(* The Lockset of src/src/lockset.cpp: a set of lock indices kept as a     *)
(* vector of words.  A word is the set of the positions of its bits.       *)
(***************************************************************************)
EXTENDS Integers, Sequences, FiniteSets

CONSTANT WordBits  \* bits of a std::bitset: 64 in the code

ASSUME WordAssumption == WordBits \in Nat \ {0}

IsWords(words) == words \in Seq(SUBSET (0 .. WordBits - 1))

\* std::vector<std::bitset<64>>(1)
EmptyWords == << {} >>

\* The indices a vector of words stands for.
Indices(words) ==
  UNION {{(macro - 1) * WordBits + micro : micro \in words[macro]} :
           macro \in DOMAIN words}

\* A lock_special that does not look for the word of the index.
WithMutexFirstWord(words, index) ==
  [words EXCEPT ![1] = @ \cup {index % WordBits}]

\* One that takes the index for the position of the bit.
WithMutexUnreduced(words, index) ==
  LET macro == index \div WordBits + 1
      size  == IF macro > Len(words) THEN macro ELSE Len(words)
  IN  [i \in 1 .. size |->
         (IF i <= Len(words) THEN words[i] ELSE {}) \cup
         (IF i = macro THEN {index} ELSE {})]

\* set_mutex_internal(index, true): the vector grows to the word of the index.
WithMutex(words, index) ==
  LET macro == index \div WordBits + 1
      size  == IF macro > Len(words) THEN macro ELSE Len(words)
  IN  [i \in 1 .. size |->
         (IF i <= Len(words) THEN words[i] ELSE {}) \cup
         (IF i = macro THEN {index % WordBits} ELSE {})]

\* empty
IsEmpty(words) == \A i \in DOMAIN words : words[i] = {}

MinLen(v, w) == IF Len(v) < Len(w) THEN Len(v) ELSE Len(w)

\* The loop of short_intersect.
WordsMeet(v, w) == \E i \in 1 .. MinLen(v, w) : v[i] \cap w[i] # {}

\* A comparison that stops at the end of the shorter vector.
WordsEqualShort(v, w) == \A i \in 1 .. MinLen(v, w) : v[i] = w[i]

\* operator==: the words both have are equal, the others are empty.
WordsEqual(v, w) ==
  /\ \A i \in 1 .. MinLen(v, w) : v[i] = w[i]
  /\ \A i \in DOMAIN v \cup DOMAIN w :
       i > MinLen(v, w) => (IF Len(v) > Len(w) THEN v[i] ELSE w[i]) = {}

\* TimedLockset::to_lockset: lock_special for each key of the std::map, from
\* the smallest on.
ToLockset(timestamps) ==
  LET after[S \in SUBSET DOMAIN timestamps] ==
        IF S = {} THEN EmptyWords
        ELSE LET last == CHOOSE i \in S : \A j \in S : j <= i
             IN  WithMutex(after[S \ {last}], last)
  IN  after[DOMAIN timestamps]
=============================================================================
