------------------------- MODULE LockWrappersProofs -------------------------
(***************************************************************************)
(* The locksets of LockWrappers against the locks the threads really have, *)
(* for any number of threads, mutexes, try functions and calls.            *)
(***************************************************************************)
EXTENDS LockWrappers, TLAPS

Calls ==
  [fn : {"lock"}, mutex : Mutex, how : Modes]
    \cup [fn : {"try"}, mutex : Mutex, how : Modes, config : TryFunctions]
    \cup [fn : {"unlock"}, mutex : Mutex]
    \cup [fn : {"adq_rel"}, mutex : {Special}]

(* The state a step works on, thread by thread. *)
Typed ==
  /\ current_timedlockset = [t \in Thread |-> current_timedlockset[t]]
  /\ lock_clock \in [Thread -> Nat]
  /\ try_lock_mutex \in [Thread -> Mutex \cup {NoMutex}]
  /\ calls \in [Thread -> Seq(Calls)]
  /\ out \in [Thread -> [Mutex -> TryResults]]
  /\ mode \in [Thread -> [Mutex -> Modes \cup {"free"}]]
  /\ phantom \in [Thread -> SUBSET Mutex]
  /\ unrecorded \in [Thread -> SUBSET (Mutex \cup {Special})]
  /\ window = [t \in Thread |-> window[t]]

Stamped(t) ==
  IsTimedLockset(current_timedlockset[t], Mutex \cup {Special},
                 0 .. lock_clock[t] - 1)

(* Calls happen inside try functions and functions of the acquire-release   *)
(* list only, and a try-lock in progress has filled the slot.               *)
Nested(t) ==
  /\ \A i \in 1 .. Len(calls[t]) - 1 : calls[t][i].fn \in {"try", "adq_rel"}
  /\ \A i \in 1 .. Len(calls[t]) :
       calls[t][i].fn = "try" => try_lock_mutex[t] \in Mutex

(* The mutex of a call to fn that is the innermost. *)
Innermost(t, fn) == {m \in Mutex : In(t, fn) /\ Last(calls[t]).mutex = m}

(* Between the lockset and the locks: what LockBefore has recorded and the   *)
(* library has not granted yet, what UnlockBefore has erased and the         *)
(* library has not taken back yet.                                           *)
Between(t) ==
  /\ Recorded(t) \subseteq Held(t) \cup phantom[t] \cup Innermost(t, "lock")
  /\ Held(t) \subseteq Recorded(t) \cup unrecorded[t] \cup Innermost(t, "unlock")
  /\ Innermost(t, "lock") \subseteq Recorded(t)
  /\ Innermost(t, "unlock") \cap Recorded(t) = {}

WrapInv ==
  /\ Typed
  /\ \A t \in Thread : Stamped(t) /\ Nested(t) /\ Between(t)

-----------------------------------------------------------------------------
(* The stack of calls *)

LEMMA CallFacts ==
  \A c \in Calls :
    /\ c.fn \in {"lock", "try", "unlock", "adq_rel"}
    /\ c.mutex \in Mutex \cup {Special}
    /\ c.fn = "adq_rel" <=> c.mutex = Special
    /\ c.fn \in {"lock", "try"} => c.how \in Modes
    /\ c.fn = "try" => c.config \in TryFunctions
  BY LockAssumption DEF Calls

LEMMA Pushing ==
  ASSUME NEW S, NEW s \in Seq(S), NEW x \in S
  PROVE  /\ Len(s) \in Nat
         /\ Append(s, x) \in Seq(S) /\ Append(s, x) # <<>>
         /\ Len(Append(s, x)) = Len(s) + 1
         /\ Last(Append(s, x)) = x
         /\ \A i \in 1 .. Len(s) : Append(s, x)[i] = s[i]
  BY DEF Last

LEMMA Popping ==
  ASSUME NEW S, NEW s \in Seq(S), s # <<>>
  PROVE  /\ Len(s) \in Nat /\ Len(s) >= 1
         /\ Front(s) \in Seq(S)
         /\ Len(Front(s)) = Len(s) - 1
         /\ \A i \in 1 .. Len(s) - 1 : Front(s)[i] = s[i]
<1>1. Len(s) \in Nat /\ Len(s) >= 1
  OBVIOUS
<1>2. PICK n \in Nat : n = Len(s) - 1
  BY <1>1
<1>3. Front(s) = SubSeq(s, 1, n) /\ n <= Len(s)
  BY <1>1, <1>2 DEF Front
<1>4. SubSeq(s, 1, n) \in Seq(S) /\ Len(SubSeq(s, 1, n)) = n
  BY <1>1, <1>2
<1>5. \A i \in 1 .. n : SubSeq(s, 1, n)[i] = s[i]
  BY <1>1, <1>2
<1>6. QED BY <1>1, <1>2, <1>3, <1>4, <1>5

LEMMA Called ==
  ASSUME Typed, NEW t \in Thread, Nested(t), CanCall(t), NEW c \in Calls, Call(t, c)
  PROVE  /\ calls' \in [Thread -> Seq(Calls)]
         /\ \A u \in Thread : u # t => calls'[u] = calls[u]
         /\ calls'[t] # <<>> /\ Last(calls'[t]) = c
         /\ Len(calls'[t]) = Len(calls[t]) + 1 /\ Len(calls[t]) \in Nat
         /\ calls'[t][Len(calls[t]) + 1] = c
         /\ \A i \in 1 .. Len(calls[t]) : calls'[t][i] = calls[t][i]
         /\ \A i \in 1 .. Len(calls[t]) : calls[t][i].fn \in {"try", "adq_rel"}
         /\ ~In(t, "lock") /\ ~In(t, "unlock")
         /\ Special \in InProgress(t)' <=> Special \in InProgress(t) \/ c.mutex = Special
<1>1. calls \in [Thread -> Seq(Calls)] /\ calls[t] \in Seq(Calls)
  BY DEF Typed
<1>2. calls' = [calls EXCEPT ![t] = Append(calls[t], c)]
  BY DEF Call
<1>3. /\ Len(calls[t]) \in Nat
      /\ Append(calls[t], c) \in Seq(Calls) /\ Append(calls[t], c) # <<>>
      /\ Len(Append(calls[t], c)) = Len(calls[t]) + 1
      /\ Last(Append(calls[t], c)) = c
      /\ \A i \in 1 .. Len(calls[t]) : Append(calls[t], c)[i] = calls[t][i]
  BY <1>1, Pushing
<1>4. /\ calls' \in [Thread -> Seq(Calls)] /\ calls'[t] = Append(calls[t], c)
      /\ \A u \in Thread : u # t => calls'[u] = calls[u]
  BY <1>1, <1>2, <1>3
<1>5. calls[t] = <<>> \/ Last(calls[t]).fn \in {"try", "adq_rel"}
  BY DEF CanCall, OwnCode, In
<1>6. \A i \in 1 .. Len(calls[t]) : calls[t][i].fn \in {"try", "adq_rel"}
  <2>1. ASSUME NEW i \in 1 .. Len(calls[t])
        PROVE  calls[t][i].fn \in {"try", "adq_rel"}
    <3>1. CASE i = Len(calls[t])
      BY <1>3, <1>5, <2>1, <3>1 DEF Last
    <3>2. CASE i # Len(calls[t])
      <4>1. i \in 1 .. Len(calls[t]) - 1
        BY <1>3, <2>1, <3>2
      <4>2. QED BY <4>1 DEF Nested
    <3>3. QED BY <3>1, <3>2
  <2>2. QED BY <2>1
<1>7. ~In(t, "lock") /\ ~In(t, "unlock")
  BY <1>5 DEF In
<1>8. calls'[t][Len(calls[t]) + 1] = c
  BY <1>3, <1>4 DEF Last
<1>9. Special \in InProgress(t)' <=> Special \in InProgress(t) \/ c.mutex = Special
  <2>1. DOMAIN calls[t] = 1 .. Len(calls[t])
    BY <1>1
  <2>2. DOMAIN calls'[t] = 1 .. Len(calls[t]) + 1
    BY <1>3, <1>4
  <2>3. Special \in InProgress(t) <=>
          \E i \in 1 .. Len(calls[t]) : calls[t][i].mutex = Special
    BY <2>1 DEF InProgress, Range
  <2>4. Special \in InProgress(t)' <=>
          \E i \in 1 .. Len(calls[t]) + 1 : calls'[t][i].mutex = Special
    BY <2>2 DEF InProgress, Range
  <2>5. \A i : i \in 1 .. Len(calls[t]) + 1 <=>
                 i \in 1 .. Len(calls[t]) \/ i = Len(calls[t]) + 1
    BY <1>3
  <2>6. \A i \in 1 .. Len(calls[t]) : calls'[t][i] = calls[t][i]
    BY <1>3, <1>4
  <2>7. QED BY <1>8, <2>3, <2>4, <2>5, <2>6
<1>10. QED BY <1>3, <1>4, <1>6, <1>7, <1>8, <1>9

LEMMA Returned ==
  ASSUME Typed, NEW t \in Thread, Nested(t), calls[t] # <<>>, Return(t)
  PROVE  /\ calls' \in [Thread -> Seq(Calls)]
         /\ \A u \in Thread : u # t => calls'[u] = calls[u]
         /\ Last(calls[t]) \in Calls
         /\ Len(calls[t]) \in Nat /\ Len(calls[t]) >= 1
         /\ Last(calls[t]) = calls[t][Len(calls[t])]
         /\ Len(calls'[t]) = Len(calls[t]) - 1
         /\ \A i \in 1 .. Len(calls[t]) - 1 : calls'[t][i] = calls[t][i]
         /\ (~In(t, "lock"))' /\ (~In(t, "unlock"))'
         /\ Special \in InProgress(t) <=>
              Special \in InProgress(t)' \/ Last(calls[t]).mutex = Special
<1>1. calls \in [Thread -> Seq(Calls)] /\ calls[t] \in Seq(Calls)
  BY DEF Typed
<1>2. calls' = [calls EXCEPT ![t] = Front(calls[t])]
  BY DEF Return
<1>3. /\ Len(calls[t]) \in Nat /\ Len(calls[t]) >= 1
      /\ Front(calls[t]) \in Seq(Calls)
      /\ Len(Front(calls[t])) = Len(calls[t]) - 1
      /\ \A i \in 1 .. Len(calls[t]) - 1 : Front(calls[t])[i] = calls[t][i]
  BY <1>1, Popping
<1>4. /\ calls' \in [Thread -> Seq(Calls)] /\ calls'[t] = Front(calls[t])
      /\ \A u \in Thread : u # t => calls'[u] = calls[u]
  BY <1>1, <1>2, <1>3
<1>5. Last(calls[t]) \in Calls /\ Last(calls[t]) = calls[t][Len(calls[t])]
  BY <1>1, <1>3 DEF Last
<1>6. calls'[t] = <<>> \/ Last(calls'[t]).fn \in {"try", "adq_rel"}
  <2>1. SUFFICES ASSUME calls'[t] # <<>>
                 PROVE  Last(calls'[t]).fn \in {"try", "adq_rel"}
    OBVIOUS
  <2>2. Len(calls'[t]) \in 1 .. Len(calls[t]) - 1
    BY <1>3, <1>4, <2>1
  <2>3. Last(calls'[t]) = calls[t][Len(calls'[t])]
    BY <1>3, <1>4, <2>2 DEF Last
  <2>4. QED BY <2>2, <2>3 DEF Nested
<1>7. (~In(t, "lock"))' /\ (~In(t, "unlock"))'
  BY <1>6 DEF In
<1>8. Special \in InProgress(t) <=>
        Special \in InProgress(t)' \/ Last(calls[t]).mutex = Special
  <2>1. DOMAIN calls[t] = 1 .. Len(calls[t])
    BY <1>1
  <2>2. DOMAIN calls'[t] = 1 .. Len(calls[t]) - 1
    BY <1>3, <1>4
  <2>3. Special \in InProgress(t) <=>
          \E i \in 1 .. Len(calls[t]) : calls[t][i].mutex = Special
    BY <2>1 DEF InProgress, Range
  <2>4. Special \in InProgress(t)' <=>
          \E i \in 1 .. Len(calls[t]) - 1 : calls'[t][i].mutex = Special
    BY <2>2 DEF InProgress, Range
  <2>5. \A i : i \in 1 .. Len(calls[t]) <=>
                 i \in 1 .. Len(calls[t]) - 1 \/ i = Len(calls[t])
    BY <1>3
  <2>6. \A i \in 1 .. Len(calls[t]) - 1 : calls'[t][i] = calls[t][i]
    BY <1>3, <1>4
  <2>7. QED BY <1>5, <2>3, <2>4, <2>5, <2>6
<1>9. QED BY <1>3, <1>4, <1>5, <1>7, <1>8

-----------------------------------------------------------------------------
(* The locksets *)

Locks == Mutex \cup {Special}

LEMMA Recording ==
  ASSUME Typed, NEW t \in Thread, Stamped(t), NEW m \in Locks, Record(t, m)
  PROVE  /\ current_timedlockset' = [u \in Thread |-> current_timedlockset'[u]]
         /\ lock_clock' \in [Thread -> Nat]
         /\ \A u \in Thread : u # t =>
              /\ current_timedlockset'[u] = current_timedlockset[u]
              /\ lock_clock'[u] = lock_clock[u]
         /\ Stamped(t)' /\ Recorded(t)' = Recorded(t) \cup {m}
         /\ current_timedlockset'[t][m] = lock_clock[t]
         /\ \A l \in Recorded(t) \ {m} :
              current_timedlockset'[t][l] = current_timedlockset[t][l]
<1>1. /\ current_timedlockset = [u \in Thread |-> current_timedlockset[u]]
      /\ lock_clock \in [Thread -> Nat]
  BY DEF Typed
<1>2. PICK s : s = current_timedlockset[t]
  OBVIOUS
<1>3. PICK k : k = lock_clock[t]
  OBVIOUS
<1>4. PICK after : after = [l \in DOMAIN s \cup {m} |-> IF l = m THEN k ELSE s[l]]
  OBVIOUS
<1>5. /\ current_timedlockset' = [current_timedlockset EXCEPT ![t] = after]
      /\ lock_clock' = [lock_clock EXCEPT ![t] = k + 1]
  BY <1>2, <1>3, <1>4 DEF Record, TimedLock, Timestamp
<1>6. /\ current_timedlockset'[t] = after /\ lock_clock'[t] = k + 1
      /\ \A u \in Thread : u # t =>
           /\ current_timedlockset'[u] = current_timedlockset[u]
           /\ lock_clock'[u] = lock_clock[u]
  BY <1>1, <1>5
<1>7. k \in Nat /\ DOMAIN s \subseteq Locks /\ \A l \in DOMAIN s : s[l] \in 0 .. k - 1
  BY <1>1, <1>2, <1>3 DEF Stamped, IsTimedLockset, Locks
<1>8. /\ DOMAIN after = DOMAIN s \cup {m} /\ after[m] = k
      /\ \A l \in DOMAIN s \ {m} : after[l] = s[l]
      /\ after = [l \in DOMAIN after |-> after[l]]
  BY <1>4
<1>9. DOMAIN after \subseteq Locks /\ \A l \in DOMAIN after : after[l] \in 0 .. k
  BY <1>7, <1>8
<1>10. after \in [DOMAIN after -> 0 .. k]
  BY <1>8, <1>9
<1>11. Stamped(t)'
  <2>1. lock_clock'[t] - 1 = k /\ current_timedlockset'[t] = after
    BY <1>6, <1>7
  <2>2. QED BY <1>9, <1>10, <2>1 DEF Stamped, IsTimedLockset, Locks
<1>12. Recorded(t)' = Recorded(t) \cup {m}
  BY <1>2, <1>6, <1>8 DEF Recorded
<1>13. /\ current_timedlockset' = [u \in Thread |-> current_timedlockset'[u]]
       /\ lock_clock' \in [Thread -> Nat]
  BY <1>1, <1>5, <1>7
<1>14. QED BY <1>2, <1>3, <1>6, <1>8, <1>11, <1>12, <1>13 DEF Recorded

LEMMA Erasure ==
  ASSUME Typed, NEW t \in Thread, Stamped(t), NEW m, Erase(t, m)
  PROVE  /\ current_timedlockset' = [u \in Thread |-> current_timedlockset'[u]]
         /\ lock_clock' = lock_clock
         /\ \A u \in Thread : u # t =>
              current_timedlockset'[u] = current_timedlockset[u]
         /\ Stamped(t)' /\ Recorded(t)' = Recorded(t) \ {m}
         /\ \A l \in Recorded(t) \ {m} :
              current_timedlockset'[t][l] = current_timedlockset[t][l]
<1>1. current_timedlockset = [u \in Thread |-> current_timedlockset[u]]
  BY DEF Typed
<1>2. PICK s : s = current_timedlockset[t]
  OBVIOUS
<1>3. PICK after : after = [l \in DOMAIN s \ {m} |-> s[l]]
  OBVIOUS
<1>4. /\ current_timedlockset' = [current_timedlockset EXCEPT ![t] = after]
      /\ lock_clock' = lock_clock
  BY <1>2, <1>3 DEF Erase, TimedUnlock
<1>5. /\ current_timedlockset'[t] = after
      /\ \A u \in Thread : u # t =>
           current_timedlockset'[u] = current_timedlockset[u]
  BY <1>1, <1>4
<1>6. /\ DOMAIN after = DOMAIN s \ {m}
      /\ \A l \in DOMAIN s \ {m} : after[l] = s[l]
  BY <1>3
<1>7. /\ DOMAIN s \subseteq Locks
      /\ \A l \in DOMAIN s : s[l] \in 0 .. lock_clock[t] - 1
  BY <1>2 DEF Stamped, IsTimedLockset, Locks
<1>8. after \in [DOMAIN after -> 0 .. lock_clock[t] - 1]
  BY <1>3, <1>6, <1>7
<1>9. Stamped(t)'
  BY <1>4, <1>5, <1>6, <1>7, <1>8 DEF Stamped, IsTimedLockset, Locks
<1>10. Recorded(t)' = Recorded(t) \ {m}
  BY <1>2, <1>5, <1>6 DEF Recorded
<1>11. current_timedlockset' = [u \in Thread |-> current_timedlockset'[u]]
  BY <1>1, <1>4
<1>12. QED BY <1>2, <1>4, <1>5, <1>6, <1>9, <1>10, <1>11 DEF Recorded

-----------------------------------------------------------------------------
(* The steps *)

(* A step of t leaves the other threads alone. *)
Others(t) ==
  \A u \in Thread : u # t =>
    /\ current_timedlockset'[u] = current_timedlockset[u]
    /\ lock_clock'[u] = lock_clock[u]
    /\ try_lock_mutex'[u] = try_lock_mutex[u]
    /\ calls'[u] = calls[u] /\ mode'[u] = mode[u]
    /\ phantom'[u] = phantom[u] /\ unrecorded'[u] = unrecorded[u]

LEMMA OneThread ==
  ASSUME WrapInv, NEW t \in Thread, Others(t), Typed',
         Stamped(t)', Nested(t)', Between(t)'
  PROVE  WrapInv'
<1>1. ASSUME NEW u \in Thread, u # t
      PROVE  Stamped(u)' /\ Nested(u)' /\ Between(u)'
  <2>1. /\ current_timedlockset'[u] = current_timedlockset[u]
        /\ lock_clock'[u] = lock_clock[u]
        /\ try_lock_mutex'[u] = try_lock_mutex[u]
        /\ calls'[u] = calls[u] /\ mode'[u] = mode[u]
        /\ phantom'[u] = phantom[u] /\ unrecorded'[u] = unrecorded[u]
    BY <1>1 DEF Others
  <2>2. Stamped(u) /\ Nested(u) /\ Between(u)
    BY DEF WrapInv
  <2>3. Stamped(u)'
    BY <2>1, <2>2 DEF Stamped
  <2>4. Nested(u)'
    BY <2>1, <2>2 DEF Nested
  <2>5. /\ Recorded(u)' = Recorded(u) /\ Held(u)' = Held(u)
        /\ Innermost(u, "lock")' = Innermost(u, "lock")
        /\ Innermost(u, "unlock")' = Innermost(u, "unlock")
    BY <2>1 DEF Recorded, Held, InProgress, Innermost, In
  <2>6. Between(u)'
    BY <2>1, <2>2, <2>5 DEF Between
  <2>7. QED BY <2>3, <2>4, <2>6
<1>2. QED BY <1>1 DEF WrapInv

(* What a call adds to the sets Between speaks of. *)
LEMMA CallSets ==
  ASSUME Typed, NEW t \in Thread, Nested(t), CanCall(t), NEW c \in Calls, Call(t, c)
  PROVE  /\ Innermost(t, "lock") = {} /\ Innermost(t, "unlock") = {}
         /\ Innermost(t, "lock")' = {l \in Mutex : c.fn = "lock" /\ c.mutex = l}
         /\ Innermost(t, "unlock")' = {l \in Mutex : c.fn = "unlock" /\ c.mutex = l}
         /\ mode' = mode => Held(t)' = Held(t) \cup ({Special} \cap {c.mutex})
<1>1. /\ calls'[t] # <<>> /\ Last(calls'[t]) = c
      /\ ~In(t, "lock") /\ ~In(t, "unlock")
      /\ Special \in InProgress(t)' <=> Special \in InProgress(t) \/ c.mutex = Special
  BY Called
<1>2. Innermost(t, "lock") = {} /\ Innermost(t, "unlock") = {}
  BY <1>1 DEF Innermost
<1>3. In(t, "lock")' <=> c.fn = "lock"
  BY <1>1 DEF In
<1>4. In(t, "unlock")' <=> c.fn = "unlock"
  BY <1>1 DEF In
<1>5. Innermost(t, "lock")' = {l \in Mutex : c.fn = "lock" /\ c.mutex = l}
  BY <1>1, <1>3 DEF Innermost
<1>6. Innermost(t, "unlock")' = {l \in Mutex : c.fn = "unlock" /\ c.mutex = l}
  BY <1>1, <1>4 DEF Innermost
<1>7. ASSUME mode' = mode PROVE Held(t)' = Held(t) \cup ({Special} \cap {c.mutex})
  BY <1>1, <1>7 DEF Held
<1>8. QED BY <1>2, <1>5, <1>6, <1>7

(* What a return takes from them. *)
LEMMA ReturnSets ==
  ASSUME Typed, NEW t \in Thread, Nested(t), calls[t] # <<>>, Return(t),
         NEW c, c = Last(calls[t])
  PROVE  /\ Innermost(t, "lock")' = {} /\ Innermost(t, "unlock")' = {}
         /\ Innermost(t, "lock") = {l \in Mutex : c.fn = "lock" /\ c.mutex = l}
         /\ Innermost(t, "unlock") = {l \in Mutex : c.fn = "unlock" /\ c.mutex = l}
         /\ Special \in Held(t)' <=> Special \in InProgress(t)'
         /\ Special \in Held(t) <=> Special \in InProgress(t)
         /\ \A l \in Mutex : l \in Held(t) <=> mode[t][l] # "free"
         /\ \A l \in Mutex : l \in Held(t)' <=> mode'[t][l] # "free"
         /\ Held(t) \subseteq Locks /\ Held(t)' \subseteq Locks
         /\ c.mutex # Special => (Special \in Held(t)' <=> Special \in Held(t))
<1>1. /\ (~In(t, "lock"))' /\ (~In(t, "unlock"))'
      /\ Special \in InProgress(t) <=> Special \in InProgress(t)' \/ c.mutex = Special
  BY Returned
<1>2. Innermost(t, "lock")' = {} /\ Innermost(t, "unlock")' = {}
  BY <1>1 DEF Innermost
<1>3. /\ Innermost(t, "lock") = {l \in Mutex : c.fn = "lock" /\ c.mutex = l}
      /\ Innermost(t, "unlock") = {l \in Mutex : c.fn = "unlock" /\ c.mutex = l}
  BY DEF Innermost, In
<1>4. Special \notin Mutex
  BY LockAssumption
<1>5. /\ Special \in Held(t)' <=> Special \in InProgress(t)'
      /\ Special \in Held(t) <=> Special \in InProgress(t)
  BY <1>4 DEF Held
<1>6. /\ \A l \in Mutex : l \in Held(t) <=> mode[t][l] # "free"
      /\ \A l \in Mutex : l \in Held(t)' <=> mode'[t][l] # "free"
  BY <1>4 DEF Held
<1>7. Held(t) \subseteq Locks /\ Held(t)' \subseteq Locks
  BY DEF Held, Locks
<1>8. QED BY <1>1, <1>2, <1>3, <1>5, <1>6, <1>7

(* A call leaves the calls nested, if a try-lock has filled the slot. *)
LEMMA CallNested ==
  ASSUME Typed, NEW t \in Thread, Nested(t), CanCall(t), NEW c \in Calls, Call(t, c),
         try_lock_mutex' = try_lock_mutex \/ try_lock_mutex'[t] \in Mutex,
         c.fn = "try" => try_lock_mutex'[t] \in Mutex
  PROVE  Nested(t)'
<1>1. /\ Len(calls'[t]) = Len(calls[t]) + 1 /\ Len(calls[t]) \in Nat
      /\ calls'[t][Len(calls[t]) + 1] = c
      /\ \A i \in 1 .. Len(calls[t]) : calls'[t][i] = calls[t][i]
      /\ \A i \in 1 .. Len(calls[t]) : calls[t][i].fn \in {"try", "adq_rel"}
  BY Called
<1>2. \A i : i \in 1 .. Len(calls'[t]) - 1 <=> i \in 1 .. Len(calls[t])
  BY <1>1
<1>3. \A i \in 1 .. Len(calls'[t]) - 1 : calls'[t][i].fn \in {"try", "adq_rel"}
  BY <1>1, <1>2
<1>4. ASSUME NEW i \in 1 .. Len(calls'[t]), calls'[t][i].fn = "try"
      PROVE  try_lock_mutex'[t] \in Mutex
  <2>1. CASE i = Len(calls[t]) + 1
    BY <1>1, <1>4, <2>1
  <2>2. CASE i # Len(calls[t]) + 1
    <3>1. i \in 1 .. Len(calls[t])
      BY <1>1, <2>2
    <3>2. calls[t][i].fn = "try"
      BY <1>1, <1>4, <3>1
    <3>3. try_lock_mutex[t] \in Mutex
      BY <3>1, <3>2 DEF Nested
    <3>4. QED BY <3>3
  <2>3. QED BY <2>1, <2>2
<1>5. QED BY <1>3, <1>4 DEF Nested

LEMMA LockBeforeKeeps ==
  ASSUME WrapInv, NEW t \in Thread, NEW m \in Mutex, NEW how \in Modes,
         LockBefore(t, m, how)
  PROVE  WrapInv' /\ Others(t)
<1>1. PICK c : c = [fn |-> "lock", mutex |-> m, how |-> how]
  OBVIOUS
<1>2. c \in Calls /\ c.fn = "lock" /\ c.mutex = m /\ m # Special
  BY <1>1, LockAssumption DEF Calls
<1>3. /\ CanCall(t) /\ Record(t, m) /\ Call(t, c)
      /\ try_lock_mutex' = try_lock_mutex /\ out' = out /\ mode' = mode
      /\ phantom' = phantom /\ unrecorded' = unrecorded /\ window' = window
  BY <1>1 DEF LockBefore
<1>4. Typed /\ Stamped(t) /\ Nested(t) /\ Between(t) /\ m \in Locks
  BY DEF WrapInv, Locks
<1>5. /\ current_timedlockset' = [u \in Thread |-> current_timedlockset'[u]]
      /\ lock_clock' \in [Thread -> Nat]
      /\ \A u \in Thread : u # t =>
           /\ current_timedlockset'[u] = current_timedlockset[u]
           /\ lock_clock'[u] = lock_clock[u]
      /\ Stamped(t)' /\ Recorded(t)' = Recorded(t) \cup {m}
  BY <1>3, <1>4, Recording
<1>6. /\ calls' \in [Thread -> Seq(Calls)]
      /\ \A u \in Thread : u # t => calls'[u] = calls[u]
  BY <1>2, <1>3, <1>4, Called
<1>7. /\ Innermost(t, "lock") = {} /\ Innermost(t, "unlock") = {}
      /\ Innermost(t, "lock")' = {l \in Mutex : c.fn = "lock" /\ c.mutex = l}
      /\ Innermost(t, "unlock")' = {l \in Mutex : c.fn = "unlock" /\ c.mutex = l}
      /\ Held(t)' = Held(t) \cup ({Special} \cap {c.mutex})
  BY <1>2, <1>3, <1>4, CallSets
<1>8. /\ Innermost(t, "lock")' = {m} /\ Innermost(t, "unlock")' = {}
      /\ Held(t)' = Held(t)
  BY <1>2, <1>7
<1>9. Typed'
  BY <1>3, <1>4, <1>5, <1>6 DEF Typed
<1>10. Nested(t)'
  BY <1>2, <1>3, <1>4, CallNested
<1>11. Between(t)'
  BY <1>3, <1>4, <1>5, <1>7, <1>8 DEF Between
<1>12. Others(t)
  BY <1>3, <1>5, <1>6 DEF Others
<1>13. QED BY <1>5, <1>9, <1>10, <1>11, <1>12, OneThread

LEMMA TryLockBeforeKeeps ==
  ASSUME WrapInv, NEW t \in Thread, NEW m \in Mutex, NEW how \in Modes,
         NEW config \in TryFunctions, TryLockBefore(t, m, how, config)
  PROVE  WrapInv' /\ Others(t)
<1>1. PICK c : c = [fn |-> "try", mutex |-> m, how |-> how, config |-> config]
  OBVIOUS
<1>2. c \in Calls /\ c.fn = "try" /\ c.mutex = m /\ m # Special
  BY <1>1, LockAssumption DEF Calls
<1>3. /\ CanCall(t) /\ Call(t, c)
      /\ current_timedlockset' = current_timedlockset /\ lock_clock' = lock_clock
      /\ try_lock_mutex' = [try_lock_mutex EXCEPT ![t] = m]
      /\ out' = out /\ mode' = mode
      /\ phantom' = phantom /\ unrecorded' = unrecorded /\ window' = window
  BY <1>1 DEF TryLockBefore
<1>4. Typed /\ Stamped(t) /\ Nested(t) /\ Between(t)
  BY DEF WrapInv
<1>5. /\ try_lock_mutex' \in [Thread -> Mutex \cup {NoMutex}]
      /\ try_lock_mutex'[t] = m
      /\ \A u \in Thread : u # t => try_lock_mutex'[u] = try_lock_mutex[u]
  BY <1>3, <1>4 DEF Typed
<1>6. /\ calls' \in [Thread -> Seq(Calls)]
      /\ \A u \in Thread : u # t => calls'[u] = calls[u]
  BY <1>2, <1>3, <1>4, Called
<1>7. /\ Innermost(t, "lock") = {} /\ Innermost(t, "unlock") = {}
      /\ Innermost(t, "lock")' = {l \in Mutex : c.fn = "lock" /\ c.mutex = l}
      /\ Innermost(t, "unlock")' = {l \in Mutex : c.fn = "unlock" /\ c.mutex = l}
      /\ Held(t)' = Held(t) \cup ({Special} \cap {c.mutex})
  BY <1>2, <1>3, <1>4, CallSets
<1>8. /\ Innermost(t, "lock")' = {} /\ Innermost(t, "unlock")' = {}
      /\ Held(t)' = Held(t)
  BY <1>2, <1>7
<1>9. Typed'
  BY <1>3, <1>4, <1>5, <1>6 DEF Typed
<1>10. Nested(t)'
  BY <1>2, <1>3, <1>4, <1>5, CallNested
<1>11. Recorded(t)' = Recorded(t) /\ Stamped(t)'
  BY <1>3, <1>4 DEF Recorded, Stamped
<1>12. Between(t)'
  BY <1>3, <1>4, <1>7, <1>8, <1>11 DEF Between
<1>13. Others(t)
  BY <1>3, <1>5, <1>6 DEF Others
<1>14. QED BY <1>9, <1>10, <1>11, <1>12, <1>13, OneThread

LEMMA UnlockBeforeKeeps ==
  ASSUME WrapInv, NEW t \in Thread, NEW m \in Mutex, UnlockBefore(t, m)
  PROVE  WrapInv' /\ Others(t)
<1>1. PICK c : c = [fn |-> "unlock", mutex |-> m]
  OBVIOUS
<1>2. c \in Calls /\ c.fn = "unlock" /\ c.mutex = m /\ m # Special
  BY <1>1, LockAssumption DEF Calls
<1>3. /\ CanCall(t) /\ Erase(t, m) /\ Call(t, c)
      /\ try_lock_mutex' = try_lock_mutex /\ out' = out /\ mode' = mode
      /\ phantom' = [phantom EXCEPT ![t] = phantom[t] \ {m}]
      /\ unrecorded' = [unrecorded EXCEPT ![t] = unrecorded[t] \ {m}]
      /\ window' = window
  BY <1>1 DEF UnlockBefore
<1>4. Typed /\ Stamped(t) /\ Nested(t) /\ Between(t)
  BY DEF WrapInv
<1>5. /\ current_timedlockset' = [u \in Thread |-> current_timedlockset'[u]]
      /\ lock_clock' = lock_clock
      /\ \A u \in Thread : u # t =>
           current_timedlockset'[u] = current_timedlockset[u]
      /\ Stamped(t)' /\ Recorded(t)' = Recorded(t) \ {m}
  BY <1>3, <1>4, Erasure
<1>6. /\ calls' \in [Thread -> Seq(Calls)]
      /\ \A u \in Thread : u # t => calls'[u] = calls[u]
  BY <1>2, <1>3, <1>4, Called
<1>7. /\ Innermost(t, "lock") = {} /\ Innermost(t, "unlock") = {}
      /\ Innermost(t, "lock")' = {l \in Mutex : c.fn = "lock" /\ c.mutex = l}
      /\ Innermost(t, "unlock")' = {l \in Mutex : c.fn = "unlock" /\ c.mutex = l}
      /\ Held(t)' = Held(t) \cup ({Special} \cap {c.mutex})
  BY <1>2, <1>3, <1>4, CallSets
<1>8. /\ Innermost(t, "lock")' = {} /\ Innermost(t, "unlock")' = {m}
      /\ Held(t)' = Held(t)
  BY <1>2, <1>7
<1>9. /\ phantom' \in [Thread -> SUBSET Mutex]
      /\ unrecorded' \in [Thread -> SUBSET (Mutex \cup {Special})]
      /\ phantom'[t] = phantom[t] \ {m} /\ unrecorded'[t] = unrecorded[t] \ {m}
      /\ \A u \in Thread : u # t => /\ phantom'[u] = phantom[u]
                                    /\ unrecorded'[u] = unrecorded[u]
  BY <1>3, <1>4 DEF Typed
<1>10. Typed'
  BY <1>3, <1>4, <1>5, <1>6, <1>9 DEF Typed
<1>11. Nested(t)'
  BY <1>2, <1>3, <1>4, CallNested
<1>12. Between(t)'
  BY <1>4, <1>5, <1>7, <1>8, <1>9 DEF Between
<1>13. Others(t)
  BY <1>3, <1>5, <1>6, <1>9 DEF Others
<1>14. QED BY <1>5, <1>10, <1>11, <1>12, <1>13, OneThread

LEMMA TraceAdqRelBeforeKeeps ==
  ASSUME WrapInv, NEW t \in Thread, TraceAdqRelBefore(t)
  PROVE  WrapInv' /\ Others(t)
<1>1. PICK c : c = [fn |-> "adq_rel", mutex |-> Special]
  OBVIOUS
<1>2. c \in Calls /\ c.fn = "adq_rel" /\ c.mutex = Special
  BY <1>1 DEF Calls
<1>3. /\ CanCall(t) /\ Record(t, Special) /\ Call(t, c)
      /\ try_lock_mutex' = try_lock_mutex /\ out' = out /\ mode' = mode
      /\ phantom' = phantom /\ unrecorded' = unrecorded /\ window' = window
  BY <1>1 DEF TraceAdqRelBefore
<1>4. Typed /\ Stamped(t) /\ Nested(t) /\ Between(t) /\ Special \in Locks
  BY DEF WrapInv, Locks
<1>5. /\ current_timedlockset' = [u \in Thread |-> current_timedlockset'[u]]
      /\ lock_clock' \in [Thread -> Nat]
      /\ \A u \in Thread : u # t =>
           /\ current_timedlockset'[u] = current_timedlockset[u]
           /\ lock_clock'[u] = lock_clock[u]
      /\ Stamped(t)' /\ Recorded(t)' = Recorded(t) \cup {Special}
  BY <1>3, <1>4, Recording
<1>6. /\ calls' \in [Thread -> Seq(Calls)]
      /\ \A u \in Thread : u # t => calls'[u] = calls[u]
  BY <1>2, <1>3, <1>4, Called
<1>7. /\ Innermost(t, "lock") = {} /\ Innermost(t, "unlock") = {}
      /\ Innermost(t, "lock")' = {l \in Mutex : c.fn = "lock" /\ c.mutex = l}
      /\ Innermost(t, "unlock")' = {l \in Mutex : c.fn = "unlock" /\ c.mutex = l}
      /\ Held(t)' = Held(t) \cup ({Special} \cap {c.mutex})
  BY <1>2, <1>3, <1>4, CallSets
<1>8. /\ Innermost(t, "lock")' = {} /\ Innermost(t, "unlock")' = {}
      /\ Held(t)' = Held(t) \cup {Special}
  BY <1>2, <1>7
<1>9. Typed'
  BY <1>3, <1>4, <1>5, <1>6 DEF Typed
<1>10. Nested(t)'
  BY <1>2, <1>3, <1>4, CallNested
<1>11. Between(t)'
  BY <1>3, <1>4, <1>5, <1>7, <1>8 DEF Between
<1>12. Others(t)
  BY <1>3, <1>5, <1>6 DEF Others
<1>13. QED BY <1>5, <1>9, <1>10, <1>11, <1>12, OneThread

(* A return leaves the calls around it nested. *)
LEMMA ReturnNested ==
  ASSUME Typed, NEW t \in Thread, Nested(t), calls[t] # <<>>, Return(t),
         try_lock_mutex' = try_lock_mutex
  PROVE  Nested(t)'
<1>1. /\ Len(calls[t]) \in Nat /\ Len(calls[t]) >= 1
      /\ Len(calls'[t]) = Len(calls[t]) - 1
      /\ \A i \in 1 .. Len(calls[t]) - 1 : calls'[t][i] = calls[t][i]
  BY Returned
<1>2. QED BY <1>1, SMTT(30) DEF Nested

LEMMA LockReturnKeeps ==
  ASSUME WrapInv, NEW t \in Thread, LockReturn(t)
  PROVE  WrapInv' /\ Others(t)
<1>1. PICK c : c = Last(calls[t])
  OBVIOUS
<1>2. /\ calls[t] # <<>> /\ c.fn = "lock" /\ Return(t)
      /\ mode' = [mode EXCEPT ![t][c.mutex] = c.how]
      /\ phantom' = [phantom EXCEPT ![t] = phantom[t] \ {c.mutex}]
      /\ current_timedlockset' = current_timedlockset /\ lock_clock' = lock_clock
      /\ try_lock_mutex' = try_lock_mutex /\ out' = out
      /\ unrecorded' = unrecorded /\ window' = window
  BY <1>1 DEF LockReturn, In, tool
<1>3. Typed /\ Stamped(t) /\ Nested(t) /\ Between(t)
  BY DEF WrapInv
<1>4. /\ calls' \in [Thread -> Seq(Calls)]
      /\ \A u \in Thread : u # t => calls'[u] = calls[u]
      /\ c \in Calls
  BY <1>1, <1>2, <1>3, Returned
<1>5. c.mutex \in Mutex /\ c.mutex # Special /\ c.how \in Modes
  BY <1>2, <1>4, CallFacts, LockAssumption
<1>6. /\ mode' \in [Thread -> [Mutex -> Modes \cup {"free"}]]
      /\ \A u \in Thread : u # t => mode'[u] = mode[u]
      /\ \A l \in Mutex : mode'[t][l] = IF l = c.mutex THEN c.how ELSE mode[t][l]
      /\ c.how # "free"
  BY <1>2, <1>3, <1>5 DEF Typed, Modes
<1>7. /\ phantom' \in [Thread -> SUBSET Mutex]
      /\ phantom'[t] = phantom[t] \ {c.mutex}
      /\ \A u \in Thread : u # t => phantom'[u] = phantom[u]
  BY <1>2, <1>3 DEF Typed
<1>8. /\ Innermost(t, "lock")' = {} /\ Innermost(t, "unlock")' = {}
      /\ Innermost(t, "lock") = {l \in Mutex : c.fn = "lock" /\ c.mutex = l}
      /\ Innermost(t, "unlock") = {l \in Mutex : c.fn = "unlock" /\ c.mutex = l}
      /\ \A l \in Mutex : l \in Held(t) <=> mode[t][l] # "free"
      /\ \A l \in Mutex : l \in Held(t)' <=> mode'[t][l] # "free"
      /\ Held(t) \subseteq Locks /\ Held(t)' \subseteq Locks
      /\ Special \in Held(t)' <=> Special \in Held(t)
  BY <1>1, <1>2, <1>3, <1>5, ReturnSets
<1>9. Innermost(t, "lock") = {c.mutex} /\ Innermost(t, "unlock") = {}
  BY <1>2, <1>5, <1>8
<1>10. Held(t)' = Held(t) \cup {c.mutex}
  BY <1>5, <1>6, <1>8 DEF Locks
<1>11. Typed'
  BY <1>2, <1>3, <1>4, <1>6, <1>7 DEF Typed
<1>12. Nested(t)'
  BY <1>2, <1>3, ReturnNested
<1>13. Recorded(t)' = Recorded(t) /\ Stamped(t)'
  BY <1>2, <1>3 DEF Recorded, Stamped
<1>14. Between(t)'
  BY <1>2, <1>3, <1>7, <1>8, <1>9, <1>10, <1>13 DEF Between
<1>15. Others(t)
  BY <1>2, <1>4, <1>6, <1>7 DEF Others
<1>16. QED BY <1>11, <1>12, <1>13, <1>14, <1>15, OneThread

LEMMA LockFailKeeps ==
  ASSUME WrapInv, NEW t \in Thread, LockFail(t)
  PROVE  WrapInv' /\ Others(t)
<1>1. PICK c : c = Last(calls[t])
  OBVIOUS
<1>2. /\ calls[t] # <<>> /\ c.fn = "lock" /\ Return(t)
      /\ phantom' = [phantom EXCEPT ![t] = phantom[t] \cup {c.mutex}]
      /\ current_timedlockset' = current_timedlockset /\ lock_clock' = lock_clock
      /\ try_lock_mutex' = try_lock_mutex /\ out' = out /\ mode' = mode
      /\ unrecorded' = unrecorded /\ window' = window
  BY <1>1 DEF LockFail, In, tool
<1>3. Typed /\ Stamped(t) /\ Nested(t) /\ Between(t)
  BY DEF WrapInv
<1>4. /\ calls' \in [Thread -> Seq(Calls)]
      /\ \A u \in Thread : u # t => calls'[u] = calls[u]
      /\ c \in Calls
  BY <1>1, <1>2, <1>3, Returned
<1>5. c.mutex \in Mutex /\ c.mutex # Special
  BY <1>2, <1>4, CallFacts, LockAssumption
<1>6. /\ phantom' \in [Thread -> SUBSET Mutex]
      /\ phantom'[t] = phantom[t] \cup {c.mutex}
      /\ \A u \in Thread : u # t => phantom'[u] = phantom[u]
  BY <1>2, <1>3, <1>5 DEF Typed
<1>7. /\ Innermost(t, "lock")' = {} /\ Innermost(t, "unlock")' = {}
      /\ Innermost(t, "lock") = {l \in Mutex : c.fn = "lock" /\ c.mutex = l}
      /\ Innermost(t, "unlock") = {l \in Mutex : c.fn = "unlock" /\ c.mutex = l}
      /\ \A l \in Mutex : l \in Held(t) <=> mode[t][l] # "free"
      /\ \A l \in Mutex : l \in Held(t)' <=> mode'[t][l] # "free"
      /\ Held(t) \subseteq Locks /\ Held(t)' \subseteq Locks
      /\ Special \in Held(t)' <=> Special \in Held(t)
  BY <1>1, <1>2, <1>3, <1>5, ReturnSets
<1>8. Innermost(t, "lock") = {c.mutex} /\ Innermost(t, "unlock") = {}
  BY <1>2, <1>5, <1>7
<1>9. Held(t)' = Held(t)
  <2>1. \A l \in Mutex : mode'[t][l] = mode[t][l]
    BY <1>2
  <2>2. QED BY <1>7, <2>1 DEF Locks
<1>10. Typed'
  BY <1>2, <1>3, <1>4, <1>6 DEF Typed
<1>11. Nested(t)'
  BY <1>2, <1>3, ReturnNested
<1>12. Recorded(t)' = Recorded(t) /\ Stamped(t)'
  BY <1>2, <1>3 DEF Recorded, Stamped
<1>13. Between(t)'
  BY <1>2, <1>3, <1>6, <1>7, <1>8, <1>9, <1>12 DEF Between
<1>14. Others(t)
  BY <1>2, <1>4, <1>6 DEF Others
<1>15. QED BY <1>10, <1>11, <1>12, <1>13, <1>14, OneThread

LEMMA UnlockReturnKeeps ==
  ASSUME WrapInv, NEW t \in Thread, UnlockReturn(t)
  PROVE  WrapInv' /\ Others(t)
<1>1. PICK c : c = Last(calls[t])
  OBVIOUS
<1>2. /\ calls[t] # <<>> /\ c.fn = "unlock" /\ Return(t)
      /\ mode' = [mode EXCEPT ![t][c.mutex] = "free"]
      /\ current_timedlockset' = current_timedlockset /\ lock_clock' = lock_clock
      /\ try_lock_mutex' = try_lock_mutex /\ out' = out
      /\ phantom' = phantom /\ unrecorded' = unrecorded /\ window' = window
  BY <1>1 DEF UnlockReturn, In, tool, ghost
<1>3. Typed /\ Stamped(t) /\ Nested(t) /\ Between(t)
  BY DEF WrapInv
<1>4. /\ calls' \in [Thread -> Seq(Calls)]
      /\ \A u \in Thread : u # t => calls'[u] = calls[u]
      /\ c \in Calls
  BY <1>1, <1>2, <1>3, Returned
<1>5. c.mutex \in Mutex /\ c.mutex # Special
  BY <1>2, <1>4, CallFacts, LockAssumption
<1>6. /\ mode' \in [Thread -> [Mutex -> Modes \cup {"free"}]]
      /\ \A u \in Thread : u # t => mode'[u] = mode[u]
      /\ \A l \in Mutex : mode'[t][l] = IF l = c.mutex THEN "free" ELSE mode[t][l]
  BY <1>2, <1>3, <1>5 DEF Typed
<1>7. /\ Innermost(t, "lock")' = {} /\ Innermost(t, "unlock")' = {}
      /\ Innermost(t, "lock") = {l \in Mutex : c.fn = "lock" /\ c.mutex = l}
      /\ Innermost(t, "unlock") = {l \in Mutex : c.fn = "unlock" /\ c.mutex = l}
      /\ \A l \in Mutex : l \in Held(t) <=> mode[t][l] # "free"
      /\ \A l \in Mutex : l \in Held(t)' <=> mode'[t][l] # "free"
      /\ Held(t) \subseteq Locks /\ Held(t)' \subseteq Locks
      /\ Special \in Held(t)' <=> Special \in Held(t)
  BY <1>1, <1>2, <1>3, <1>5, ReturnSets
<1>8. Innermost(t, "lock") = {} /\ Innermost(t, "unlock") = {c.mutex}
  BY <1>2, <1>5, <1>7
<1>9. Held(t)' = Held(t) \ {c.mutex}
  BY <1>5, <1>6, <1>7 DEF Locks
<1>10. Typed'
  BY <1>2, <1>3, <1>4, <1>6 DEF Typed
<1>11. Nested(t)'
  BY <1>2, <1>3, ReturnNested
<1>12. Recorded(t)' = Recorded(t) /\ Stamped(t)'
  BY <1>2, <1>3 DEF Recorded, Stamped
<1>13. Between(t)'
  BY <1>2, <1>3, <1>7, <1>8, <1>9, <1>12 DEF Between
<1>14. Others(t)
  BY <1>2, <1>4, <1>6 DEF Others
<1>15. QED BY <1>10, <1>11, <1>12, <1>13, <1>14, OneThread

LEMMA TraceAdqRelAfterKeeps ==
  ASSUME WrapInv, NEW t \in Thread, TraceAdqRelAfter(t)
  PROVE  WrapInv' /\ Others(t)
<1>1. PICK c : c = Last(calls[t])
  OBVIOUS
<1>2. /\ calls[t] # <<>> /\ c.fn = "adq_rel" /\ Return(t) /\ Erase(t, Special)
      /\ try_lock_mutex' = try_lock_mutex /\ out' = out /\ mode' = mode
      /\ phantom' = phantom /\ window' = window
  BY <1>1 DEF TraceAdqRelAfter, In
<1>3. Typed /\ Stamped(t) /\ Nested(t) /\ Between(t)
  BY DEF WrapInv
<1>4. /\ calls' \in [Thread -> Seq(Calls)]
      /\ \A u \in Thread : u # t => calls'[u] = calls[u]
      /\ c \in Calls
  BY <1>1, <1>2, <1>3, Returned
<1>5. c.mutex = Special /\ Special \notin Mutex
  BY <1>2, <1>4, CallFacts, LockAssumption
<1>6. /\ current_timedlockset' = [u \in Thread |-> current_timedlockset'[u]]
      /\ lock_clock' = lock_clock
      /\ \A u \in Thread : u # t =>
           current_timedlockset'[u] = current_timedlockset[u]
      /\ Stamped(t)' /\ Recorded(t)' = Recorded(t) \ {Special}
  BY <1>2, <1>3, Erasure
<1>7. PICK others \in BOOLEAN :
        others <=> \E i \in DOMAIN calls'[t] : calls'[t][i].fn = "adq_rel"
  OBVIOUS
<1>8. unrecorded' = [unrecorded EXCEPT ![t] =
                       IF others THEN unrecorded[t] \cup {Special}
                                 ELSE unrecorded[t] \ {Special}]
  BY <1>7 DEF TraceAdqRelAfter
<1>9. /\ unrecorded' \in [Thread -> SUBSET (Mutex \cup {Special})]
      /\ \A u \in Thread : u # t => unrecorded'[u] = unrecorded[u]
      /\ unrecorded[t] \ {Special} \subseteq unrecorded'[t]
      /\ others => Special \in unrecorded'[t]
  BY <1>3, <1>8 DEF Typed
<1>10. Special \in InProgress(t)' => others
  <2>1. calls'[t] \in Seq(Calls)
    BY <1>4
  <2>2. \A i \in DOMAIN calls'[t] : calls'[t][i] \in Calls
    BY <2>1
  <2>3. \A i \in DOMAIN calls'[t] :
          calls'[t][i].mutex = Special => calls'[t][i].fn = "adq_rel"
    BY <2>2, CallFacts
  <2>4. QED BY <1>7, <2>3 DEF InProgress, Range
<1>11. /\ Innermost(t, "lock")' = {} /\ Innermost(t, "unlock")' = {}
       /\ Innermost(t, "lock") = {l \in Mutex : c.fn = "lock" /\ c.mutex = l}
       /\ Innermost(t, "unlock") = {l \in Mutex : c.fn = "unlock" /\ c.mutex = l}
       /\ Special \in Held(t)' <=> Special \in InProgress(t)'
       /\ \A l \in Mutex : l \in Held(t) <=> mode[t][l] # "free"
       /\ \A l \in Mutex : l \in Held(t)' <=> mode'[t][l] # "free"
       /\ Held(t) \subseteq Locks /\ Held(t)' \subseteq Locks
  BY <1>1, <1>2, <1>3, ReturnSets
<1>12. Innermost(t, "lock") = {} /\ Innermost(t, "unlock") = {}
  BY <1>2, <1>11
<1>13. \A l \in Mutex : l \in Held(t)' <=> l \in Held(t)
  <2>1. \A l \in Mutex : mode'[t][l] = mode[t][l]
    BY <1>2
  <2>2. QED BY <1>11, <2>1
<1>14. Recorded(t)' \subseteq Held(t)' \cup phantom'[t]
  <2>1. Recorded(t) \subseteq Held(t) \cup phantom[t]
    BY <1>3, <1>12 DEF Between
  <2>2. QED BY <1>2, <1>6, <1>11, <1>13, <2>1 DEF Locks
<1>15. Held(t)' \subseteq Recorded(t)' \cup unrecorded'[t]
  <2>1. Held(t) \subseteq Recorded(t) \cup unrecorded[t]
    BY <1>3, <1>12 DEF Between
  <2>2. ASSUME NEW l \in Held(t)' PROVE l \in Recorded(t)' \cup unrecorded'[t]
    <3>1. CASE l = Special
      BY <1>9, <1>10, <1>11, <2>2, <3>1
    <3>2. CASE l # Special
      BY <1>6, <1>9, <1>11, <1>13, <2>1, <2>2, <3>2 DEF Locks
    <3>3. QED BY <3>1, <3>2
  <2>3. QED BY <2>2
<1>16. Between(t)'
  BY <1>11, <1>14, <1>15 DEF Between
<1>17. Typed'
  BY <1>2, <1>3, <1>4, <1>6, <1>9 DEF Typed
<1>18. Nested(t)'
  BY <1>2, <1>3, ReturnNested
<1>19. Others(t)
  BY <1>2, <1>4, <1>6, <1>9 DEF Others
<1>20. QED BY <1>6, <1>16, <1>17, <1>18, <1>19, OneThread

LEMMA AccessKeeps ==
  ASSUME WrapInv, NEW t \in Thread, Access(t)
  PROVE  WrapInv' /\ Others(t)
<1>1. tool' = tool /\ calls' = calls /\ out' = out /\ mode' = mode /\ ghost' = ghost
  BY DEF Access, Store, Load, Persist
<1>2. window' = [u \in Thread |-> window'[u]]
  <2>1. window = [u \in Thread |-> window[u]]
    BY DEF WrapInv, Typed
  <2>2. CASE Store(t)
    BY <2>1, <2>2 DEF Store
  <2>3. CASE Load(t)
    BY <2>3 DEF Load
  <2>4. CASE Persist(t)
    BY <2>1, <2>4 DEF Persist
  <2>5. QED BY <2>2, <2>3, <2>4 DEF Access
<1>3. Typed'
  BY <1>1, <1>2 DEF WrapInv, Typed, tool, ghost
<1>4. Others(t)
  BY <1>1 DEF Others, tool, ghost
<1>5. Stamped(t)' /\ Nested(t)'
  BY <1>1 DEF WrapInv, Stamped, Nested, tool
<1>6. Between(t)'
  BY <1>1 DEF WrapInv, Between, Recorded, Held, InProgress, Innermost, In, tool, ghost
<1>7. QED BY <1>3, <1>4, <1>5, <1>6, OneThread

(* The check of TryLockAfter agrees with what the configuration says.      *)
LEMMA CheckIsMeaning ==
  ASSUME NEW config \in TryFunctions, NEW result
  PROVE  ChecksOut(result, config) <=> Means(result, config)
<1>1. config.success_is_failure \in BOOLEAN
  BY LockAssumption
<1>2. QED BY <1>1 DEF ChecksOut, Means

LEMMA TryLockAfterKeeps ==
  ASSUME WrapInv, NEW t \in Thread, NEW result \in TryResults,
         NEW locktype \in LockTypes, TryLockAfter(t, result, locktype)
  PROVE  WrapInv' /\ Others(t)
<1>1. PICK c : c = Last(calls[t])
  OBVIOUS
<1>2. PICK slot : slot = try_lock_mutex[t]
  OBVIOUS
<1>3. PICK seen :
        seen = IF c.config.use_result_arg THEN out'[t][slot] ELSE result
  OBVIOUS
<1>4. PICK taken \in BOOLEAN : taken <=> Means(result, c.config)
  OBVIOUS
<1>5. PICK records \in BOOLEAN :
        records <=> ChecksOut(seen, c.config) /\ KnownType(locktype)
  OBVIOUS
<1>6. /\ calls[t] # <<>> /\ c.fn = "try" /\ Return(t)
      /\ mode' = IF taken THEN [mode EXCEPT ![t][c.mutex] = c.how] ELSE mode
      /\ out' = IF c.config.use_result_arg
                  THEN [out EXCEPT ![t][c.mutex] = result] ELSE out
      /\ IF records THEN Record(t, slot)
                    ELSE UNCHANGED <<current_timedlockset, lock_clock>>
      /\ phantom' =
           [phantom EXCEPT ![t] =
              IF records /\ slot = c.mutex /\ taken THEN phantom[t] \ {slot}
              ELSE IF slot # c.mutex THEN phantom[t] \cup {slot}
              ELSE phantom[t]]
      /\ unrecorded' =
           [unrecorded EXCEPT ![t] =
              IF taken /\ (slot # c.mutex \/ locktype \notin LockType)
                THEN unrecorded[t] \cup {c.mutex} ELSE unrecorded[t]]
      /\ try_lock_mutex' = try_lock_mutex /\ window' = window
  BY <1>1, <1>2, <1>3, <1>4, <1>5 DEF TryLockAfter, In
<1>7. Typed /\ Stamped(t) /\ Nested(t) /\ Between(t)
  BY DEF WrapInv
<1>8. /\ calls' \in [Thread -> Seq(Calls)]
      /\ \A u \in Thread : u # t => calls'[u] = calls[u]
      /\ c \in Calls /\ c = calls[t][Len(calls[t])]
      /\ Len(calls[t]) \in Nat /\ Len(calls[t]) >= 1
  BY <1>1, <1>6, <1>7, Returned
<1>9. /\ c.mutex \in Mutex /\ c.mutex # Special /\ c.how \in Modes
      /\ c.config \in TryFunctions
  BY <1>6, <1>8, CallFacts, LockAssumption
<1>10. slot \in Mutex /\ slot \in Locks /\ slot # Special
  <2>1. Len(calls[t]) \in 1 .. Len(calls[t])
    BY <1>8
  <2>2. QED BY <1>2, <1>6, <1>7, <1>8, <2>1, LockAssumption DEF Nested, Locks
<1>11. /\ mode' \in [Thread -> [Mutex -> Modes \cup {"free"}]]
       /\ \A u \in Thread : u # t => mode'[u] = mode[u]
       /\ \A l \in Mutex :
            mode'[t][l] = IF taken /\ l = c.mutex THEN c.how ELSE mode[t][l]
       /\ c.how # "free"
  <2>1. mode \in [Thread -> [Mutex -> Modes \cup {"free"}]] /\ c.how # "free"
    BY <1>7, <1>9 DEF Typed, Modes
  <2>2. CASE taken
    BY <1>6, <1>9, <2>1, <2>2
  <2>3. CASE ~taken
    BY <1>6, <1>9, <2>1, <2>3
  <2>4. QED BY <2>2, <2>3
<1>12. /\ out' \in [Thread -> [Mutex -> TryResults]]
       /\ slot = c.mutex => seen = result
  <2>1. out \in [Thread -> [Mutex -> TryResults]]
    BY <1>7 DEF Typed
  <2>2. CASE c.config.use_result_arg
    BY <1>3, <1>6, <1>9, <2>1, <2>2
  <2>3. CASE ~c.config.use_result_arg
    BY <1>3, <1>6, <2>1, <2>3
  <2>4. QED BY <2>2, <2>3
<1>13. /\ current_timedlockset' = [u \in Thread |-> current_timedlockset'[u]]
       /\ lock_clock' \in [Thread -> Nat]
       /\ \A u \in Thread : u # t =>
            /\ current_timedlockset'[u] = current_timedlockset[u]
            /\ lock_clock'[u] = lock_clock[u]
       /\ Stamped(t)'
       /\ Recorded(t)' = Recorded(t) \cup (IF records THEN {slot} ELSE {})
  <2>1. CASE records
    <3>1. Record(t, slot)
      BY <1>6, <2>1
    <3>2. Recorded(t)' = Recorded(t) \cup {slot}
      BY <1>7, <1>10, <3>1, Recording
    <3>3. /\ current_timedlockset' = [u \in Thread |-> current_timedlockset'[u]]
          /\ lock_clock' \in [Thread -> Nat]
          /\ \A u \in Thread : u # t =>
               /\ current_timedlockset'[u] = current_timedlockset[u]
               /\ lock_clock'[u] = lock_clock[u]
          /\ Stamped(t)'
      BY <1>7, <1>10, <3>1, Recording
    <3>4. QED BY <2>1, <3>2, <3>3
  <2>2. CASE ~records
    <3>1. current_timedlockset' = current_timedlockset /\ lock_clock' = lock_clock
      BY <1>6, <2>2
    <3>2. Recorded(t)' = Recorded(t) /\ Stamped(t)'
      BY <1>7, <3>1 DEF Recorded, Stamped
    <3>3. QED BY <1>7, <2>2, <3>1, <3>2 DEF Typed
  <2>3. QED BY <2>1, <2>2
<1>14. /\ phantom' \in [Thread -> SUBSET Mutex]
       /\ \A u \in Thread : u # t => phantom'[u] = phantom[u]
       /\ slot # c.mutex => phantom'[t] = phantom[t] \cup {slot}
       /\ phantom[t] \ (IF taken THEN {c.mutex} ELSE {}) \subseteq phantom'[t]
  <2>1. phantom \in [Thread -> SUBSET Mutex]
    BY <1>7 DEF Typed
  <2>2. CASE records /\ slot = c.mutex /\ taken
    BY <1>6, <2>1, <2>2
  <2>3. CASE slot # c.mutex
    BY <1>6, <1>10, <2>1, <2>3
  <2>4. CASE slot = c.mutex /\ ~(records /\ taken)
    BY <1>6, <2>1, <2>4
  <2>5. QED BY <2>2, <2>3, <2>4
<1>15. /\ unrecorded' \in [Thread -> SUBSET (Mutex \cup {Special})]
       /\ \A u \in Thread : u # t => unrecorded'[u] = unrecorded[u]
       /\ unrecorded[t] \subseteq unrecorded'[t]
       /\ taken /\ (slot # c.mutex \/ locktype \notin LockType)
            => c.mutex \in unrecorded'[t]
  BY <1>6, <1>7, <1>9 DEF Typed
<1>16. /\ Innermost(t, "lock")' = {} /\ Innermost(t, "unlock")' = {}
       /\ Innermost(t, "lock") = {l \in Mutex : c.fn = "lock" /\ c.mutex = l}
       /\ Innermost(t, "unlock") = {l \in Mutex : c.fn = "unlock" /\ c.mutex = l}
       /\ \A l \in Mutex : l \in Held(t) <=> mode[t][l] # "free"
       /\ \A l \in Mutex : l \in Held(t)' <=> mode'[t][l] # "free"
       /\ Held(t) \subseteq Locks /\ Held(t)' \subseteq Locks
       /\ Special \in Held(t)' <=> Special \in Held(t)
  BY <1>1, <1>6, <1>7, <1>9, ReturnSets
<1>17. Innermost(t, "lock") = {} /\ Innermost(t, "unlock") = {}
  BY <1>6, <1>16
<1>18. Held(t)' = Held(t) \cup (IF taken THEN {c.mutex} ELSE {})
  <2>1. \A l \in Mutex :
          l \in Held(t)' <=> l \in Held(t) \/ (taken /\ l = c.mutex)
    BY <1>11, <1>16
  <2>2. QED BY <1>9, <1>16, <2>1 DEF Locks
<1>19. slot = c.mutex => (records <=> taken /\ KnownType(locktype))
  BY <1>4, <1>5, <1>9, <1>12, CheckIsMeaning
<1>20. Recorded(t)' \subseteq Held(t)' \cup phantom'[t]
  <2>1. Recorded(t) \subseteq Held(t) \cup phantom[t]
    BY <1>7, <1>17 DEF Between
  <2>2. records => slot \in Held(t)' \cup phantom'[t]
    BY <1>14, <1>18, <1>19
  <2>3. Recorded(t) \subseteq Held(t)' \cup phantom'[t]
    BY <1>14, <1>18, <2>1
  <2>4. QED BY <1>13, <2>2, <2>3
<1>21. Held(t)' \subseteq Recorded(t)' \cup unrecorded'[t]
  <2>1. Held(t) \subseteq Recorded(t) \cup unrecorded[t]
    BY <1>7, <1>17 DEF Between
  <2>2. KnownType(locktype) <=> locktype \in LockType
    BY DEF KnownType, LockType
  <2>3. taken => c.mutex \in Recorded(t)' \cup unrecorded'[t]
    BY <1>13, <1>15, <1>19, <2>2
  <2>4. Held(t) \subseteq Recorded(t)' \cup unrecorded'[t]
    BY <1>13, <1>15, <2>1
  <2>5. QED BY <1>18, <2>3, <2>4
<1>22. Between(t)'
  BY <1>16, <1>20, <1>21 DEF Between
<1>23. Typed'
  BY <1>6, <1>7, <1>8, <1>11, <1>12, <1>13, <1>14, <1>15 DEF Typed
<1>24. Nested(t)'
  BY <1>6, <1>7, ReturnNested
<1>25. Others(t)
  BY <1>6, <1>8, <1>11, <1>13, <1>14, <1>15 DEF Others
<1>26. QED BY <1>13, <1>22, <1>23, <1>24, <1>25, OneThread

LEMMA WrapInit ==
  ASSUME Init
  PROVE  WrapInv
<1>1. /\ calls \in [Thread -> Seq(Calls)] /\ \A t \in Thread : calls[t] = <<>>
  BY DEF Init
<1>2. Typed
  BY <1>1 DEF Init, Typed, TryResults
<1>3. ASSUME NEW t \in Thread PROVE Stamped(t) /\ Nested(t) /\ Between(t)
  <2>1. DOMAIN current_timedlockset[t] = {}
    BY DEF Init, NoLocks
  <2>2. current_timedlockset[t] \in [{} -> 0 .. lock_clock[t] - 1]
    BY DEF Init, NoLocks
  <2>3. Stamped(t)
    BY <2>1, <2>2 DEF Stamped, IsTimedLockset
  <2>4. Nested(t)
    BY <1>1 DEF Nested
  <2>5. InProgress(t) = {} /\ Innermost(t, "lock") = {} /\ Innermost(t, "unlock") = {}
    BY <1>1 DEF InProgress, Range, Innermost, In
  <2>6. Held(t) = {} /\ Recorded(t) = {}
    BY <2>1, <2>5 DEF Held, Recorded, Init
  <2>7. QED BY <2>3, <2>4, <2>5, <2>6 DEF Between
<1>4. QED BY <1>2, <1>3 DEF WrapInv

LEMMA WrapStep ==
  ASSUME WrapInv, [Next]_vars
  PROVE  WrapInv'
<1>1. CASE UNCHANGED vars
  <2>1. tool' = tool /\ calls' = calls /\ out' = out /\ mode' = mode /\ ghost' = ghost
        /\ window' = window
    BY <1>1 DEF vars
  <2>2. Typed'
    BY <2>1 DEF WrapInv, Typed, tool, ghost
  <2>3. ASSUME NEW t \in Thread PROVE Stamped(t)' /\ Nested(t)' /\ Between(t)'
    <3>1. Stamped(t)' /\ Nested(t)'
      BY <2>1 DEF WrapInv, Stamped, Nested, tool
    <3>2. Between(t)'
      BY <2>1 DEF WrapInv, Between, Recorded, Held, InProgress, Innermost, In,
                  tool, ghost
    <3>3. QED BY <3>1, <3>2
  <2>4. QED BY <2>2, <2>3 DEF WrapInv
<1>2. ASSUME NEW t \in Thread, LockCall(t) PROVE WrapInv'
  BY <1>2, LockBeforeKeeps, TryLockBeforeKeeps DEF LockCall
<1>3. ASSUME NEW t \in Thread, LockEnd(t) PROVE WrapInv'
  BY <1>3, LockReturnKeeps, LockFailKeeps, TryLockAfterKeeps DEF LockEnd
<1>4. ASSUME NEW t \in Thread, Unlock(t) PROVE WrapInv'
  BY <1>4, UnlockReturnKeeps, UnlockBeforeKeeps DEF Unlock
<1>5. ASSUME NEW t \in Thread, AdqRel(t) PROVE WrapInv'
  BY <1>5, TraceAdqRelBeforeKeeps, TraceAdqRelAfterKeeps DEF AdqRel
<1>6. ASSUME NEW t \in Thread, Access(t) PROVE WrapInv'
  BY <1>6, AccessKeeps
<1>7. QED BY <1>1, <1>2, <1>3, <1>4, <1>5, <1>6 DEF Next

(* WrapInv: between the lockset and the locks there is never more than the *)
(* call in progress and what the failures left.                            *)
THEOREM WrapInvariant == Spec => []WrapInv
<1>1. Init => WrapInv
  BY WrapInit
<1>2. WrapInv /\ [Next]_vars => WrapInv'
  BY WrapStep
<1>3. QED BY <1>1, <1>2, PTL DEF Spec

-----------------------------------------------------------------------------
(* Where a thread runs code of its own, nothing is between.                *)
LEMMA NothingBetween ==
  ASSUME NEW t \in Thread, OwnCode(t)
  PROVE  Innermost(t, "lock") = {} /\ Innermost(t, "unlock") = {}
  BY DEF OwnCode, In, Innermost

(* TypeOK: timestamps, the slot and the nesting of the calls are right     *)
(* whatever the routines of the lock functions do in whatever order.       *)
THEOREM WrapperTypes == Spec => []TypeOK
<1>1. WrapInv => TypeOK
  <2>1. SUFFICES ASSUME WrapInv, NEW t \in Thread
                 PROVE  /\ Stamped(t) /\ Nested(t) /\ Typed
                        /\ \A i \in DOMAIN calls[t] :
                             i < Len(calls[t]) => calls[t][i].fn \in {"try", "adq_rel"}
    BY DEF WrapInv, TypeOK, Stamped, Typed
  <2>2. calls[t] \in Seq(Calls) /\ Nested(t)
    BY <2>1 DEF WrapInv, Typed
  <2>3. DOMAIN calls[t] = 1 .. Len(calls[t]) /\ Len(calls[t]) \in Nat
    BY <2>2
  <2>4. QED BY <2>1, <2>2, <2>3 DEF WrapInv, Nested
<1>2. QED BY <1>1, WrapInvariant, PTL

(* RecordedAreHeld: at every access of every thread, the lockset the tool  *)
(* takes has no lock the thread does not hold, other than those a refused  *)
(* lock call or a nested try-lock left in it - for any number of threads   *)
(* and mutexes, any try functions and any nesting.                         *)
THEOREM LocksetsAreHeld == Spec => []RecordedAreHeld
<1>1. WrapInv => RecordedAreHeld
  BY NothingBetween DEF WrapInv, Between, RecordedAreHeld
<1>2. QED BY <1>1, WrapInvariant, PTL

(* HeldAreRecorded: at every access of every thread, the lockset has every *)
(* lock the thread holds, other than those a try-lock of no known type, a  *)
(* nested try-lock or a nested acquire-release function kept out of it.    *)
THEOREM HeldLocksAreSeen == Spec => []HeldAreRecorded
<1>1. WrapInv => HeldAreRecorded
  BY NothingBetween DEF WrapInv, Between, HeldAreRecorded
<1>2. QED BY <1>1, WrapInvariant, PTL

-----------------------------------------------------------------------------
(* Windows and the loads that happen in them                               *)

(* The library grants a lock to one thread, or shares it.                  *)
Exclusion ==
  \A t, u \in Thread, m \in Mutex :
    t # u /\ mode[t][m] = "exclusive" => mode[u][m] = "free"

(* While l is common to the start of the window w of t and to now, t has   *)
(* had it all along, so nobody has loaded under it.                        *)
Protects(t, w, l) ==
  l \in Mutex /\ mode[t][l] = "exclusive" /\ l \notin w.loads

Window(t, w) ==
  /\ w = [lockset |-> w.lockset, excused |-> w.excused, loads |-> w.loads]
  /\ \A l \in DOMAIN w.lockset : w.lockset[l] \in 0 .. lock_clock[t] - 1
  /\ \A l \in DOMAIN w.lockset \cap Recorded(t) :
       w.lockset[l] = current_timedlockset[t][l] /\ l \notin w.excused
         => Protects(t, w, l)

Windows == \A t \in Thread : \A w \in window[t] : Window(t, w)

WindowInv == Exclusion /\ Windows

(* What a step of t does to the locks of t: one it still has in its        *)
(* lockset it had before and keeps, or it has just recorded it.            *)
Kept(t) ==
  \A l \in Recorded(t)' :
    \/ /\ l \in Recorded(t) /\ current_timedlockset'[t][l] = current_timedlockset[t][l]
       /\ l \in Mutex /\ mode[t][l] = "exclusive" => mode'[t][l] = "exclusive"
    \/ current_timedlockset'[t][l] = lock_clock[t]

LEMMA KeptKeeps ==
  ASSUME Typed, Windows, NEW t \in Thread, Others(t), window' = window, Kept(t),
         lock_clock'[t] \in {lock_clock[t], lock_clock[t] + 1}
  PROVE  Windows'
<1>1. ASSUME NEW u \in Thread, NEW w \in window[u]
      PROVE  Window(u, w)'
  <2>1. Window(u, w)
    BY <1>1 DEF Windows
  <2>2. CASE u # t
    <3>1. /\ current_timedlockset'[u] = current_timedlockset[u]
          /\ lock_clock'[u] = lock_clock[u] /\ mode'[u] = mode[u]
      BY <2>2 DEF Others
    <3>2. QED BY <2>1, <3>1 DEF Window, Protects, Recorded
  <2>3. CASE u = t
    <3>1. lock_clock[t] \in Nat
      BY DEF Typed
    <3>2. \A l \in DOMAIN w.lockset : w.lockset[l] \in 0 .. lock_clock[t] - 1
      BY <2>1, <2>3 DEF Window
    <3>3. \A l \in DOMAIN w.lockset : w.lockset[l] \in 0 .. lock_clock'[t] - 1
      BY <3>1, <3>2
    <3>4. ASSUME NEW l \in DOMAIN w.lockset, l \in Recorded(t)',
                 w.lockset[l] = current_timedlockset'[t][l], l \notin w.excused
          PROVE  l \in Mutex /\ mode'[t][l] = "exclusive" /\ l \notin w.loads
      <4>1. w.lockset[l] # lock_clock[t]
        BY <3>1, <3>2
      <4>2. /\ l \in Recorded(t)
            /\ current_timedlockset'[t][l] = current_timedlockset[t][l]
            /\ l \in Mutex /\ mode[t][l] = "exclusive" => mode'[t][l] = "exclusive"
        BY <3>4, <4>1 DEF Kept
      <4>3. Protects(t, w, l)
        BY <2>1, <2>3, <3>4, <4>2 DEF Window
      <4>4. QED BY <4>2, <4>3 DEF Protects
    <3>5. w = [lockset |-> w.lockset, excused |-> w.excused, loads |-> w.loads]
      BY <2>1 DEF Window
    <3>6. Window(t, w)'
      BY <3>3, <3>4, <3>5 DEF Window, Protects
    <3>7. QED BY <2>3, <3>6
  <2>4. QED BY <2>2, <2>3
<1>2. QED BY <1>1 DEF Windows

(* A lock that is available is granted. *)
LEMMA Granted ==
  ASSUME Typed, Exclusion, NEW t \in Thread, NEW m \in Mutex, NEW how \in Modes,
         Available(t, m, how), mode' = [mode EXCEPT ![t][m] = how]
  PROVE  Exclusion'
<1>1. mode \in [Thread -> [Mutex -> Modes \cup {"free"}]]
  BY DEF Typed
<1>2. ASSUME NEW u \in Thread, NEW v \in Thread, NEW l \in Mutex, u # v,
             mode'[u][l] = "exclusive"
      PROVE  mode'[v][l] = "free"
  <2>1. CASE l # m
    <3>1. mode'[u][l] = mode[u][l] /\ mode'[v][l] = mode[v][l]
      BY <1>1, <2>1
    <3>2. QED BY <1>2, <3>1 DEF Exclusion
  <2>2. CASE l = m /\ u = t
    <3>1. how = "exclusive" /\ mode'[v][m] = mode[v][m]
      BY <1>1, <1>2, <2>2
    <3>2. QED BY <1>2, <2>2, <3>1 DEF Available
  <2>3. CASE l = m /\ u # t
    <3>1. mode'[u][m] = mode[u][m]
      BY <1>1, <2>3
    <3>2. mode[u][m] = "free" \/ mode[u][m] = "shared"
      BY <2>3 DEF Available
    <3>3. QED BY <1>2, <2>3, <3>1, <3>2
  <2>4. QED BY <2>1, <2>2, <2>3
<1>3. QED BY <1>2 DEF Exclusion

LEMMA SameModes ==
  ASSUME Exclusion, mode' = mode
  PROVE  Exclusion'
BY DEF Exclusion

(* The steps that record nothing. *)
LEMMA KeptAlone ==
  ASSUME Typed, NEW t \in Thread,
         current_timedlockset' = current_timedlockset, lock_clock' = lock_clock,
         \A l \in Recorded(t) \cap Mutex :
           mode[t][l] = "exclusive" => mode'[t][l] = "exclusive"
  PROVE  /\ Kept(t)
         /\ lock_clock'[t] \in {lock_clock[t], lock_clock[t] + 1}
BY DEF Kept, Recorded

LEMMA KeptByRecord ==
  ASSUME Typed, NEW t \in Thread, Stamped(t), NEW m \in Locks, Record(t, m),
         \A l \in (Recorded(t) \cap Mutex) \ {m} :
           mode[t][l] = "exclusive" => mode'[t][l] = "exclusive"
  PROVE  /\ Kept(t)
         /\ lock_clock'[t] \in {lock_clock[t], lock_clock[t] + 1}
<1>1. /\ Recorded(t)' = Recorded(t) \cup {m}
      /\ current_timedlockset'[t][m] = lock_clock[t]
      /\ \A l \in Recorded(t) \ {m} :
           current_timedlockset'[t][l] = current_timedlockset[t][l]
  BY Recording
<1>2. Kept(t)
  BY <1>1 DEF Kept
<1>3. lock_clock'[t] = lock_clock[t] + 1
  BY DEF Record, Typed
<1>4. QED BY <1>2, <1>3

LEMMA KeptByErase ==
  ASSUME Typed, NEW t \in Thread, Stamped(t), NEW m, Erase(t, m), mode' = mode
  PROVE  /\ Kept(t)
         /\ lock_clock'[t] \in {lock_clock[t], lock_clock[t] + 1}
<1>1. /\ Recorded(t)' = Recorded(t) \ {m} /\ lock_clock' = lock_clock
      /\ \A l \in Recorded(t) \ {m} :
           current_timedlockset'[t][l] = current_timedlockset[t][l]
  BY Erasure
<1>2. Kept(t)
  BY <1>1 DEF Kept
<1>3. QED BY <1>1, <1>2

LEMMA LockCallWindows ==
  ASSUME WrapInv, WindowInv, NEW t \in Thread, LockCall(t)
  PROVE  WindowInv'
<1>1. Typed /\ Stamped(t) /\ Exclusion /\ Windows
  BY DEF WrapInv, WindowInv
<1>2. ASSUME NEW m \in Mutex, NEW how \in Modes, LockBefore(t, m, how)
      PROVE  WindowInv'
  <2>1. Others(t)
    BY <1>2, LockBeforeKeeps
  <2>2. Record(t, m) /\ mode' = mode /\ window' = window /\ m \in Locks
    BY <1>2 DEF LockBefore, Locks
  <2>3. Kept(t) /\ lock_clock'[t] \in {lock_clock[t], lock_clock[t] + 1}
    BY <1>1, <2>2, KeptByRecord
  <2>4. QED BY <1>1, <2>1, <2>2, <2>3, KeptKeeps, SameModes DEF WindowInv
<1>3. ASSUME NEW m \in Mutex, NEW how \in Modes, NEW config \in TryFunctions,
             TryLockBefore(t, m, how, config)
      PROVE  WindowInv'
  <2>1. Others(t)
    BY <1>3, TryLockBeforeKeeps
  <2>2. /\ current_timedlockset' = current_timedlockset /\ lock_clock' = lock_clock
        /\ mode' = mode /\ window' = window
    BY <1>3 DEF TryLockBefore
  <2>3. Kept(t) /\ lock_clock'[t] \in {lock_clock[t], lock_clock[t] + 1}
    BY <1>1, <2>2, KeptAlone
  <2>4. QED BY <1>1, <2>1, <2>2, <2>3, KeptKeeps, SameModes DEF WindowInv
<1>4. QED BY <1>2, <1>3 DEF LockCall

LEMMA UnlockWindows ==
  ASSUME WrapInv, WindowInv, NEW t \in Thread, Unlock(t)
  PROVE  WindowInv'
<1>1. Typed /\ Stamped(t) /\ Nested(t) /\ Between(t) /\ Exclusion /\ Windows
  BY DEF WrapInv, WindowInv
<1>2. ASSUME NEW m \in Mutex, UnlockBefore(t, m) PROVE WindowInv'
  <2>1. Others(t)
    BY <1>2, UnlockBeforeKeeps
  <2>2. Erase(t, m) /\ mode' = mode /\ window' = window
    BY <1>2 DEF UnlockBefore
  <2>3. Kept(t) /\ lock_clock'[t] \in {lock_clock[t], lock_clock[t] + 1}
    BY <1>1, <2>2, KeptByErase
  <2>4. QED BY <1>1, <2>1, <2>2, <2>3, KeptKeeps, SameModes DEF WindowInv
<1>3. ASSUME UnlockReturn(t) PROVE WindowInv'
  <2>1. Others(t)
    BY <1>3, UnlockReturnKeeps
  <2>2. PICK m : m = Last(calls[t]).mutex
    OBVIOUS
  <2>3. /\ calls[t] # <<>> /\ Last(calls[t]).fn = "unlock" /\ Return(t)
        /\ mode' = [mode EXCEPT ![t][m] = "free"] /\ window' = window
        /\ current_timedlockset' = current_timedlockset /\ lock_clock' = lock_clock
    BY <1>3, <2>2 DEF UnlockReturn, In, tool
  <2>4. Last(calls[t]) \in Calls
    BY <1>1, <2>3, Returned
  <2>5. m \in Mutex
    BY <2>2, <2>3, <2>4, CallFacts
  <2>6. m \in Innermost(t, "unlock")
    BY <2>2, <2>3, <2>5 DEF Innermost, In
  <2>7. m \notin Recorded(t)
    BY <1>1, <2>6 DEF Between
  <2>8. \A u \in Thread, l \in Mutex :
          mode'[u][l] = IF u = t /\ l = m THEN "free" ELSE mode[u][l]
    BY <1>1, <2>3, <2>5 DEF Typed
  <2>9. \A l \in Mutex : l # m => mode'[t][l] = mode[t][l]
    BY <2>8
  <2>10. Kept(t) /\ lock_clock'[t] \in {lock_clock[t], lock_clock[t] + 1}
    BY <1>1, <2>3, <2>7, <2>9, KeptAlone
  <2>11. Exclusion'
    BY <1>1, <2>8 DEF Exclusion
  <2>12. QED BY <1>1, <2>1, <2>3, <2>10, <2>11, KeptKeeps DEF WindowInv
<1>4. QED BY <1>2, <1>3 DEF Unlock

LEMMA AdqRelWindows ==
  ASSUME WrapInv, WindowInv, NEW t \in Thread, AdqRel(t)
  PROVE  WindowInv'
<1>1. Typed /\ Stamped(t) /\ Exclusion /\ Windows
  BY DEF WrapInv, WindowInv
<1>2. ASSUME TraceAdqRelBefore(t) PROVE WindowInv'
  <2>1. Others(t)
    BY <1>2, TraceAdqRelBeforeKeeps
  <2>2. Record(t, Special) /\ mode' = mode /\ window' = window /\ Special \in Locks
    BY <1>2 DEF TraceAdqRelBefore, Locks
  <2>3. Kept(t) /\ lock_clock'[t] \in {lock_clock[t], lock_clock[t] + 1}
    BY <1>1, <2>2, KeptByRecord
  <2>4. QED BY <1>1, <2>1, <2>2, <2>3, KeptKeeps, SameModes DEF WindowInv
<1>3. ASSUME TraceAdqRelAfter(t) PROVE WindowInv'
  <2>1. Others(t)
    BY <1>3, TraceAdqRelAfterKeeps
  <2>2. Erase(t, Special) /\ mode' = mode /\ window' = window
    BY <1>3 DEF TraceAdqRelAfter
  <2>3. Kept(t) /\ lock_clock'[t] \in {lock_clock[t], lock_clock[t] + 1}
    BY <1>1, <2>2, KeptByErase
  <2>4. QED BY <1>1, <2>1, <2>2, <2>3, KeptKeeps, SameModes DEF WindowInv
<1>4. QED BY <1>2, <1>3 DEF AdqRel

LEMMA LockEndWindows ==
  ASSUME WrapInv, WindowInv, NEW t \in Thread, LockEnd(t)
  PROVE  WindowInv'
<1>1. Typed /\ Stamped(t) /\ Nested(t) /\ Between(t) /\ Exclusion /\ Windows
  BY DEF WrapInv, WindowInv
<1>2. PICK c : c = Last(calls[t])
  OBVIOUS
<1>3. calls[t] # <<>> /\ Return(t)
  BY DEF LockEnd, LockReturn, LockFail, TryLockAfter, In
<1>4. c \in Calls /\ c = calls[t][Len(calls[t])] /\ Len(calls[t]) \in Nat /\ Len(calls[t]) >= 1
  BY <1>1, <1>2, <1>3, Returned
<1>5. ASSUME LockReturn(t) PROVE WindowInv'
  <2>1. Others(t)
    BY <1>5, LockReturnKeeps
  <2>2. /\ c.fn = "lock" /\ Available(t, c.mutex, c.how)
        /\ mode' = [mode EXCEPT ![t][c.mutex] = c.how] /\ window' = window
        /\ current_timedlockset' = current_timedlockset /\ lock_clock' = lock_clock
    BY <1>2, <1>5 DEF LockReturn, In, tool
  <2>3. c.mutex \in Mutex /\ c.how \in Modes
    BY <1>4, <2>2, CallFacts
  <2>4. mode[t][c.mutex] = "free"
    BY <2>2 DEF Available
  <2>5. \A l \in Mutex : mode[t][l] = "exclusive" => mode'[t][l] = "exclusive"
    BY <1>1, <2>2, <2>3, <2>4 DEF Typed
  <2>6. Kept(t) /\ lock_clock'[t] \in {lock_clock[t], lock_clock[t] + 1}
    BY <1>1, <2>2, <2>5, KeptAlone
  <2>7. Exclusion'
    BY <1>1, <2>2, <2>3, Granted
  <2>8. QED BY <1>1, <2>1, <2>2, <2>6, <2>7, KeptKeeps DEF WindowInv
<1>6. ASSUME LockFail(t) PROVE WindowInv'
  <2>1. Others(t)
    BY <1>6, LockFailKeeps
  <2>2. /\ mode' = mode /\ window' = window
        /\ current_timedlockset' = current_timedlockset /\ lock_clock' = lock_clock
    BY <1>6 DEF LockFail, tool
  <2>3. Kept(t) /\ lock_clock'[t] \in {lock_clock[t], lock_clock[t] + 1}
    BY <1>1, <2>2, KeptAlone
  <2>4. QED BY <1>1, <2>1, <2>2, <2>3, KeptKeeps, SameModes DEF WindowInv
<1>7. ASSUME NEW result \in TryResults, NEW locktype \in LockTypes,
             TryLockAfter(t, result, locktype)
      PROVE  WindowInv'
  <2>1. Others(t)
    BY <1>7, TryLockAfterKeeps
  <2>2. PICK slot : slot = try_lock_mutex[t]
    OBVIOUS
  <2>3. PICK taken \in BOOLEAN : taken <=> Means(result, c.config)
    OBVIOUS
  <2>4. /\ c.fn = "try" /\ window' = window
        /\ taken => Available(t, c.mutex, c.how)
        /\ mode' = IF taken THEN [mode EXCEPT ![t][c.mutex] = c.how] ELSE mode
        /\ \/ Record(t, slot)
           \/ current_timedlockset' = current_timedlockset /\ lock_clock' = lock_clock
    BY <1>2, <1>7, <2>2, <2>3 DEF TryLockAfter, In
  <2>5. c.mutex \in Mutex /\ c.how \in Modes
    BY <1>4, <2>4, CallFacts
  <2>6. slot \in Locks
    <3>1. Len(calls[t]) \in 1 .. Len(calls[t])
      BY <1>4
    <3>2. QED BY <1>1, <1>4, <2>2, <2>4, <3>1 DEF Nested, Locks
  <2>7. \A l \in Mutex : mode[t][l] = "exclusive" => mode'[t][l] = "exclusive"
    <3>1. CASE taken
      <4>1. mode[t][c.mutex] = "free"
        BY <2>4, <3>1 DEF Available
      <4>2. QED BY <1>1, <2>4, <2>5, <3>1, <4>1 DEF Typed
    <3>2. CASE ~taken
      BY <2>4, <3>2
    <3>3. QED BY <3>1, <3>2
  <2>8. Kept(t) /\ lock_clock'[t] \in {lock_clock[t], lock_clock[t] + 1}
    <3>1. CASE Record(t, slot)
      BY <1>1, <2>6, <2>7, <3>1, KeptByRecord
    <3>2. CASE current_timedlockset' = current_timedlockset /\ lock_clock' = lock_clock
      BY <1>1, <2>7, <3>2, KeptAlone
    <3>3. QED BY <2>4, <3>1, <3>2
  <2>9. Exclusion'
    <3>1. CASE taken
      BY <1>1, <2>4, <2>5, <3>1, Granted
    <3>2. CASE ~taken
      BY <1>1, <2>4, <3>2, SameModes
    <3>3. QED BY <3>1, <3>2
  <2>10. QED BY <1>1, <2>1, <2>4, <2>8, <2>9, KeptKeeps DEF WindowInv
<1>8. QED BY <1>5, <1>6, <1>7 DEF LockEnd

(* A store looks at the locks, a load is checked against them. *)
LEMMA AccessWindows ==
  ASSUME WrapInv, WindowInv, NEW t \in Thread, Access(t)
  PROVE  WindowInv'
<1>1. Typed /\ Stamped(t) /\ Between(t) /\ Exclusion /\ Windows
  BY DEF WrapInv, WindowInv
<1>2. /\ current_timedlockset' = current_timedlockset /\ lock_clock' = lock_clock
      /\ mode' = mode /\ phantom' = phantom /\ OwnCode(t)
  BY DEF Access, Store, Load, Persist, tool, ghost
<1>3. Recorded(t) \subseteq Held(t) \cup phantom[t]
  BY <1>1, <1>2, NothingBetween DEF Between
<1>4. Special \notin Mutex
  BY LockAssumption
<1>5. Exclusion'
  BY <1>1, <1>2, SameModes
<1>6. ASSUME NEW u \in Thread, NEW w, Window(u, w) PROVE Window(u, w)'
  BY <1>2, <1>6 DEF Window, Protects, Recorded
<1>7. ASSUME Store(t) PROVE Windows'
  <2>1. PICK w : w = [lockset |-> current_timedlockset[t],
                      excused |-> {m \in Mutex : mode[t][m] = "shared"}
                                    \cup {Special} \cup phantom[t],
                      loads   |-> {}]
    OBVIOUS
  <2>2. window' = [window EXCEPT ![t] = {w}]
    BY <1>7, <2>1 DEF Store
  <2>3. window'[t] = {w} /\ \A u \in Thread : u # t => window'[u] = window[u]
    BY <1>1, <2>2 DEF Typed
  <2>4. /\ w.lockset = current_timedlockset[t] /\ w.loads = {}
        /\ w.excused = {m \in Mutex : mode[t][m] = "shared"}
                         \cup {Special} \cup phantom[t]
        /\ w = [lockset |-> w.lockset, excused |-> w.excused, loads |-> w.loads]
    BY <2>1
  <2>5. \A l \in DOMAIN w.lockset : w.lockset[l] \in 0 .. lock_clock[t] - 1
    BY <1>1, <2>4 DEF Stamped, IsTimedLockset
  <2>6. ASSUME NEW l \in Recorded(t), l \notin w.excused PROVE Protects(t, w, l)
    <3>1. l \in Held(t) /\ l # Special
      BY <1>3, <2>4, <2>6
    <3>2. l \in Mutex /\ mode[t][l] # "free"
      BY <3>1 DEF Held
    <3>3. mode[t][l] \in Modes \cup {"free"}
      BY <1>1, <3>2 DEF Typed
    <3>4. mode[t][l] = "exclusive"
      BY <2>4, <2>6, <3>2, <3>3 DEF Modes
    <3>5. QED BY <2>4, <3>2, <3>4 DEF Protects
  <2>7. Window(t, w)
    BY <2>4, <2>5, <2>6 DEF Window, Recorded
  <2>8. ASSUME NEW u \in Thread, NEW v \in window'[u] PROVE Window(u, v)'
    <3>1. Window(u, v)
      BY <1>1, <2>3, <2>7, <2>8 DEF Windows
    <3>2. QED BY <1>6, <3>1
  <2>9. QED BY <2>8 DEF Windows
<1>8. ASSUME Load(t) PROVE Windows'
  <2>1. PICK taken : taken = DOMAIN current_timedlockset[t] \ phantom[t]
    OBVIOUS
  <2>2. /\ window'[t] = window[t]
        /\ \A u \in Thread : u # t =>
             window'[u] = {[w EXCEPT !.loads = w.loads \cup taken] : w \in window[u]}
    BY <1>8, <2>1 DEF Load
  <2>3. taken \subseteq Held(t)
    BY <1>3, <2>1 DEF Recorded
  <2>4. ASSUME NEW u \in Thread, u # t, NEW v \in window'[u] PROVE Window(u, v)'
    <3>1. PICK w \in window[u] : v = [w EXCEPT !.loads = w.loads \cup taken]
      BY <2>2, <2>4
    <3>2. Window(u, w)
      BY <1>1, <2>4, <3>1 DEF Windows
    <3>3. /\ v.lockset = w.lockset /\ v.excused = w.excused
          /\ v.loads = w.loads \cup taken
          /\ v = [lockset |-> v.lockset, excused |-> v.excused, loads |-> v.loads]
      BY <3>1, <3>2 DEF Window
    <3>4. ASSUME NEW l, Protects(u, w, l) PROVE Protects(u, v, l)
      <4>1. mode[t][l] = "free" /\ l \in Mutex
        BY <1>1, <2>4, <3>4 DEF Protects, Exclusion
      <4>2. l \notin taken
        BY <1>4, <2>3, <4>1 DEF Held
      <4>3. QED BY <3>3, <3>4, <4>2 DEF Protects
    <3>5. Window(u, v)
      BY <3>2, <3>3, <3>4 DEF Window
    <3>6. QED BY <1>6, <2>4, <3>5
  <2>5. ASSUME NEW v \in window'[t] PROVE Window(t, v)'
    <3>1. Window(t, v)
      BY <1>1, <2>2, <2>5 DEF Windows
    <3>2. QED BY <1>6, <3>1
  <2>6. QED BY <2>4, <2>5 DEF Windows
<1>9. ASSUME Persist(t) PROVE Windows'
  <2>1. window' = [window EXCEPT ![t] = {}]
    BY <1>9 DEF Persist
  <2>2. window'[t] = {} /\ \A u \in Thread : u # t => window'[u] = window[u]
    BY <1>1, <2>1 DEF Typed
  <2>3. ASSUME NEW u \in Thread, NEW v \in window'[u] PROVE Window(u, v)'
    <3>1. Window(u, v)
      BY <1>1, <2>2, <2>3 DEF Windows
    <3>2. QED BY <1>6, <3>1
  <2>4. QED BY <2>3 DEF Windows
<1>10. QED BY <1>5, <1>7, <1>8, <1>9 DEF Access, WindowInv

LEMMA WindowStep ==
  ASSUME WrapInv, WindowInv, [Next]_vars
  PROVE  WindowInv'
<1>1. CASE UNCHANGED vars
  <2>1. /\ current_timedlockset' = current_timedlockset /\ lock_clock' = lock_clock
        /\ mode' = mode /\ window' = window
    BY <1>1 DEF vars, tool
  <2>2. Exclusion'
    BY <2>1, SameModes DEF WindowInv
  <2>3. ASSUME NEW u \in Thread, NEW w \in window[u] PROVE Window(u, w)'
    <3>1. Window(u, w)
      BY <2>3 DEF WindowInv, Windows
    <3>2. QED BY <2>1, <3>1 DEF Window, Protects, Recorded
  <2>4. QED BY <2>1, <2>2, <2>3 DEF WindowInv, Windows
<1>2. ASSUME NEW t \in Thread,
             LockCall(t) \/ LockEnd(t) \/ Unlock(t) \/ AdqRel(t) \/ Access(t)
      PROVE  WindowInv'
  BY <1>2, LockCallWindows, LockEndWindows, UnlockWindows, AdqRelWindows,
     AccessWindows
<1>3. QED BY <1>1, <1>2 DEF Next

(* WindowLoadsUnprotected: whatever the threads lock, try, unlock, nest    *)
(* and fail at, a load inside another thread's window has no lock in       *)
(* common with it but one that is shared, of the acquire-release list or   *)
(* never held.  The timestamps are what the argument rests on: a lock that *)
(* was released and taken again inside the window is not common.           *)
THEOREM LoadsInWindowsUnprotected == Spec => []WindowLoadsUnprotected
<1>1. Init => WindowInv
  <2>1. ASSUME Init PROVE Exclusion /\ Windows
    BY <2>1 DEF Init, Exclusion, Windows
  <2>2. QED BY <2>1 DEF WindowInv
<1>2. WrapInv /\ WindowInv /\ [Next]_vars => WindowInv'
  BY WindowStep
<1>3. WindowInv => WindowLoadsUnprotected
  <2>1. SUFFICES ASSUME WindowInv, NEW t \in Thread, NEW w \in window[t],
                        NEW l \in CommonLocks(w.lockset, current_timedlockset[t]),
                        l \in w.loads
                 PROVE  l \in w.excused
    BY DEF WindowLoadsUnprotected
  <2>2. Window(t, w)
    BY <2>1 DEF WindowInv, Windows
  <2>3. QED BY <2>1, <2>2 DEF Window, Protects, CommonLocks, Recorded
<1>4. QED BY <1>1, <1>2, <1>3, WrapInvariant, PTL DEF Spec
=============================================================================
