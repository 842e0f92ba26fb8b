---------------------------- MODULE TimedLockset ----------------------------
(***************************************************************************)
(* The timed locksets of src/src/lockset.cpp.  A TimedLockset maps each    *)
(* lock a thread holds to the timestamp of its acquisition; a Lockset is a *)
(* set of locks.  The code stores the index register_mutex gives a lock    *)
(* instead of its address, and a Lockset as words of 64 bits; here a lock  *)
(* stands for its index and a Lockset is the set itself.                   *)
(***************************************************************************)
EXTENDS Naturals

\* The default constructed TimedLockset.
NoLocks == [l \in {} |-> 0]

\* s is a timed lockset over the locks L with timestamps in T.
IsTimedLockset(s, L, T) == DOMAIN s \subseteq L /\ s \in [DOMAIN s -> T]

\* A lock that keeps the time it was first taken.
TimedLockFirst(s, mutex, timestamp) ==
  [l \in DOMAIN s \cup {mutex} |-> IF l \in DOMAIN s THEN s[l] ELSE timestamp]

\* TimedLockset::lock and lock_special: taking a lock again, held or not,
\* gives it the new timestamp.
TimedLock(s, mutex, timestamp) ==
  [l \in DOMAIN s \cup {mutex} |-> IF l = mutex THEN timestamp ELSE s[l]]

\* TimedLockset::unlock and unlock_special: no recursion is counted, one
\* unlock removes the lock.
TimedUnlock(s, mutex) == [l \in DOMAIN s \ {mutex} |-> s[l]]

\* An intersection that forgets the timestamps.
CommonLocksUntimed(s, tls) == DOMAIN s \cap DOMAIN tls

\* intersect_timedlockset: TimedLockset::intersect followed by to_lockset.
\* The locks held in both with the same timestamp; the shortcuts for empty
\* and for identical arguments compute the same set.
CommonLocks(s, tls) == {l \in DOMAIN s \cap DOMAIN tls : s[l] = tls[l]}
=============================================================================
