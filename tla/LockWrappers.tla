---------------------------- MODULE LockWrappers ----------------------------
(***************************************************************************)
(* The routines around the application's lock functions                    *)
(* (src/src/hawkset.cpp, LockBefore to RWUnlockBefore and TraceAdqRel...)  *)
(* as InstrumentLockRoutine and InstrumentAdqRelRoutine attach them: what  *)
(* is called before a function, after it or both.  They keep the timed     *)
(* lockset of a thread next to the locks it really has, which the tool     *)
(* never sees.                                                             *)
(*                                                                         *)
(* The lock library is external: it grants a lock to one thread, or in     *)
(* shared mode to several, and may refuse.  The interned copy of the       *)
(* lockset and the wrapping of lock_clock belong to PersistTracker.        *)
(***************************************************************************)
EXTENDS Integers, Sequences, SequencesExt, TimedLockset

CONSTANTS
  Thread, Mutex,
  Special,         \* what register_special_mutex gave the acquire-release list
  TryFunctions,    \* of the configuration, as [success_value,
                   \*   success_is_failure, use_result_arg]
  LockTypes,       \* what TryLockAfter can find in its argument locktype
  NoMutex,         \* try_lock_mutex before the first try-lock
  MaxAcquisitions, \* bound: calls that may record a lock, of all threads
  MaxNesting       \* bound: calls of instrumented functions in one another

\* The results of a try function, in its return value or out-argument.
TryResults == {0, 1}

\* enum LockType
LockType == {"MUTEX", "WRITE", "READ"}

ASSUME LockAssumption ==
  /\ Special \notin Mutex /\ NoMutex \notin Mutex \cup {Special}
  /\ TryFunctions \subseteq [success_value : TryResults,
                             success_is_failure : BOOLEAN,
                             use_result_arg : BOOLEAN]
  /\ LockTypes \subseteq LockType \cup {"none of these"}
  /\ MaxAcquisitions \in Nat /\ MaxNesting \in Nat \ {0}

Modes == {"exclusive", "shared"}

VARIABLES
  current_timedlockset,
  lock_clock,
  try_lock_mutex,  \* the one slot of a thread for a try-lock in progress; its
                   \* result_address is that of the call with this mutex
  calls,           \* instrumented functions a thread is in, innermost last
  out,             \* out[t][m]: the out-argument of t's last try call for m
  mode             \* mode[t][m]: how t holds m in the library, or "free"

(* What really happened, for the properties only. *)
VARIABLES
  attempts,    \* calls of lock, try and acquire-release functions
  phantom,     \* recorded by a call that failed, or for another call's mutex
  unrecorded,  \* taken by a call that recorded nothing or another mutex
  window       \* a store that is not persistent yet, or {}

tool == <<current_timedlockset, lock_clock, try_lock_mutex>>
ghost == <<attempts, phantom, unrecorded>>
vars == <<tool, calls, out, mode, ghost, window>>

Init ==
  /\ current_timedlockset = [t \in Thread |-> NoLocks]
  /\ lock_clock = [t \in Thread |-> 0]
  /\ try_lock_mutex = [t \in Thread |-> NoMutex]
  /\ calls = [t \in Thread |-> <<>>]
  /\ out = [t \in Thread |-> [m \in Mutex |-> 0]]
  /\ mode = [t \in Thread |-> [m \in Mutex |-> "free"]]
  /\ attempts = 0
  /\ phantom = [t \in Thread |-> {}]
  /\ unrecorded = [t \in Thread |-> {}]
  /\ window = [t \in Thread |-> {}]

-----------------------------------------------------------------------------
(* The application and the lock library.                                   *)

In(t, fn) == calls[t] # <<>> /\ Last(calls[t]).fn = fn

\* t runs code of its own: outside the functions, or in the body of one
\* from the acquire-release list.
OwnCode(t) == calls[t] = <<>> \/ In(t, "adq_rel")

\* Of the lock functions, a try function may be built on others.
CanCall(t) == Len(calls[t]) < MaxNesting /\ (OwnCode(t) \/ In(t, "try"))

Call(t, call) == calls' = [calls EXCEPT ![t] = Append(@, call)]
Return(t)     == calls' = [calls EXCEPT ![t] = Front(@)]

InProgress(t) == {c.mutex : c \in Range(calls[t])}

Available(t, m, how) ==
  /\ mode[t][m] = "free"
  /\ \A u \in Thread \ {t} :
       mode[u][m] = "free" \/ (mode[u][m] = "shared" /\ how = "shared")

Attempt ==
  /\ attempts < MaxAcquisitions
  /\ attempts' = attempts + 1

-----------------------------------------------------------------------------
(* ProcessLock and its callers.                                            *)

\* A timestamp that is incremented before it is used.
TimestampEarly(t) == lock_clock[t] + 1

\* get_next_id
Timestamp(t) == lock_clock[t]

\* ProcessLock for every way of locking: the modes are not told apart.
Record(t, m) ==
  /\ current_timedlockset' =
       [current_timedlockset EXCEPT ![t] = TimedLock(@, m, Timestamp(t))]
  /\ lock_clock' = [lock_clock EXCEPT ![t] = @ + 1]

\* ProcessLock for UNLOCK and RWUNLOCK.
Erase(t, m) ==
  /\ current_timedlockset' =
       [current_timedlockset EXCEPT ![t] = TimedUnlock(@, m)]
  /\ UNCHANGED lock_clock

\* LockBefore, WriteLockBefore and ReadLockBefore: recorded before the
\* thread has the lock.
LockBefore(t, m, how) ==
  /\ CanCall(t) /\ mode[t][m] = "free" /\ m \notin InProgress(t)
  /\ Attempt
  /\ Record(t, m)
  /\ Call(t, [fn |-> "lock", mutex |-> m, how |-> how])
  /\ UNCHANGED <<try_lock_mutex, out, mode, phantom, unrecorded, window>>

\* The library grants the lock; nothing is attached to the return.
LockReturn(t) ==
  /\ In(t, "lock")
  /\ LET c == Last(calls[t])
     IN  /\ Available(t, c.mutex, c.how)
         /\ mode' = [mode EXCEPT ![t][c.mutex] = c.how]
         /\ phantom' = [phantom EXCEPT ![t] = @ \ {c.mutex}]
  /\ Return(t)
  /\ UNCHANGED <<tool, out, attempts, unrecorded, window>>

\* The library refuses it with an error code.
LockFail(t) ==
  /\ In(t, "lock")
  /\ phantom' = [phantom EXCEPT ![t] = @ \cup {Last(calls[t]).mutex}]
  /\ Return(t)
  /\ UNCHANGED <<tool, out, mode, attempts, unrecorded, window>>

\* TryLockBefore: notes the call in the thread's one slot.
TryLockBefore(t, m, how, config) ==
  /\ CanCall(t) /\ m \notin InProgress(t)
  /\ In(t, "try") => Last(calls[t]).config = config
  /\ Attempt
  /\ try_lock_mutex' = [try_lock_mutex EXCEPT ![t] = m]
  /\ Call(t, [fn |-> "try", mutex |-> m, how |-> how, config |-> config])
  /\ UNCHANGED <<current_timedlockset, lock_clock, out, mode, phantom,
                 unrecorded, window>>

\* What a result says by the configuration.
Means(result, config) ==
  (result = config.success_value) # config.success_is_failure

\* The check of TryLockAfter without its negation.
ChecksOutPlain(result, config) == result = config.success_value

\* The check of TryLockAfter.
ChecksOut(result, config) ==
  IF config.success_is_failure THEN result # config.success_value
                               ELSE result = config.success_value

\* The switch of TryLockAfter without one of its cases.
KnownTypeNoRead(locktype) == locktype \in {"MUTEX", "WRITE"}

\* The switch of TryLockAfter has no default.
KnownType(locktype) == locktype \in {"MUTEX", "WRITE", "READ"}

\* The library grants or refuses the lock, then TryLockAfter runs.  It finds
\* the mutex and the out-argument through the slot, and in locktype what
\* the register holds: InstrumentLockRoutine passes no such argument.
TryLockAfter(t, result, locktype) ==
  /\ In(t, "try")
  /\ LET c       == Last(calls[t])
         taken   == Means(result, c.config)
         slot    == try_lock_mutex[t]
         seen    == IF c.config.use_result_arg THEN out'[t][slot] ELSE result
         records == ChecksOut(seen, c.config) /\ KnownType(locktype)
         right   == records /\ slot = c.mutex
     IN  /\ taken => Available(t, c.mutex, c.how)
         /\ mode' = IF taken THEN [mode EXCEPT ![t][c.mutex] = c.how] ELSE mode
         /\ out' = IF c.config.use_result_arg
                     THEN [out EXCEPT ![t][c.mutex] = result] ELSE out
         /\ IF records THEN Record(t, slot)
                       ELSE UNCHANGED <<current_timedlockset, lock_clock>>
         /\ phantom' =
              [phantom EXCEPT ![t] = IF right /\ taken THEN @ \ {slot}
                                     ELSE IF slot # c.mutex THEN @ \cup {slot}
                                     ELSE @]
         /\ unrecorded' =
              [unrecorded EXCEPT ![t] =
                 IF taken /\ (slot # c.mutex \/ locktype \notin LockType)
                   THEN @ \cup {c.mutex} ELSE @]
  /\ Return(t)
  /\ UNCHANGED <<try_lock_mutex, attempts, window>>

\* UnlockBefore and RWUnlockBefore: erased while the thread has the lock.
UnlockBefore(t, m) ==
  /\ CanCall(t) /\ mode[t][m] # "free" /\ m \notin InProgress(t)
  /\ Erase(t, m)
  /\ phantom' = [phantom EXCEPT ![t] = @ \ {m}]
  /\ unrecorded' = [unrecorded EXCEPT ![t] = @ \ {m}]
  /\ Call(t, [fn |-> "unlock", mutex |-> m])
  /\ UNCHANGED <<try_lock_mutex, out, mode, attempts, window>>

UnlockReturn(t) ==
  /\ In(t, "unlock")
  /\ mode' = [mode EXCEPT ![t][Last(calls[t]).mutex] = "free"]
  /\ Return(t)
  /\ UNCHANGED <<tool, out, ghost, window>>

\* TraceAdqRelBefore and TraceAdqRelAfter: the functions of the
\* acquire-release list count as one lock, which nobody takes.
TraceAdqRelBefore(t) ==
  /\ CanCall(t) /\ Attempt
  /\ Record(t, Special)
  /\ Call(t, [fn |-> "adq_rel", mutex |-> Special])
  /\ UNCHANGED <<try_lock_mutex, out, mode, phantom, unrecorded, window>>

TraceAdqRelAfter(t) ==
  /\ In(t, "adq_rel")
  /\ Erase(t, Special)
  /\ Return(t)
  /\ unrecorded' =
       [unrecorded EXCEPT ![t] = IF \E i \in DOMAIN calls'[t] :
                                      calls'[t][i].fn = "adq_rel"
                                   THEN @ \cup {Special} ELSE @ \ {Special}]
  /\ UNCHANGED <<try_lock_mutex, out, mode, attempts, phantom, window>>

-----------------------------------------------------------------------------
(* Accesses, as far as they show what a lockset is worth.                  *)

\* A store opens a window.  The locks in `excused` protect it by no fault
\* of the routines: a lock held in shared mode does not exclude another
\* reader, the acquire-release list is taken at its word, and a phantom
\* was never held.
Store(t) ==
  /\ OwnCode(t) /\ window[t] = {}
  /\ window' = [window EXCEPT ![t] =
       {[lockset |-> current_timedlockset[t],
         excused |-> {m \in Mutex : mode[t][m] = "shared"}
                       \cup {Special} \cup phantom[t],
         loads   |-> {}]}]
  /\ UNCHANGED <<tool, calls, out, mode, ghost>>

\* A load of the same byte, with the locks it is recorded with.
Load(t) ==
  /\ OwnCode(t)
  /\ window' = [u \in Thread |->
       IF u = t THEN window[u]
       ELSE {[w EXCEPT !.loads = @ \cup
                (DOMAIN current_timedlockset[t] \ phantom[t])] :
               w \in window[u]}]
  /\ UNCHANGED <<tool, calls, out, mode, ghost>>

\* The byte becomes persistent.
Persist(t) ==
  /\ OwnCode(t) /\ window[t] # {}
  /\ window' = [window EXCEPT ![t] = {}]
  /\ UNCHANGED <<tool, calls, out, mode, ghost>>

LockCall(t) ==
  \E m \in Mutex, how \in Modes :
    \/ LockBefore(t, m, how)
    \/ \E config \in TryFunctions : TryLockBefore(t, m, how, config)

LockEnd(t) ==
  \/ LockReturn(t)
  \/ LockFail(t)
  \/ \E result \in TryResults, locktype \in LockTypes :
       TryLockAfter(t, result, locktype)

Unlock(t) == UnlockReturn(t) \/ \E m \in Mutex : UnlockBefore(t, m)
AdqRel(t) == TraceAdqRelBefore(t) \/ TraceAdqRelAfter(t)
Access(t) == Store(t) \/ Load(t) \/ Persist(t)

Next == \E t \in Thread :
          LockCall(t) \/ LockEnd(t) \/ Unlock(t) \/ AdqRel(t) \/ Access(t)

Spec == Init /\ [][Next]_vars

-----------------------------------------------------------------------------
(* Properties *)

Recorded(t) == DOMAIN current_timedlockset[t]

Held(t) == {m \in Mutex : mode[t][m] # "free"}
             \cup ({Special} \cap InProgress(t))

\* Timestamps are those given out so far, the slot only holds locks, and
\* the calls are well nested.
TypeOK ==
  \A t \in Thread :
    /\ lock_clock[t] \in Nat
    /\ IsTimedLockset(current_timedlockset[t], Mutex \cup {Special},
                      0 .. lock_clock[t] - 1)
    /\ try_lock_mutex[t] \in Mutex \cup {NoMutex}
    /\ \A i \in DOMAIN calls[t] :
         i < Len(calls[t]) => calls[t][i].fn \in {"try", "adq_rel"}
    /\ out[t] \in [Mutex -> TryResults]
    /\ mode[t] \in [Mutex -> Modes \cup {"free"}]
    /\ phantom[t] \subseteq Mutex
    /\ unrecorded[t] \subseteq Mutex \cup {Special}

\* Where accesses happen, a thread's lockset has no lock the thread does
\* not hold - although LockBefore records before the lock is granted and a
\* try-lock may fail - unless a lock function failed or a try function was
\* built on another one.
RecordedAreHeld ==
  \A t \in Thread : OwnCode(t) => Recorded(t) \subseteq Held(t) \cup phantom[t]

\* Where accesses happen, every lock a thread holds is in its lockset,
\* unless the locktype of a try-lock was none of the enumeration's, a try
\* function was built on another, or one function of the acquire-release
\* list called another.
HeldAreRecorded ==
  \A t \in Thread :
    OwnCode(t) => Held(t) \subseteq Recorded(t) \cup unrecorded[t]

\* The purpose of the locksets: a load that really happened while another
\* thread's store was not persistent is never taken for protected from it.
\* No lock of the load's lockset is in the common set the window would get
\* if it ended now, except by sharing, by the acquire-release list and by
\* phantoms.
WindowLoadsUnprotected ==
  \A t \in Thread : \A w \in window[t] :
    CommonLocks(w.lockset, current_timedlockset[t]) \cap w.loads
      \subseteq w.excused

\* A try-lock that succeeds is recorded, whatever else: the configuration
\* gives its mutex, its success value and its type.
TryLocksRecorded ==
  \A t \in Thread : OwnCode(t) => Held(t) \cap Mutex \subseteq Recorded(t)
=============================================================================
