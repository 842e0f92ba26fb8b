----------------------------- MODULE IrhTracker -----------------------------
(***************************************************************************)
(* The initialisation removal heuristic under accesses of several threads  *)
(* (src/src/hawkset.cpp, HandleAccess and HandleAccessByte).  Each call    *)
(* runs under variable_accessed_mutex and is one step.                     *)
(***************************************************************************)
EXTENDS Irh

CONSTANTS Thread,   \* threads of the application
          Byte,     \* addresses in persistent memory
          MaxSize,  \* widest load or store, in bytes
          N,        \* use_init_removal_heuristic_n
          TidBits   \* bits of variable_accessed: 64 in the code

ASSUME IrhAssumption == /\ IsFiniteSet(Thread)
                        /\ Byte \subseteq Nat
                        /\ MaxSize \in Nat \ {0}
                        /\ N \in Nat
                        /\ TidBits \in Nat \ {0}

VARIABLES irh,      \* variable_accessed and variable_accessed_map
          aborted   \* the assertion on the number of threads has failed

(* What really happened, for the properties only. *)
VARIABLES asked,       \* the threads HandleAccess... was called for, by address
          accessors,   \* the threads that accessed each byte
          inside,      \* bytes accessed inside a wider access, not at its base
          ignored_at,  \* most accessors a byte had at an access ignored
          reported_at  \* fewest accessors a byte had at an access reported

vars == <<irh, aborted, asked, accessors, inside, ignored_at, reported_at>>

\* More threads than any access can count, and than are ever ignored.
TooMany == Cardinality(Thread) + N + 1

Init ==
  /\ irh = InitialIrh
  /\ aborted = FALSE
  /\ asked = [b \in Byte |-> {}]
  /\ accessors = [b \in Byte |-> {}]
  /\ inside = {}
  /\ ignored_at = [b \in Byte |-> 0]
  /\ reported_at = [b \in Byte |-> TooMany]

\* Thread t accessed the bytes `all`, of which `reported` were not ignored.
Note(t, all, reported) ==
  LET count(b) == Cardinality(accessors[b] \cup {t})
  IN  /\ accessors' = [b \in Byte |-> IF b \in all THEN accessors[b] \cup {t}
                                                   ELSE accessors[b]]
      /\ ignored_at' =
           [b \in Byte |-> IF b \in all \ reported /\ count(b) > ignored_at[b]
                             THEN count(b) ELSE ignored_at[b]]
      /\ reported_at' =
           [b \in Byte |-> IF b \in reported /\ count(b) < reported_at[b]
                             THEN count(b) ELSE reported_at[b]]

\* The same assertion off by one.
IndexFitsLoose(t) == N = 0 \/ IndexOf(irh, t) <= TidBits

\* assert(tid < 64), after the thread has its index.
IndexFits(t) == N = 0 \/ IndexOf(irh, t) < TidBits

\* The loop of HandleAccess, one query after the other.
HandleAccessLoop(t, address, size) ==
  LET loop[i \in 0 .. size] ==
        IF i = 0 THEN [irh |-> irh, mask |-> {}]
        ELSE LET before == loop[i - 1]
             IN  [irh  |-> IgnoreAccess(before.irh, t, {address}, N),
                  mask |-> IF Ignored(before.irh, t, address, N)
                             THEN before.mask
                             ELSE before.mask \cup {i - 1}]
  IN  IF N = 0 THEN [irh |-> irh, mask |-> 0 .. size - 1] ELSE loop[size]

\* A load or store of `size` bytes, through HandleAccess.
Access(t, address, size) ==
  /\ ~aborted /\ IndexFits(t)
  /\ address .. address + size - 1 \subseteq Byte
  /\ LET result == HandleAccessLoop(t, address, size)
     IN  /\ irh' = result.irh
         /\ Note(t, address .. address + size - 1,
                 {address + i : i \in result.mask})
  /\ asked' = [asked EXCEPT ![address] = @ \cup {t}]
  /\ inside' = inside \cup (address + 1 .. address + size - 1)
  /\ UNCHANGED aborted

\* A byte whose store becomes persistent or is left behind unpersisted,
\* through HandleAccessByte.
AccessByte(t, address) ==
  /\ ~aborted /\ IndexFits(t)
  /\ irh' = AfterBytes(irh, t, {address}, N)
  /\ Note(t, {address}, ReportedBytes(irh, t, {address}, N))
  /\ asked' = [asked EXCEPT ![address] = @ \cup {t}]
  /\ UNCHANGED <<aborted, inside>>

\* The assertion ends the process.
Abort(t) ==
  /\ ~aborted /\ ~IndexFits(t)
  /\ aborted' = TRUE
  /\ UNCHANGED <<irh, asked, accessors, inside, ignored_at, reported_at>>

Dead == aborted /\ UNCHANGED vars

Next ==
  \/ \E t \in Thread :
       \/ \E address \in Byte, size \in 1 .. MaxSize : Access(t, address, size)
       \/ \E address \in Byte : AccessByte(t, address)
       \/ Abort(t)
  \/ Dead

Spec == Init /\ [][Next]_vars

-----------------------------------------------------------------------------
(* Properties *)

TypeOK ==
  /\ DOMAIN irh.map \subseteq Thread
  /\ \A t \in DOMAIN irh.map : irh.map[t] \in 0 .. TidBits - 1
  /\ DOMAIN irh.acc \subseteq Byte
  /\ \A b \in DOMAIN irh.acc : irh.acc[b] \subseteq 0 .. TidBits - 1
  /\ aborted \in BOOLEAN
  /\ asked \in [Byte -> SUBSET Thread]
  /\ accessors \in [Byte -> SUBSET Thread]
  /\ inside \subseteq Byte
  /\ ignored_at \in [Byte -> 0 .. TooMany]
  /\ reported_at \in [Byte -> 0 .. TooMany]

\* The bitset of an address holds the bits of exactly the threads the
\* heuristic was asked about, until N + 1 distinct ones have been; then it
\* is empty for ever.  Threads are told apart by their bits, so no thread
\* hides behind another's index.
ThresholdExact ==
  N > 0 =>
    /\ \A t, u \in DOMAIN irh.map : irh.map[t] = irh.map[u] => t = u
    /\ \A b \in Byte :
         Bits(irh, b) = IF asked[b] = {} THEN Unseen
                        ELSE IF Cardinality(asked[b]) > N THEN {}
                        ELSE {irh.map[t] : t \in asked[b]}

\* The loop of HandleAccess has the effect and the mask of one query, as
\* the operator HandleAccess says: the answers of one access never differ
\* between its bytes, whichever query of the loop reaches the limit.
LoopIsOneQuery ==
  \A t \in Thread, address \in Byte, size \in 1 .. MaxSize :
    HandleAccessLoop(t, address, size) = HandleAccess(irh, t, address, size, N)

\* The heuristic removes initialisation and nothing else: an access to a
\* byte is ignored exactly when at most N threads, counting its own, have
\* accessed the byte so far - for the bytes that every access so far had at
\* its base, whatever the accesses to other bytes were.
OnlyInitialisationIgnored ==
  \A b \in Byte \ inside : ignored_at[b] <= N /\ N < reported_at[b]

\* The half of it that loses races: once N + 1 threads have accessed a byte
\* ("thread access limit reached"), no access to it is ignored any more.
\* HandleAccess asks about the base address for every byte of an access, so
\* for a byte inside a wider access this fails.
SharedNotIgnored ==
  \A b \in Byte : ignored_at[b] <= N
=============================================================================
