--------------------------------- MODULE Irh ---------------------------------
(***************************************************************************)
(* The initialisation removal heuristic of src/src/hawkset.cpp: accesses   *)
(* to a byte are ignored until use_init_removal_heuristic_n + 1 threads    *)
(* have accessed it; from then on the byte is published and nothing about  *)
(* it is ignored.  Its state is a record of two maps, both protected by    *)
(* variable_accessed_mutex:                                                *)
(*   map: variable_accessed_map, thread id -> index of the thread's bit    *)
(*   acc: variable_accessed, byte -> set of bits, {} once published.       *)
(* n is use_init_removal_heuristic_n throughout.                           *)
(***************************************************************************)
EXTENDS Integers, FiniteSets

InitialIrh == [map |-> [t \in {} |-> 0], acc |-> [b \in {} |-> {}]]

\* variable_accessed_map[tid] = variable_accessed_map.size(): the size is
\* taken before the key is inserted.
IndexOf(irh, tid) ==
  IF tid \in DOMAIN irh.map THEN irh.map[tid] ELSE Cardinality(DOMAIN irh.map)

\* Bits of an address the heuristic has never seen.
Unseen == {-1}

Bits(irh, address) ==
  IF address \in DOMAIN irh.acc THEN irh.acc[address] ELSE Unseen

\* An IgnoreAccess that publishes one thread early.
BitsAfterEager(bits, i, n) ==
  IF bits = Unseen THEN {i}
  ELSE IF bits # {} /\ i \notin bits /\ Cardinality(bits \cup {i}) = n
       THEN {}
       ELSE IF bits = {} THEN {} ELSE bits \cup {i}

\* An IgnoreAccess that forgets a published byte and starts over.
BitsAfterForgetful(bits, i, n) ==
  IF bits \in {Unseen, {}} THEN {i}
  ELSE IF i \notin bits /\ Cardinality(bits \cup {i}) = n + 1
       THEN {}
       ELSE bits \cup {i}

\* IgnoreAccess, the effect on variable_accessed[address] when the thread's
\* index is i.
BitsAfter(bits, i, n) ==
  IF bits = Unseen THEN {i}
  ELSE IF bits # {} /\ i \notin bits /\ Cardinality(bits \cup {i}) = n + 1
       THEN {}
       ELSE IF bits = {} THEN {} ELSE bits \cup {i}

\* IgnoreAccess, the answer: TRUE means the access is ignored.
IgnoreAnswer(bits, i, n) ==
  \/ bits = Unseen
  \/ bits # {} /\ (i \in bits \/ Cardinality(bits \cup {i}) # n + 1)

Ignored(irh, tid, address, n) ==
  IgnoreAnswer(Bits(irh, address), IndexOf(irh, tid), n)

\* IgnoreAccess for each address of a set.  The addresses are independent
\* of one another, so the order in which a loop visits them is immaterial.
IgnoreAccess(irh, tid, addresses, n) ==
  LET i == IndexOf(irh, tid)
  IN  IF addresses = {} THEN irh
      ELSE [map |-> [t \in DOMAIN irh.map \cup {tid} |->
                       IF t = tid THEN i ELSE irh.map[t]],
            acc |-> [b \in DOMAIN irh.acc \cup addresses |->
                       IF b \in addresses THEN BitsAfter(Bits(irh, b), i, n)
                                          ELSE irh.acc[b]]]

-----------------------------------------------------------------------------
(* HandleAccessByte, for each address of a set: what is left to report,    *)
(* and the heuristic's state after it.                                     *)

ReportedBytes(irh, tid, addresses, n) ==
  IF n = 0 THEN addresses
  ELSE {b \in addresses : ~Ignored(irh, tid, b, n)}

AfterBytes(irh, tid, addresses, n) ==
  IF n = 0 THEN irh ELSE IgnoreAccess(irh, tid, addresses, n)

\* A HandleAccess that asks about every byte of the access.
HandleAccessEachByte(irh, tid, address, size, n) ==
  LET bytes == address .. address + size - 1
  IN  [irh  |-> AfterBytes(irh, tid, bytes, n),
       mask |-> {b - address : b \in ReportedBytes(irh, tid, bytes, n)}]

\* HandleAccess: the loop asks about `address` itself for each of the size
\* bytes, and sets the bit of byte i of the mask from the i-th answer.  The
\* first question settles them all: the later answers depend only on
\* whether the address is published by then.
HandleAccess(irh, tid, address, size, n) ==
  LET after == AfterBytes(irh, tid, {address}, n)
  IN  [irh  |-> after,
       mask |-> IF n = 0 \/ Bits(after, address) = {} THEN 0 .. size - 1
                                                      ELSE {}]
=============================================================================
