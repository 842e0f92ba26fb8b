----------------------------- MODULE MCInterning -----------------------------
(***************************************************************************)
(* Interning on two threads, one of which stores while the other loads.    *)
(***************************************************************************)
EXTENDS Interning, TLC
CONSTANTS Storing, Loading

OneStore == [t \in Thread |-> IF t = Storing THEN 1 ELSE 0]
TwoLoads == [t \in Thread |-> IF t = Loading THEN 2 ELSE 0]

Symmetric == Permutations(Mutex)
=============================================================================
