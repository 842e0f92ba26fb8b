--------------------------- MODULE MCLockWrappers ---------------------------
(* LockWrappers for TLC. *)
EXTENDS LockWrappers, TLC

CONSTANTS t1, t2, m1, m2

\* pthread_mutex_trylock of src/config/pthread.cfg.
PthreadTry == [success_value |-> 0, success_is_failure |-> FALSE,
               use_result_arg |-> FALSE]

\* A function that leaves FALSE in an out-argument when it fails.
OutArgumentTry == [success_value |-> 0, success_is_failure |-> TRUE,
                   use_result_arg |-> TRUE]

PthreadConfig == {PthreadTry}
BothConfigs == {PthreadTry, OutArgumentTry}

\* A value of the enumeration, and one outside it; the cases of the switch
\* do the same.
AnyType == {"READ", "none of these"}

Symmetry == Permutations({t1, t2}) \cup Permutations({m1, m2})
=============================================================================
