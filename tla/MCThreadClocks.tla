--------------------------- MODULE MCThreadClocks ---------------------------
(* ThreadClocks for TLC: fewer pthread_t values than threads, so that some  *)
(* are used again.                                                          *)
EXTENDS ThreadClocks, FiniteSets

ASSUME HandlesAreReused == Cardinality(Pthread) < MaxThreads
=============================================================================
