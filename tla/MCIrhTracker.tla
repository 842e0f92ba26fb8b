---------------------------- MODULE MCIrhTracker ----------------------------
(* IrhTracker for TLC: more threads than the bitset has bits, so that the  *)
(* assertion on their number can fail.                                     *)
EXTENDS IrhTracker

ASSUME EnoughThreads == TidBits < Cardinality(Thread)
=============================================================================
