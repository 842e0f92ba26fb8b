--------------------------- MODULE MCPMAllocation ---------------------------
(* PMAllocation for TLC. *)
EXTENDS PMAllocation, TLC

CONSTANTS t1, t2

Symmetry == Permutations({t1, t2})
=============================================================================
