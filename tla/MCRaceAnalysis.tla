--------------------------- MODULE MCRaceAnalysis ---------------------------
(***************************************************************************)
(* EndOfRun for TLC: a run in which the main thread, 1, creates the        *)
(* threads 2 and 3 leaves any few stores and loads behind.                 *)
(***************************************************************************)
EXTENDS EndOfRun, TLC

CONSTANTS Lock,
          LoadTrace  \* backtraces of loads

\* The clocks that ThreadClocks gives these threads.
ThreeClocks == << << 1 :> 2, 1 :> 4, 1 :> 6 >>,
                  << (1 :> 3) @@ (2 :> 2) >>,
                  << (1 :> 5) @@ (3 :> 2) >> >>

SegmentsOf(t) == 0 .. Len(clocks[t]) - 1

\* Stores of byte 1, persistent or lost when their thread ended.
StoresOfByte ==
  [t \in Tid |->
     {[address |-> 1, common_set |-> common_set, clock_i |-> clock_i,
       write_trace |-> "store",
       fence_trace |-> IF persisted THEN "fence" ELSE "exit",
       persisted |-> persisted, was_flushed |-> persisted] :
        common_set \in SUBSET Lock, clock_i \in SegmentsOf(t),
        persisted \in BOOLEAN}]

\* Loads of byte 1, of byte 0, or of both.
LoadsOfBytes ==
  [t \in Tid |->
     {[address |-> access[1], mask |-> 0 .. access[2] - 1,
       backtrace |-> trace, clock_i |-> clock_i, lockset |-> lockset] :
        access \in {<<0, 1>>, <<0, 2>>, <<1, 1>>}, lockset \in SUBSET Lock,
        clock_i \in SegmentsOf(t), trace \in LoadTrace}]
=============================================================================
