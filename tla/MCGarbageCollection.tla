------------------------- MODULE MCGarbageCollection -------------------------
(***************************************************************************)
(* GarbageCollection on a small instance: two objects, so that a batch of  *)
(* one leaves a candidate behind; two faults, so that the clean-up after   *)
(* an error can fail as well; one crash.                                   *)
(***************************************************************************)
EXTENDS GarbageCollection, TLC

\* Objects, executions and epochs are interchangeable.
Symmetry == Permutations(Objects) \cup Permutations(Executions) \cup Permutations(Epochs)

=============================================================================
