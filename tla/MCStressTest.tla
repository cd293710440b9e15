---------------------------- MODULE MCStressTest ----------------------------
(* A small instance of StressTest for TLC. *)
EXTENDS StressTest, TLC
Symmetry == Permutations(Workers) \cup Permutations(Ids)
=============================================================================
