--------------------------- MODULE MCNpcScheduler ---------------------------
(* Small instances of NpcScheduler for TLC. *)
EXTENDS NpcScheduler, TLC

\* Slots, workers and the names of chains and respawns are interchangeable.
Symmetry == Permutations(Players) \cup Permutations(Workers)
            \cup Permutations(Chains) \cup Permutations(Kills)
=============================================================================
