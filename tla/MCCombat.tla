------------------------------ MODULE MCCombat ------------------------------
(* Small instances of Combat for TLC. *)
EXTENDS Combat, TLC
=============================================================================
