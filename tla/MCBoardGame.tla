---------------------------- MODULE MCBoardGame -----------------------------
(* A small instance of BoardGame for TLC. *)
EXTENDS BoardGame
=============================================================================
