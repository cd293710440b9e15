---------------------------- MODULE MCUserStore -----------------------------
(* Small instances of UserStore for TLC. *)
EXTENDS UserStore, TLC
=============================================================================
