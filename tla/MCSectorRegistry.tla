-------------------------- MODULE MCSectorRegistry --------------------------
(* Small instances of SectorRegistry for TLC. *)
EXTENDS SectorRegistry, TLC
=============================================================================
