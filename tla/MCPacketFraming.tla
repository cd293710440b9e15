-------------------------- MODULE MCPacketFraming ---------------------------
(* A small instance of PacketFraming for TLC. *)
EXTENDS PacketFraming
=============================================================================
