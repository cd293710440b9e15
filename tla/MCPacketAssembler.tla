------------------------- MODULE MCPacketAssembler --------------------------
(* A small instance of PacketAssembler for TLC. *)
EXTENDS PacketAssembler
=============================================================================
