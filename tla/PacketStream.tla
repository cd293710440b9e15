---------------------------- MODULE PacketStream ----------------------------
(***************************************************************************)
(* What a receiver of packets promises, whatever way TCP cuts the bytes:   *)
(* the handler sees every packet the peer sent, whole, once and in order.  *)
(* PacketFraming (the server's OP_RECV) and PacketAssembler (the client's  *)
(* process_data) implement it.                                             *)
(***************************************************************************)
EXTENDS Sequences, Naturals

CONSTANT Packet   \* the packets that can be sent

VARIABLES
  sent,      \* packets the peer has sent
  handled    \* packets the handler has been called with

svars == <<sent, handled>>

Init == sent = <<>> /\ handled = <<>>

Send(p) == sent' = Append(sent, p) /\ UNCHANGED handled

Handle ==
  /\ Len(handled) < Len(sent)
  /\ handled' = Append(handled, sent[Len(handled) + 1])
  /\ UNCHANGED sent

Next == Handle \/ \E p \in Packet : Send(p)

Safety   == Init /\ [][Next]_svars
Progress == WF_svars(Handle)
Spec     == Safety /\ Progress
=============================================================================
