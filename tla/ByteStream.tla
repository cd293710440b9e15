----------------------------- MODULE ByteStream -----------------------------
(***************************************************************************)
(* One direction of a connection: a sender that writes packets back to     *)
(* back, and TCP, which delivers the bytes in order but cuts them anywhere.*)
(* A byte is named by its position in the stream (1, 2, ...), so a packet  *)
(* is a run of consecutive positions and two bytes are never confused;     *)
(* what a byte holds matters only for the first of a packet, its size.     *)
(***************************************************************************)
EXTENDS Integers, Sequences

CONSTANTS
  Sizes,   \* the sizes of the packets (protocol.h)
  B,       \* BUF_SIZE
  Cap      \* bound: bytes the sender writes in all

ASSUME SizesAssumption == B \in Nat \ {0} /\ Sizes \subseteq 1..B
ASSUME CapAssumption   == Cap \in Nat

VARIABLES
  sent,     \* the packets written
  arrived,  \* bytes the receiver has taken from TCP
  handled   \* the packets it has called its handler with

Bytes == 0..Cap     \* 0 is a byte of memory nobody has written yet
Run(first, n) == [i \in 1..n |-> first + i - 1]

\* The packets that can be written, wherever they start.
Packets == {Run(first, n) : first \in 1..Cap, n \in Sizes}

\* The last byte of a sequence of packets: how many bytes there are in all.
End(packets) == IF packets = <<>> THEN 0 ELSE LET q == packets[Len(packets)] IN q[Len(q)]
Written == End(sent)

\* What a reader of byte b as a size may find: the size of the packet b is
\* the first byte of, or anything if b is some other byte.
SizeByte(b) ==
  LET headed == {k \in DOMAIN sent : sent[k][1] = b}
  IN  IF headed = {} THEN 0..B ELSE {Len(sent[k]) : k \in headed}

\* send_packet, do_send: the size byte says how much is written.
Send ==
  /\ \E n \in Sizes : /\ Written + n <= Cap
                      /\ sent' = Append(sent, Run(Written + 1, n))
  /\ UNCHANGED arrived

\* TCP hands over the next n bytes.
Carry(n) == n \in 1..(Written - arrived) /\ arrived' = arrived + n /\ UNCHANGED sent

-----------------------------------------------------------------------------
\* Either receiver's handler sees every packet, whole, once and in order ...
Stream == INSTANCE PacketStream WITH Packet <- Packets
InOrder == Stream!Safety

\* ... and none is left in the receiver when it is all there.
AllHandled == Stream!Progress
=============================================================================
