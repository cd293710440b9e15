-------------------------- MODULE PacketAssembler ---------------------------
(***************************************************************************)
(* How the client cuts the bytes of the server into packets: process_data  *)
(* and the receive of client_main in client.cpp.                           *)
(*                                                                         *)
(* Unlike the server it receives into a fresh buffer each time and copies  *)
(* every packet, or the part of it that has come, into packet_buffer.      *)
(* Three statics survive from one call of process_data to the next; the    *)
(* size of a packet is read once, when its first byte comes.               *)
(***************************************************************************)
EXTENDS ByteStream

VARIABLES
  net_buf,            \* client_main's net_buf
  ptr,                \* ptr, as an index of net_buf
  io_byte,            \* io_byte: bytes of net_buf still to look at
  in_packet_size,     \* static: size of the packet being put together, or 0
  saved_packet_size,  \* static: how much of it has been copied
  packet_buffer       \* static

assemblerVars == <<sent, arrived, handled, net_buf, ptr, io_byte,
                   in_packet_size, saved_packet_size, packet_buffer>>

AssemblerInit ==
  /\ sent = <<>> /\ arrived = 0 /\ handled = <<>>
  /\ net_buf = [i \in 1..B |-> 0] /\ ptr = 1 /\ io_byte = 0
  /\ in_packet_size = 0 /\ saved_packet_size = 0
  /\ packet_buffer = [i \in 1..B |-> 0]

ServerSends ==
  /\ Send
  /\ UNCHANGED <<handled, net_buf, ptr, io_byte,
                 in_packet_size, saved_packet_size, packet_buffer>>

\* client_main: one receive per frame, of at most BUF_SIZE bytes, when
\* process_data has finished with the last one.
Receive(received) ==
  /\ io_byte = 0
  /\ Carry(received)
  /\ net_buf' = [i \in 1..B |-> IF i <= received THEN arrived + i ELSE net_buf[i]]
  /\ ptr' = 1 /\ io_byte' = received
  /\ UNCHANGED <<handled, in_packet_size, saved_packet_size, packet_buffer>>

\* Mutation of PacketSize: the size is read from every buffer that comes.
PacketSizeAgain == SizeByte(net_buf[ptr])

\* The size of the packet: the one in progress, or what ptr[0] says.
PacketSize == IF in_packet_size = 0 THEN SizeByte(net_buf[ptr]) ELSE {in_packet_size}

\* memcpy(packet_buffer + saved_packet_size, ptr, n)
Copied(n) == [i \in 1..B |-> IF i \in saved_packet_size + 1 .. saved_packet_size + n
                             THEN net_buf[ptr + i - saved_packet_size - 1]
                             ELSE packet_buffer[i]]

\* The packet is there to its end.
Complete ==
  /\ io_byte > 0
  /\ \E size \in PacketSize :
       LET n == size - saved_packet_size IN
       /\ io_byte + saved_packet_size >= size
       /\ packet_buffer' = Copied(n)
       /\ handled' = Append(handled, [i \in 1..size |-> packet_buffer'[i]])
       /\ ptr' = ptr + n /\ io_byte' = io_byte - n
  /\ in_packet_size' = 0 /\ saved_packet_size' = 0
  /\ UNCHANGED <<sent, arrived, net_buf>>

\* Mutation of Save: the new part overwrites the count of the old one.
SaveLast ==
  /\ io_byte > 0
  /\ \E size \in PacketSize :
       /\ io_byte + saved_packet_size < size
       /\ in_packet_size' = size
  /\ packet_buffer' = Copied(io_byte)
  /\ saved_packet_size' = io_byte /\ io_byte' = 0
  /\ UNCHANGED <<sent, arrived, handled, net_buf, ptr>>

\* It is not: keep what has come.
Save ==
  /\ io_byte > 0
  /\ \E size \in PacketSize :
       /\ io_byte + saved_packet_size < size
       /\ in_packet_size' = size
  /\ packet_buffer' = Copied(io_byte)
  /\ saved_packet_size' = saved_packet_size + io_byte /\ io_byte' = 0
  /\ UNCHANGED <<sent, arrived, handled, net_buf, ptr>>

AssemblerNext ==
  \/ ServerSends
  \/ \E received \in 1..B : Receive(received)
  \/ Complete
  \/ Save

AssemblerSpec == AssemblerInit /\ [][AssemblerNext]_assemblerVars

\* TCP delivers what was written while the connection lasts; the window's
\* loop calls client_main every frame and process_data runs to its end.
AssemblerFairness ==
  /\ WF_assemblerVars(\E received \in 1..B : Receive(received))
  /\ WF_assemblerVars(Complete) /\ WF_assemblerVars(Save)
AssemblerFairSpec == AssemblerSpec /\ AssemblerFairness

-----------------------------------------------------------------------------
\* Types of the variables.
AssemblerTypeOK ==
  /\ sent \in Seq(Packets) /\ handled \in Seq(Packets)
  /\ arrived \in Nat
  /\ net_buf \in [1..B -> Bytes] /\ packet_buffer \in [1..B -> Bytes]
  /\ ptr \in 1..B+1 /\ io_byte \in 0..B
  /\ in_packet_size \in 0..B /\ saved_packet_size \in 0..B

\* packet_buffer and the rest of net_buf hold, between them and in order,
\* exactly the bytes received and not yet given to ProcessPacket.
AssemblerKept ==
  [i \in 1..saved_packet_size |-> packet_buffer[i]] \o [i \in 1..io_byte |-> net_buf[ptr + i - 1]]
AssemblerNoByteLost == AssemblerKept = Run(End(handled) + 1, arrived - End(handled))
=============================================================================
