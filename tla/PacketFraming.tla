--------------------------- MODULE PacketFraming ----------------------------
(***************************************************************************)
(* How the server cuts the bytes of a client into packets: the OP_RECV     *)
(* completion of worker_thread and SESSION::do_recv.                       *)
(*                                                                         *)
(* There is one overlapped receive per session, posted again at the end of *)
(* the handler, so one worker at a time is in this code for a session.  A  *)
(* completion leaves _recv_over._send_buf with the incomplete packet of    *)
(* the last one at its front and the new bytes behind it.  What            *)
(* process_packet does with a packet is the other modules' business.       *)
(*                                                                         *)
(* The final memcpy may have overlapping operands (a long rest behind a    *)
(* short packet).  It moves down, and the build's memcpy is memmove: Park  *)
(* copies as if from a snapshot.                                           *)
(***************************************************************************)
EXTENDS ByteStream

VARIABLES
  buf,           \* _recv_over._send_buf
  _prev_remain,  \* _prev_remain
  p,             \* p, as an index of buf
  remain_data,   \* remain_data
  at             \* "recv": a WSARecv is posted; "parse": the handler runs

vars == <<sent, arrived, handled, buf, _prev_remain, p, remain_data, at>>

Init ==
  /\ sent = <<>> /\ arrived = 0 /\ handled = <<>>
  /\ buf = [i \in 1..B |-> 0]
  /\ _prev_remain = 0 /\ p = 1 /\ remain_data = 0 /\ at = "recv"

ClientSends == Send /\ UNCHANGED <<handled, buf, _prev_remain, p, remain_data, at>>

\* do_recv asked for BUF_SIZE - _prev_remain bytes behind the incomplete
\* packet; num_bytes of them have come.
OnRecv(num_bytes) ==
  /\ at = "recv" /\ num_bytes <= B - _prev_remain
  /\ Carry(num_bytes)
  /\ buf' = [i \in 1..B |-> IF i \in _prev_remain + 1 .. _prev_remain + num_bytes
                            THEN arrived + i - _prev_remain ELSE buf[i]]
  /\ p' = 1 /\ remain_data' = num_bytes + _prev_remain /\ at' = "parse"
  /\ UNCHANGED <<handled, _prev_remain>>

\* Mutation of Whole: off by one.
WholeTooLate(packet_size) == packet_size < remain_data

\* The condition of the loop: the packet at p is in the buffer to its end.
Whole(packet_size) == packet_size <= remain_data

\* One turn of the loop: a whole packet is in the buffer.
ProcessPacket ==
  /\ at = "parse" /\ remain_data > 0
  /\ \E packet_size \in SizeByte(buf[p]) :
       /\ Whole(packet_size)
       /\ handled' = Append(handled, [i \in 1..packet_size |-> buf[p + i - 1]])
       /\ p' = p + packet_size
       /\ remain_data' = remain_data - packet_size
  /\ UNCHANGED <<sent, arrived, buf, _prev_remain, at>>

\* The loop is over: nothing is left, or less than a packet.
Rest == remain_data > 0 => \E packet_size \in SizeByte(buf[p]) : ~Whole(packet_size)

\* Mutation of Park: the rest stays where it is.
ParkInPlace ==
  /\ at = "parse" /\ Rest
  /\ _prev_remain' = remain_data /\ at' = "recv"
  /\ UNCHANGED <<sent, arrived, handled, buf, p, remain_data>>

\* The rest moves to the front and do_recv is called again.
Park ==
  /\ at = "parse" /\ Rest
  /\ _prev_remain' = remain_data
  /\ buf' = [i \in 1..B |-> IF i <= remain_data THEN buf[p + i - 1] ELSE buf[i]]
  /\ at' = "recv"
  /\ UNCHANGED <<sent, arrived, handled, p, remain_data>>

Next == \/ ClientSends
        \/ \E num_bytes \in 1..B : OnRecv(num_bytes)
        \/ ProcessPacket
        \/ Park

Spec == Init /\ [][Next]_vars

\* TCP delivers what was written while the connection lasts, and a worker
\* that has taken a completion runs its handler to the end.
Fairness == /\ WF_vars(\E num_bytes \in 1..B : OnRecv(num_bytes))
            /\ WF_vars(ProcessPacket) /\ WF_vars(Park)
FairSpec == Spec /\ Fairness

-----------------------------------------------------------------------------
\* Types of the variables.
TypeOK ==
  /\ sent \in Seq(Packets) /\ handled \in Seq(Packets)
  /\ arrived \in Nat
  /\ buf \in [1..B -> Bytes]
  /\ _prev_remain \in 0..B /\ p \in 1..B+1 /\ remain_data \in 0..B
  /\ at \in {"recv", "parse"}

\* The session's receive always has room: a WSARecv of no bytes at all would
\* complete with 0 bytes, which worker_thread takes for a lost connection.
RoomLeft == at = "recv" => _prev_remain < B

\* Nothing is lost and nothing is read twice: the bytes the receiver has
\* taken are those of the handled packets and, in order, those it still keeps.
Kept == IF at = "recv" THEN [i \in 1.._prev_remain |-> buf[i]]
                       ELSE [i \in 1..remain_data |-> buf[p + i - 1]]
NoByteLost == Kept = Run(End(handled) + 1, arrived - End(handled))
=============================================================================
