--------------------------- MODULE ReceiverProofs ---------------------------
(***************************************************************************)
(* The two receivers of a stream of packets, for every set of packet sizes *)
(* that fit in their buffers: PacketFraming at the server, PacketAssembler *)
(* at the client.  First what both need to know of the stream, then the    *)
(* invariants of each and that every step of it is a step of PacketStream  *)
(* or none.                                                                *)
(***************************************************************************)
EXTENDS PacketFraming, PacketAssembler, SequenceTheorems, TLAPS

First(s, k) == s[k][1]
Size(s, k)  == Len(s[k])

\* Packet k of s is a run of bytes, each one starts where the last one ends.
LaidOut(s) ==
  /\ s \in Seq(Packets)
  /\ \A k \in 1..Len(s) : /\ Size(s, k) \in Sizes
                          /\ First(s, k) \in Nat \ {0}
                          /\ s[k] = Run(First(s, k), Size(s, k))
  /\ s # <<>> => First(s, 1) = 1
  /\ \A k \in 1..Len(s)-1 : First(s, k + 1) = First(s, k) + Size(s, k)
  /\ \A j, k \in 1..Len(s) : j < k => First(s, j) < First(s, k)
  /\ End(s) <= Cap

\* The position of the first byte of s after n packets of it.
NextByte(s, n) == IF n < Len(s) THEN First(s, n + 1) ELSE End(s) + 1

-----------------------------------------------------------------------------
\* A run has the length and the bytes it is made of.
LEMMA RunFacts ==
  ASSUME NEW f \in Nat, NEW n \in Nat \ {0}
  PROVE  /\ Len(Run(f, n)) = n
         /\ DOMAIN Run(f, n) = 1..n
         /\ Run(f, n)[1] = f
         /\ Run(f, n)[n] = f + n - 1
<1>1. DOMAIN Run(f, n) = 1..n  BY DEF Run
<1>2. Run(f, n) \in Seq(Nat \cup Int)  BY DEF Run
<1>3. Len(Run(f, n)) = n  BY <1>1, <1>2
<1>4. QED  BY <1>1, <1>3 DEF Run

\* A size is a positive number of bytes and fits in a buffer.
LEMMA SizeType ==
  ASSUME NEW n \in Sizes
  PROVE  n \in Nat \ {0} /\ n <= B
BY SizesAssumption

\* The packets of a stream, one by one.
LEMMA PacketFacts ==
  ASSUME NEW s, LaidOut(s), NEW k \in 1..Len(s)
  PROVE  /\ First(s, k) \in Nat \ {0}
         /\ Size(s, k) \in Nat \ {0} /\ Size(s, k) <= B
         /\ s[k] = Run(First(s, k), Size(s, k))
<1>1. /\ First(s, k) \in Nat \ {0} /\ Size(s, k) \in Sizes
      /\ s[k] = Run(First(s, k), Size(s, k))
  BY DEF LaidOut
<1> HIDE DEF Size, First
<1>2. QED  BY <1>1, SizeType

\* The stream ends with the last byte of its last packet.
LEMMA EndOfLast ==
  ASSUME NEW s, LaidOut(s), s # <<>>
  PROVE  End(s) = First(s, Len(s)) + Size(s, Len(s)) - 1
<1>1. Len(s) \in 1..Len(s)  BY DEF LaidOut
<1> DEFINE f == First(s, Len(s))
           n == Size(s, Len(s))
<1>2. f \in Nat /\ n \in Nat \ {0} /\ s[Len(s)] = Run(f, n)
  BY <1>1, PacketFacts
<1>3. End(s) = s[Len(s)][n]  BY DEF End, Size
<1> HIDE DEF f, n
<1>4. QED  BY <1>2, <1>3, RunFacts DEF f, n

\* The number of bytes written is a number.
LEMMA EndType ==
  ASSUME NEW s, LaidOut(s)
  PROVE  End(s) \in Nat
<1>1. CASE s = <<>>  BY <1>1 DEF End
<1>2. CASE s # <<>>
  <2>1. Len(s) \in 1..Len(s)  BY <1>2 DEF LaidOut
  <2>2. First(s, Len(s)) \in Nat \ {0} /\ Size(s, Len(s)) \in Nat \ {0}
    BY <2>1, PacketFacts
  <2>3. QED  BY <1>2, <2>2, EndOfLast
<1>3. QED  BY <1>1, <1>2

\* An empty stream is laid out.
LEMMA EmptyLaidOut == LaidOut(<<>>)
BY CapAssumption DEF LaidOut, End

\* Writing a packet behind the last one keeps the stream laid out, and
\* does not change where the next packet to be handled starts.
LEMMA WritePacket ==
  ASSUME NEW s, LaidOut(s), NEW n \in Sizes, End(s) + n <= Cap,
         NEW t, t = Append(s, Run(End(s) + 1, n))
  PROVE  /\ LaidOut(t)
         /\ Len(t) = Len(s) + 1
         /\ End(t) = End(s) + n
         /\ \A k \in 1..Len(s) : t[k] = s[k]
         /\ \A k \in 0..Len(s) : NextByte(t, k) = NextByte(s, k)
<1> DEFINE f == End(s) + 1
           q == Run(f, n)
<1>1. f \in Nat \ {0} /\ n \in Nat \ {0} /\ f \in 1..Cap
  BY EndType, SizesAssumption, CapAssumption
<1>2. q \in Packets /\ Len(q) = n /\ q[1] = f /\ q[n] = f + n - 1
  BY <1>1, RunFacts DEF Packets
<1> HIDE DEF q
<1>3. /\ s \in Seq(Packets) /\ t \in Seq(Packets) /\ Len(t) = Len(s) + 1
      /\ Len(s) \in Nat /\ t[Len(s) + 1] = q /\ \A k \in 1..Len(s) : t[k] = s[k]
  BY <1>2 DEF LaidOut, q
<1>4. \A k \in 1..Len(s) : First(t, k) = First(s, k) /\ Size(t, k) = Size(s, k)
  BY <1>3 DEF First, Size
<1>5. First(t, Len(s) + 1) = f /\ Size(t, Len(s) + 1) = n
  BY <1>2, <1>3 DEF First, Size
<1>6. \A k \in 1..Len(t) : /\ Size(t, k) \in Sizes /\ First(t, k) \in Nat \ {0}
                           /\ t[k] = Run(First(t, k), Size(t, k))
  <2>1. TAKE k \in 1..Len(t)
  <2>2. CASE k \in 1..Len(s)  BY <2>2, <1>3, <1>4 DEF LaidOut
  <2>3. CASE k = Len(s) + 1  BY <2>3, <1>1, <1>3, <1>5 DEF q
  <2>4. QED  BY <2>2, <2>3, <1>3
<1>7. s # <<>> => f = First(s, Len(s)) + Size(s, Len(s))
  <2>1. HAVE s # <<>>
  <2>2. Len(s) \in 1..Len(s)  BY <2>1, <1>3
  <2>3. First(s, Len(s)) \in Nat /\ Size(s, Len(s)) \in Nat
    BY <2>2, PacketFacts
  <2>4. QED  BY <2>1, <2>3, EndOfLast
<1>8. t # <<>> /\ First(t, 1) = 1
  <2>1. CASE s = <<>>  BY <2>1, <1>3, <1>5 DEF End
  <2>2. CASE s # <<>>  BY <2>2, <1>3, <1>4 DEF LaidOut
  <2>3. QED  BY <2>1, <2>2, <1>3
<1>9. \A k \in 1..Len(t)-1 : First(t, k + 1) = First(t, k) + Size(t, k)
  <2>1. TAKE k \in 1..Len(t)-1
  <2>2. CASE k = Len(s)
    <3>1. s # <<>>  BY <2>2, <1>3
    <3>2. QED  BY <3>1, <2>2, <1>3, <1>4, <1>5, <1>7
  <2>3. CASE k \in 1..Len(s)-1  BY <2>3, <1>3, <1>4 DEF LaidOut
  <2>4. QED  BY <2>2, <2>3, <1>3
<1>10. \A j, k \in 1..Len(t) : j < k => First(t, j) < First(t, k)
  <2>1. SUFFICES ASSUME NEW j \in 1..Len(t), NEW k \in 1..Len(t), j < k
                 PROVE  First(t, j) < First(t, k)
    OBVIOUS
  <2>2. CASE k \in 1..Len(s)  BY <2>1, <2>2, <1>3, <1>4 DEF LaidOut
  <2>3. CASE k = Len(s) + 1
    <3>1. s # <<>> /\ j \in 1..Len(s) /\ Len(s) \in 1..Len(s)  BY <2>1, <2>3, <1>3
    <3>2. First(s, j) <= First(s, Len(s))
      BY <3>1, <1>3 DEF LaidOut
    <3>3. First(s, Len(s)) \in Nat /\ Size(s, Len(s)) \in Nat \ {0} /\ First(s, j) \in Nat
      BY <3>1, PacketFacts
    <3>4. QED  BY <3>1, <3>2, <3>3, <2>3, <1>4, <1>5, <1>7
  <2>4. QED  BY <2>2, <2>3, <1>3
<1>11. End(t) = f + n - 1
  <2>1. Len(t) \in 1..Len(t)  BY <1>3
  <2>2. End(t) = t[Len(t)][Len(t[Len(t)])]  BY <1>8 DEF End
  <2>3. t[Len(t)] = q  BY <1>3
  <2>4. QED  BY <2>2, <2>3, <1>2
<1>12. End(t) = End(s) + n  BY <1>11, <1>1, EndType
<1>13. LaidOut(t)  BY <1>3, <1>6, <1>8, <1>9, <1>10, <1>12 DEF LaidOut
<1>14. \A k \in 0..Len(s) : NextByte(t, k) = NextByte(s, k)
  <2>1. TAKE k \in 0..Len(s)
  <2>2. CASE k = Len(s)  BY <2>2, <1>3, <1>5 DEF NextByte
  <2>3. CASE k < Len(s)  BY <2>3, <1>3, <1>4 DEF NextByte
  <2>4. QED  BY <2>2, <2>3, <1>3
<1> HIDE DEF f
<1>15. QED  BY <1>3, <1>12, <1>13, <1>14

\* After one packet more the next byte is one packet further.
LEMMA NextPacket ==
  ASSUME NEW s, LaidOut(s), NEW n \in 0..Len(s) - 1
  PROVE  /\ NextByte(s, n) = First(s, n + 1)
         /\ NextByte(s, n + 1) = First(s, n + 1) + Size(s, n + 1)
<1>1. Len(s) \in Nat /\ n + 1 \in 1..Len(s) /\ s # <<>>  BY DEF LaidOut
<1>2. First(s, n + 1) \in Nat /\ Size(s, n + 1) \in Nat
  BY <1>1, PacketFacts
<1>3. CASE n + 1 < Len(s)
  BY <1>1, <1>3 DEF LaidOut, NextByte
<1>4. CASE n + 1 = Len(s)
  BY <1>1, <1>2, <1>4, EndOfLast DEF NextByte
<1>5. QED  BY <1>1, <1>3, <1>4

\* The next byte is a position of the stream or the one behind its end.
LEMMA NextByteType ==
  ASSUME NEW s, LaidOut(s), NEW n \in 0..Len(s)
  PROVE  /\ NextByte(s, n) \in Nat \ {0}
         /\ n = Len(s) => NextByte(s, n) = End(s) + 1
<1>1. Len(s) \in Nat  BY DEF LaidOut
<1>2. CASE n < Len(s)
  <2>1. n + 1 \in 1..Len(s)  BY <1>1, <1>2
  <2>2. QED  BY <2>1, <1>2, <1>1 DEF LaidOut, NextByte
<1>3. CASE n = Len(s)  BY <1>3, <1>1, EndType DEF NextByte
<1>4. QED  BY <1>1, <1>2, <1>3

\* Once a first part of the stream has been handled, the next byte is the
\* one behind it.
LEMMA EndOfPrefix ==
  ASSUME NEW s, LaidOut(s), NEW h \in Seq(Packets), Len(h) <= Len(s),
         \A k \in 1..Len(h) : h[k] = s[k]
  PROVE  End(h) \in Nat /\ NextByte(s, Len(h)) = End(h) + 1
<1>1. Len(h) \in Nat /\ Len(s) \in Nat  BY DEF LaidOut
<1>2. CASE h = <<>>
  <2>1. Len(h) = 0 /\ End(h) = 0  BY <1>2 DEF End
  <2>2. CASE s = <<>>  BY <2>1, <2>2 DEF NextByte, End
  <2>3. CASE s # <<>>
    <3>1. 0 < Len(s) /\ First(s, 1) = 1  BY <2>3, <1>1 DEF LaidOut
    <3>2. QED  BY <3>1, <2>1 DEF NextByte
  <2>4. QED  BY <2>2, <2>3
<1>3. CASE h # <<>>
  <2> DEFINE m == Len(h)
  <2>1. m \in 1..Len(s) /\ m - 1 \in 0..Len(s)-1 /\ h[m] = s[m]  BY <1>1, <1>3
  <2>2. End(h) = s[m][Size(s, m)]  BY <2>1, <1>3 DEF End, Size
  <2>3. /\ First(s, m) \in Nat \ {0} /\ Size(s, m) \in Nat \ {0}
        /\ s[m] = Run(First(s, m), Size(s, m))
    BY <2>1, PacketFacts
  <2> HIDE DEF m
  <2>4. End(h) = First(s, m) + Size(s, m) - 1  BY <2>2, <2>3, RunFacts
  <2>5. NextByte(s, (m - 1) + 1) = First(s, (m - 1) + 1) + Size(s, (m - 1) + 1)
    BY <2>1, NextPacket
  <2>6. (m - 1) + 1 = m  BY <1>1 DEF m
  <2>7. NextByte(s, m) = First(s, m) + Size(s, m)  BY <2>5, <2>6
  <2>8. QED  BY <2>3, <2>4, <2>7 DEF m
<1>4. QED  BY <1>2, <1>3

\* The first byte of a packet tells its size and nothing else.
LEMMA SizeOfHead ==
  ASSUME LaidOut(sent), NEW k \in 1..Len(sent)
  PROVE  SizeByte(First(sent, k)) = {Size(sent, k)}
<1> DEFINE headed == {j \in DOMAIN sent : sent[j][1] = First(sent, k)}
<1>1. Len(sent) \in Nat /\ DOMAIN sent = 1..Len(sent)  BY DEF LaidOut
<1>2. \A j \in 1..Len(sent) : First(sent, j) \in Nat  BY DEF LaidOut
<1>3. \A j \in 1..Len(sent) : First(sent, j) = First(sent, k) => j = k
  <2>1. SUFFICES ASSUME NEW j \in 1..Len(sent), First(sent, j) = First(sent, k), j # k
                 PROVE  FALSE
    OBVIOUS
  <2>2. CASE j < k  BY <2>1, <2>2, <1>2 DEF LaidOut
  <2>3. CASE k < j  BY <2>1, <2>3, <1>2 DEF LaidOut
  <2>4. QED  BY <2>1, <2>2, <2>3, <1>1
<1>4. headed = {k}  BY <1>1, <1>3 DEF First
<1>5. QED  BY <1>4 DEF SizeByte, Size

\* The handled packets are the first of the packets sent.
Prefix ==
  /\ handled \in Seq(Packets)
  /\ Len(handled) <= Len(sent)
  /\ \A k \in 1..Len(handled) : handled[k] = sent[k]

Next0 == NextByte(sent, Len(handled))

-----------------------------------------------------------------------------
(* The server. *)

\* Where the bytes kept for the next packets begin, and how many they are.
Base == IF at = "recv" THEN 1 ELSE p
Held == IF at = "recv" THEN _prev_remain ELSE remain_data

Types ==
  /\ arrived \in Nat
  /\ buf \in [1..B -> Bytes]
  /\ _prev_remain \in 0..B /\ p \in 1..B+1 /\ remain_data \in 0..B
  /\ at \in {"recv", "parse"}

\* The kept bytes are the next ones of the stream, up to the last arrived.
Window ==
  /\ Base + Held <= B + 1
  /\ arrived = Next0 - 1 + Held
  /\ arrived <= Written
  /\ \A i \in 1..Held : buf[Base + i - 1] = Next0 + i - 1

\* Between two completions less than a packet is kept.
Incomplete ==
  at = "recv" /\ _prev_remain > 0 => _prev_remain < Size(sent, Len(handled) + 1)

IInv == LaidOut(sent) /\ Types /\ Prefix /\ Window /\ Incomplete

-----------------------------------------------------------------------------
LEMMA InitIInv == Init => IInv
<1> SUFFICES ASSUME Init PROVE IInv  OBVIOUS
<1>1. LaidOut(sent)  BY EmptyLaidOut DEF Init
<1>2. Types  BY SizesAssumption, CapAssumption DEF Init, Types, Bytes
<1>3. Prefix  BY DEF Init, Prefix
<1>4. sent = <<>> /\ handled = <<>> /\ Len(sent) = 0 /\ Len(handled) = 0  BY DEF Init
<1>5. Next0 = 1 /\ Written = 0  BY <1>4 DEF Next0, NextByte, End, Written
<1>6. Window  BY <1>5, SizesAssumption DEF Init, Window, Base, Held
<1>7. Incomplete  BY DEF Init, Incomplete
<1>8. QED  BY <1>1, <1>2, <1>3, <1>6, <1>7 DEF IInv

\* A byte kept beyond those of the handled packets belongs to a packet sent.
LEMMA KeptIsSent ==
  ASSUME IInv, Held > 0
  PROVE  /\ Len(handled) + 1 \in 1..Len(sent) /\ Len(handled) \in 0..Len(sent)-1
         /\ Next0 = First(sent, Len(handled) + 1)
         /\ SizeByte(buf[Base]) = {Size(sent, Len(handled) + 1)}
<1>1. Len(handled) \in 0..Len(sent) /\ Len(sent) \in Nat
  BY DEF IInv, Prefix, LaidOut
<1>2. Held \in Nat /\ Base \in Nat  BY DEF IInv, Types, Held, Base
<1>3. Len(handled) # Len(sent)
  BY <1>1, <1>2, NextByteType, EndType DEF IInv, Window, Next0, Written
<1>4. Len(handled) + 1 \in 1..Len(sent) /\ Len(handled) \in 0..Len(sent)-1
  BY <1>1, <1>3
<1>5. Next0 = First(sent, Len(handled) + 1)
  BY <1>4, NextPacket DEF IInv, Next0
<1>6. Next0 \in Nat  BY <1>1, NextByteType DEF IInv, Next0
<1>7. buf[Base] = Next0
  <2>1. buf[Base + 1 - 1] = Next0 + 1 - 1  BY <1>2 DEF IInv, Window
  <2>2. QED  BY <2>1, <1>2, <1>6
<1>8. QED  BY <1>4, <1>5, <1>7, SizeOfHead DEF IInv

\* Writing a packet changes nothing of what has been received.
LEMMA SendIInv ==
  ASSUME IInv, ClientSends
  PROVE  IInv'
<1>1. PICK n \in Sizes : Written + n <= Cap /\ sent' = Append(sent, Run(Written + 1, n))
  BY DEF ClientSends, Send
<1>2. /\ LaidOut(sent') /\ Len(sent') = Len(sent) + 1 /\ End(sent') = End(sent) + n
      /\ \A k \in 1..Len(sent) : sent'[k] = sent[k]
      /\ \A k \in 0..Len(sent) : NextByte(sent', k) = NextByte(sent, k)
  BY <1>1, WritePacket DEF IInv, Written
<1>3. Len(sent) \in Nat /\ Len(handled) \in 0..Len(sent) /\ End(sent) \in Nat /\ n \in Nat
  BY EndType, SizeType DEF IInv, Prefix, LaidOut
<1>4. UNCHANGED <<arrived, handled, buf, _prev_remain, p, remain_data, at>>
  BY DEF ClientSends, Send
<1>5. Next0' = Next0  BY <1>2, <1>3, <1>4 DEF Next0
<1>6. Types'  BY <1>4 DEF IInv, Types
<1>7. Prefix'  BY <1>2, <1>3, <1>4 DEF IInv, Prefix
<1>8. Held' = Held /\ Base' = Base  BY <1>4 DEF Held, Base
<1>9. Window'
  BY <1>2, <1>3, <1>4, <1>5, <1>8 DEF IInv, Types, Window, Written
<1>10. Incomplete'
  <2>1. CASE at = "recv" /\ _prev_remain > 0
    <3>1. Len(handled) + 1 \in 1..Len(sent)  BY <2>1, KeptIsSent DEF Held
    <3>2. sent'[Len(handled) + 1] = sent[Len(handled) + 1]  BY <3>1, <1>2
    <3>3. QED  BY <3>2, <2>1, <1>4 DEF IInv, Incomplete, Size
  <2>2. CASE ~(at = "recv" /\ _prev_remain > 0)  BY <2>2, <1>4 DEF Incomplete
  <2>3. QED  BY <2>1, <2>2
<1>11. QED  BY <1>2, <1>6, <1>7, <1>9, <1>10 DEF IInv

\* New bytes go behind those kept.
LEMMA OnRecvIInv ==
  ASSUME IInv, NEW num_bytes \in 1..B, OnRecv(num_bytes)
  PROVE  IInv'
<1>1. /\ at = "recv" /\ num_bytes <= B - _prev_remain
      /\ num_bytes <= Written - arrived /\ arrived' = arrived + num_bytes
      /\ p' = 1 /\ remain_data' = num_bytes + _prev_remain /\ at' = "parse"
      /\ UNCHANGED <<sent, handled, _prev_remain>>
  BY DEF OnRecv, Carry
<1>2. \A i \in 1..B : buf'[i] = IF i \in _prev_remain + 1 .. _prev_remain + num_bytes
                                THEN arrived + i - _prev_remain ELSE buf[i]
  BY DEF OnRecv
<1>3. /\ arrived \in Nat /\ _prev_remain \in 0..B /\ B \in Nat /\ num_bytes \in Nat
      /\ arrived = Next0 - 1 + _prev_remain
      /\ \A i \in 1.._prev_remain : buf[1 + i - 1] = Next0 + i - 1
  BY <1>1, SizesAssumption DEF IInv, Types, Window, Held, Base
<1>4. Next0 \in Nat /\ Written \in Nat
  BY NextByteType, EndType DEF IInv, Prefix, LaidOut, Next0, Written
<1>5. Written <= Cap /\ Written' = Written /\ Next0' = Next0
  <2>1. Written <= Cap
    BY DEF IInv, Written, LaidOut
  <2>2. QED  BY <2>1, <1>1 DEF Written, Next0
<1>6. Types'
  <2>1. buf' \in [1..B -> Bytes]
    <3>1. buf' = [i \in 1..B |-> IF i \in _prev_remain + 1 .. _prev_remain + num_bytes
                                 THEN arrived + i - _prev_remain ELSE buf[i]]
      BY DEF OnRecv
    <3>2. \A i \in 1..B : buf[i] \in Bytes  BY DEF IInv, Types
    <3>3. ASSUME NEW i \in _prev_remain + 1 .. _prev_remain + num_bytes
          PROVE  arrived + i - _prev_remain \in Bytes
      BY <1>1, <1>3, <1>4, <1>5, CapAssumption DEF Bytes
    <3>4. QED  BY <3>1, <3>2, <3>3
  <2>2. QED  BY <1>1, <1>3, <2>1 DEF Types
<1>7. Prefix'  BY <1>1 DEF IInv, Prefix
<1>8. Held' = num_bytes + _prev_remain /\ Base' = 1  BY <1>1 DEF Held, Base
<1>9. \A i \in 1..num_bytes + _prev_remain : buf'[i] = Next0 + i - 1
  <2>1. TAKE i \in 1..num_bytes + _prev_remain
  <2>2. i \in 1..B  BY <1>1, <1>3
  <2>3. CASE i <= _prev_remain
    <3>1. buf[1 + i - 1] = Next0 + i - 1 /\ 1 + i - 1 = i  BY <2>3, <1>3
    <3>2. QED  BY <3>1, <2>2, <2>3, <1>2, <1>3
  <2>4. CASE i > _prev_remain
    BY <2>2, <2>4, <1>2, <1>3, <1>4
  <2>5. QED  BY <2>3, <2>4, <1>3
<1>10. Window'
  <2>1. \A i \in 1..Held' : buf'[Base' + i - 1] = Next0' + i - 1
    BY <1>3, <1>5, <1>8, <1>9
  <2>2. Base' + Held' <= B + 1 /\ arrived' = Next0' - 1 + Held' /\ arrived' <= Written'
    BY <1>1, <1>3, <1>4, <1>5, <1>8
  <2>3. QED  BY <2>1, <2>2 DEF Window
<1>11. Incomplete'  BY <1>1 DEF Incomplete
<1>12. LaidOut(sent')  BY <1>1 DEF IInv
<1>13. QED  BY <1>6, <1>7, <1>10, <1>11, <1>12 DEF IInv

\* process_packet is called with the next packet sent.
LEMMA ProcessPacketStep ==
  ASSUME IInv, ProcessPacket
  PROVE  /\ Len(handled) + 1 \in 1..Len(sent)
         /\ handled' = Append(handled, sent[Len(handled) + 1])
         /\ p' = p + Size(sent, Len(handled) + 1)
         /\ remain_data' = remain_data - Size(sent, Len(handled) + 1)
         /\ Size(sent, Len(handled) + 1) <= remain_data
         /\ Next0 = First(sent, Len(handled) + 1)
<1> DEFINE k == Len(handled) + 1
           n == Size(sent, k)
           f == First(sent, k)
<1>1. at = "parse" /\ remain_data > 0 /\ Held = remain_data /\ Base = p
  BY DEF ProcessPacket, Held, Base
<1>2. k \in 1..Len(sent) /\ Next0 = f /\ SizeByte(buf[p]) = {n}
  BY <1>1, KeptIsSent
<1>3. /\ n <= remain_data
      /\ handled' = Append(handled, [i \in 1..n |-> buf[p + i - 1]])
      /\ p' = p + n /\ remain_data' = remain_data - n
  BY <1>2 DEF ProcessPacket, Whole
<1>4. f \in Nat /\ n \in Nat \ {0} /\ sent[k] = Run(f, n)  BY <1>2, PacketFacts DEF IInv
<1>5. \A i \in 1..n : buf[p + i - 1] = f + i - 1
  <2>1. n \in Nat /\ n <= Held /\ Held \in 0..B  BY <1>1, <1>3, <1>4 DEF IInv, Types
  <2>2. \A i \in 1..Held : buf[Base + i - 1] = Next0 + i - 1  BY DEF IInv, Window
  <2> HIDE DEF n, f
  <2>3. QED  BY <2>1, <2>2, <1>1, <1>2
<1> HIDE DEF k, n, f
<1>6. [i \in 1..n |-> buf[p + i - 1]] = sent[k]  BY <1>4, <1>5 DEF Run
<1>7. QED  BY <1>2, <1>3, <1>6 DEF k, n, f

LEMMA ProcessPacketIInv ==
  ASSUME IInv, ProcessPacket
  PROVE  IInv'
<1> DEFINE k == Len(handled) + 1
           n == Size(sent, k)
<1>1. /\ k \in 1..Len(sent) /\ handled' = Append(handled, sent[k])
      /\ p' = p + n /\ remain_data' = remain_data - n /\ n <= remain_data
      /\ Next0 = First(sent, k)
  BY ProcessPacketStep
<1>2. /\ at = "parse" /\ Held = remain_data /\ Base = p
      /\ Held' = remain_data' /\ Base' = p'
      /\ UNCHANGED <<sent, arrived, buf, _prev_remain, at>>
  BY DEF ProcessPacket, Held, Base
<1>3. n \in Nat \ {0} /\ First(sent, k) \in Nat  BY <1>1, PacketFacts DEF IInv
<1>4. Len(handled) \in Nat /\ Len(handled) \in 0..Len(sent)-1 /\ sent[k] \in Packets
      /\ handled \in Seq(Packets) /\ Len(sent) \in Nat
  BY <1>1 DEF IInv, Prefix, LaidOut
<1>5. Len(handled') = k /\ handled' \in Seq(Packets)
      /\ \A j \in 1..k : handled'[j] = IF j = k THEN sent[k] ELSE handled[j]
  BY <1>1, <1>4
<1>6. Next0' = Next0 + n
  <2>1. NextByte(sent, k) = First(sent, k) + n  BY <1>4, NextPacket DEF IInv
  <2>2. Next0' = NextByte(sent, k)  BY <1>2, <1>5 DEF Next0
  <2>3. QED  BY <1>1, <2>1, <2>2
<1> HIDE DEF n
<1>7. /\ p \in 1..B+1 /\ remain_data \in 0..B /\ p + remain_data <= B + 1 /\ B \in Nat
      /\ arrived = Next0 - 1 + remain_data /\ Next0 \in Nat /\ arrived <= Written
      /\ \A i \in 1..remain_data : buf[p + i - 1] = Next0 + i - 1
  BY <1>1, <1>2, <1>3, SizesAssumption DEF IInv, Types, Window
<1>8. Types'  BY <1>1, <1>2, <1>3, <1>7 DEF IInv, Types
<1>9. Prefix'  BY <1>1, <1>2, <1>4, <1>5 DEF IInv, Prefix
<1>10. \A i \in 1..remain_data' : buf'[p' + i - 1] = Next0' + i - 1
  <2>1. TAKE i \in 1..remain_data'
  <2>2. n + i \in 1..remain_data  BY <1>1, <1>3, <1>7
  <2>3. buf[p + (n + i) - 1] = Next0 + (n + i) - 1  BY <2>2, <1>7
  <2>4. QED  BY <2>3, <1>1, <1>2, <1>3, <1>6, <1>7
<1>11. Window'
  <2>1. Written' = Written  BY <1>2 DEF Written
  <2>2. QED  BY <2>1, <1>1, <1>2, <1>3, <1>6, <1>7, <1>10 DEF Window
<1>12. Incomplete'  BY <1>2 DEF Incomplete
<1>13. QED  BY <1>2, <1>8, <1>9, <1>11, <1>12 DEF IInv

\* The rest, less than a packet, moves to the front.
LEMMA ParkIInv ==
  ASSUME IInv, Park
  PROVE  IInv'
<1>1. /\ at = "parse" /\ Rest /\ _prev_remain' = remain_data /\ at' = "recv"
      /\ buf' = [i \in 1..B |-> IF i <= remain_data THEN buf[p + i - 1] ELSE buf[i]]
      /\ UNCHANGED <<sent, arrived, handled, p, remain_data>>
  BY DEF Park
<1>2. Held = remain_data /\ Base = p /\ Held' = remain_data /\ Base' = 1
  BY <1>1 DEF Held, Base
<1>3. /\ p \in 1..B+1 /\ remain_data \in 0..B /\ p + remain_data <= B + 1 /\ B \in Nat
      /\ \A i \in 1..B : buf[i] \in Bytes
      /\ \A i \in 1..remain_data : buf[p + i - 1] = Next0 + i - 1
  BY <1>2, SizesAssumption DEF IInv, Types, Window
<1>4. Types'
  <2>1. \A i \in 1..B : i <= remain_data => p + i - 1 \in 1..B  BY <1>3
  <2>2. buf' \in [1..B -> Bytes]  BY <1>1, <1>3, <2>1
  <2>3. QED  BY <1>1, <1>3, <2>2 DEF IInv, Types
<1>5. Prefix'  BY <1>1 DEF IInv, Prefix
<1>6. Next0' = Next0 /\ Written' = Written  BY <1>1 DEF Next0, Written
<1>7. \A i \in 1..remain_data : buf'[1 + i - 1] = Next0 + i - 1
  BY <1>1, <1>3
<1>8. Window'
  <2>1. \A i \in 1..Held' : buf'[Base' + i - 1] = Next0' + i - 1
    BY <1>2, <1>6, <1>7
  <2>2. Base' + Held' <= B + 1  BY <1>2, <1>3
  <2>3. arrived' = Next0' - 1 + Held' /\ arrived' <= Written'
    BY <1>1, <1>2, <1>6 DEF IInv, Window
  <2>4. QED  BY <2>1, <2>2, <2>3 DEF Window
<1>9. Incomplete'
  <2>1. SUFFICES ASSUME remain_data > 0
                 PROVE  remain_data < Size(sent, Len(handled) + 1)
    BY <1>1 DEF Incomplete, Size
  <2>2. /\ Len(handled) + 1 \in 1..Len(sent)
        /\ SizeByte(buf[p]) = {Size(sent, Len(handled) + 1)}
    BY <2>1, <1>2, KeptIsSent
  <2>3. Size(sent, Len(handled) + 1) \in Nat  BY <2>2, PacketFacts DEF IInv
  <2>4. ~(Size(sent, Len(handled) + 1) <= remain_data)
    BY <1>1, <2>1, <2>2 DEF Rest, Whole
  <2>5. QED  BY <2>3, <2>4, <1>3
<1>10. LaidOut(sent')  BY <1>1 DEF IInv
<1>11. QED  BY <1>4, <1>5, <1>8, <1>9, <1>10 DEF IInv

LEMMA NextIInv == IInv /\ [Next]_vars => IInv'
<1> SUFFICES ASSUME IInv, [Next]_vars PROVE IInv'  OBVIOUS
<1>1. CASE ClientSends  BY <1>1, SendIInv
<1>2. CASE \E num_bytes \in 1..B : OnRecv(num_bytes)  BY <1>2, OnRecvIInv
<1>3. CASE ProcessPacket  BY <1>3, ProcessPacketIInv
<1>4. CASE Park  BY <1>4, ParkIInv
<1>5. CASE UNCHANGED vars
  BY <1>5 DEF IInv, vars, Types, Prefix, Window, Incomplete, Held, Base, Next0, Written
<1>6. QED  BY <1>1, <1>2, <1>3, <1>4, <1>5 DEF Next

\* The inductive invariant holds in every reachable state.
THEOREM Invariance == Spec => []IInv
BY InitIInv, NextIInv, PTL DEF Spec

\* The variables keep their types (worker_thread, do_recv).
THEOREM TypeCorrect == Spec => []TypeOK
<1>1. IInv => TypeOK  BY DEF IInv, LaidOut, Types, Prefix, TypeOK
<1>2. QED  BY <1>1, Invariance, PTL

\* do_recv never asks for zero bytes: a packet that is not there to its end
\* leaves room, because no packet is longer than the buffer.
THEOREM RoomLeftHolds == Spec => []RoomLeft
<1>1. IInv => RoomLeft
  <2> SUFFICES ASSUME IInv, at = "recv" PROVE _prev_remain < B  BY DEF RoomLeft
  <2>1. CASE _prev_remain > 0
    <3>1. Len(handled) + 1 \in 1..Len(sent)  BY <2>1, KeptIsSent DEF Held
    <3>2. Size(sent, Len(handled) + 1) \in Nat /\ Size(sent, Len(handled) + 1) <= B
      BY <3>1, PacketFacts DEF IInv
    <3>3. QED  BY <3>2, <2>1, SizesAssumption DEF IInv, Types, Incomplete
  <2>2. CASE _prev_remain = 0
    BY <2>2, SizesAssumption
  <2>3. QED  BY <2>1, <2>2 DEF IInv, Types
<1>2. QED  BY <1>1, Invariance, PTL

\* The handler's bytes end where the kept ones begin.
LEMMA NextIsBehindHandled ==
  ASSUME IInv
  PROVE  End(handled) \in Nat /\ Next0 = End(handled) + 1
BY EndOfPrefix DEF IInv, Prefix, Next0

\* No byte is lost, read twice or moved past another: what is kept is what
\* has come and has not been handled (the loop of OP_RECV and its memcpy).
THEOREM NoByteLostHolds == Spec => []NoByteLost
<1>1. IInv => NoByteLost
  <2> SUFFICES ASSUME IInv PROVE NoByteLost  OBVIOUS
  <2>1. Held \in Nat /\ Next0 \in Nat \ {0} /\ arrived = Next0 - 1 + Held
    BY NextByteType DEF IInv, Types, Window, Held, Prefix, LaidOut, Next0
  <2>2. End(handled) + 1 = Next0 /\ End(handled) \in Nat  BY NextIsBehindHandled
  <2>4. arrived - End(handled) = Held  BY <2>1, <2>2
  <2>5. Kept = [i \in 1..Held |-> buf[Base + i - 1]]
    <3>1. CASE at = "recv"
      <4>1. \A i \in 1.._prev_remain : 1 + i - 1 = i  BY DEF IInv, Types
      <4>2. QED  BY <3>1, <4>1 DEF Kept, Held, Base
    <3>2. CASE at # "recv"  BY <3>2 DEF Kept, Held, Base
    <3>3. QED  BY <3>1, <3>2
  <2>6. \A i \in 1..Held : buf[Base + i - 1] = Next0 + i - 1  BY DEF IInv, Window
  <2>7. Kept = Run(Next0, Held)  BY <2>5, <2>6 DEF Run
  <2>8. QED  BY <2>2, <2>4, <2>7 DEF NoByteLost
<1>2. QED  BY <1>1, Invariance, PTL

-----------------------------------------------------------------------------
\* Every step sends a packet, handles the next one, or changes neither.
LEMMA StepImplements ==
  ASSUME IInv, [Next]_vars
  PROVE  [Stream!Next]_(Stream!svars)
<1>1. CASE ClientSends
  <2>1. PICK n \in Sizes : Written + n <= Cap /\ sent' = Append(sent, Run(Written + 1, n))
    BY <1>1 DEF ClientSends, Send
  <2>2. Written \in Nat /\ n \in Nat \ {0}  BY EndType, SizeType DEF IInv, Written
  <2>3. Run(Written + 1, n) \in Packets
    <3>1. Written + 1 \in 1..Cap  BY <2>1, <2>2, CapAssumption
    <3>2. QED  BY <3>1 DEF Packets
  <2>4. handled' = handled  BY <1>1 DEF ClientSends
  <2>5. QED  BY <2>1, <2>3, <2>4 DEF Stream!Next, Stream!Send
<1>2. CASE \E num_bytes \in 1..B : OnRecv(num_bytes)
  BY <1>2 DEF OnRecv, Carry, Stream!svars
<1>3. CASE ProcessPacket
  <2>1. /\ Len(handled) + 1 \in 1..Len(sent)
        /\ handled' = Append(handled, sent[Len(handled) + 1])
    BY <1>3, ProcessPacketStep
  <2>2. Len(handled) < Len(sent) /\ sent' = sent
    BY <1>3, <2>1 DEF ProcessPacket, IInv, Prefix, LaidOut
  <2>3. QED  BY <2>1, <2>2 DEF Stream!Next, Stream!Handle
<1>4. CASE Park  BY <1>4 DEF Park, Stream!svars
<1>5. CASE UNCHANGED vars  BY <1>5 DEF vars, Stream!svars
<1>6. QED  BY <1>1, <1>2, <1>3, <1>4, <1>5 DEF Next

\* The server implements the packet stream: process_packet sees what the
\* client sent, whole, once and in order, however TCP cuts it.
THEOREM Implements == Spec => InOrder
<1>1. Init => Stream!Init  BY DEF Init, Stream!Init
<1>2. IInv /\ [Next]_vars => [Stream!Next]_(Stream!svars)  BY StepImplements
<1>3. QED  BY <1>1, <1>2, Invariance, PTL DEF Spec, InOrder, Stream!Safety

-----------------------------------------------------------------------------
(* The client. *)

AssemblerTypes ==
  /\ arrived \in Nat
  /\ net_buf \in [1..B -> Bytes] /\ packet_buffer \in [1..B -> Bytes]
  /\ ptr \in 1..B+1 /\ io_byte \in 0..B
  /\ in_packet_size \in 0..B /\ saved_packet_size \in 0..B

\* packet_buffer begins with the next bytes of the stream, net_buf goes on.
AssemblerWindow ==
  /\ ptr + io_byte <= B + 1
  /\ arrived = Next0 - 1 + saved_packet_size + io_byte
  /\ arrived <= Written
  /\ \A i \in 1..saved_packet_size : packet_buffer[i] = Next0 + i - 1
  /\ \A i \in 1..io_byte :
       net_buf[ptr + i - 1] = Next0 + saved_packet_size + i - 1

\* A packet in progress has its size, and less than that is there.
InProgress ==
  /\ in_packet_size = 0 <=> saved_packet_size = 0
  /\ in_packet_size # 0 => /\ saved_packet_size < in_packet_size
                           /\ Len(handled) < Len(sent)
                           /\ in_packet_size = Size(sent, Len(handled) + 1)

AssemblerIInv == LaidOut(sent) /\ AssemblerTypes /\ Prefix /\ AssemblerWindow /\ InProgress

-----------------------------------------------------------------------------
LEMMA AssemblerInitIInv == AssemblerInit => AssemblerIInv
<1> SUFFICES ASSUME AssemblerInit PROVE AssemblerIInv  OBVIOUS
<1>1. LaidOut(sent)  BY EmptyLaidOut DEF AssemblerInit
<1>2. AssemblerTypes  BY SizesAssumption, CapAssumption DEF AssemblerInit, AssemblerTypes, Bytes
<1>3. Prefix  BY DEF AssemblerInit, Prefix
<1>4. sent = <<>> /\ handled = <<>> /\ Len(sent) = 0 /\ Len(handled) = 0  BY DEF AssemblerInit
<1>5. Next0 = 1 /\ Written = 0  BY <1>4 DEF Next0, NextByte, End, Written
<1>6. AssemblerWindow  BY <1>5, SizesAssumption DEF AssemblerInit, AssemblerWindow
<1>7. InProgress  BY DEF AssemblerInit, InProgress
<1>8. QED  BY <1>1, <1>2, <1>3, <1>6, <1>7 DEF AssemblerIInv

\* The numbers of the invariant, for the steps that only need arithmetic.
LEMMA AssemblerNumbers ==
  ASSUME AssemblerIInv
  PROVE  /\ Len(sent) \in Nat /\ Len(handled) \in 0..Len(sent)
         /\ Next0 \in Nat \ {0} /\ Written \in Nat /\ Written <= Cap
         /\ arrived = Next0 - 1 + saved_packet_size + io_byte
<1>1. Len(sent) \in Nat /\ Len(handled) \in 0..Len(sent)
  BY DEF AssemblerIInv, Prefix, LaidOut
<1>2. QED
  BY <1>1, NextByteType, EndType DEF AssemblerIInv, AssemblerWindow, LaidOut, Next0, Written

\* While bytes are there to look at, a packet is under way, and PacketSize
\* is its size, read now or remembered.
LEMMA AssemblerSizeRead ==
  ASSUME AssemblerIInv, io_byte > 0
  PROVE  /\ Len(handled) + 1 \in 1..Len(sent) /\ Len(handled) \in 0..Len(sent)-1
         /\ Next0 = First(sent, Len(handled) + 1)
         /\ PacketSize = {Size(sent, Len(handled) + 1)}
         /\ Size(sent, Len(handled) + 1) \in Nat \ {0}
         /\ Size(sent, Len(handled) + 1) <= B
         /\ saved_packet_size < Size(sent, Len(handled) + 1)
<1>1. io_byte \in Nat /\ saved_packet_size \in Nat /\ in_packet_size \in Nat
      /\ arrived <= Written
  BY DEF AssemblerIInv, AssemblerTypes, AssemblerWindow
<1>2. Len(handled) # Len(sent)
  BY <1>1, AssemblerNumbers, NextByteType DEF AssemblerIInv, Next0, Written
<1>3. Len(handled) + 1 \in 1..Len(sent) /\ Len(handled) \in 0..Len(sent)-1
  BY <1>2, AssemblerNumbers
<1>4. Next0 = First(sent, Len(handled) + 1)  BY <1>3, NextPacket DEF AssemblerIInv, Next0
<1>5. Size(sent, Len(handled) + 1) \in Nat \ {0} /\ Size(sent, Len(handled) + 1) <= B
  BY <1>3, PacketFacts DEF AssemblerIInv
<1>6. CASE in_packet_size = 0
  <2>1. saved_packet_size = 0  BY <1>6 DEF AssemblerIInv, InProgress
  <2>2. net_buf[ptr + 1 - 1] = Next0 + saved_packet_size + 1 - 1
    BY <1>1 DEF AssemblerIInv, AssemblerWindow
  <2>3. ptr + 1 - 1 = ptr /\ Next0 + 0 + 1 - 1 = Next0  BY AssemblerNumbers DEF AssemblerIInv, AssemblerTypes
  <2>4. net_buf[ptr] = First(sent, Len(handled) + 1)  BY <1>4, <2>1, <2>2, <2>3
  <2>5. SizeByte(net_buf[ptr]) = {Size(sent, Len(handled) + 1)}
    BY <1>3, <2>4, SizeOfHead DEF AssemblerIInv
  <2>6. QED  BY <1>3, <1>4, <1>5, <1>6, <2>1, <2>5 DEF PacketSize
<1>7. CASE in_packet_size # 0
  BY <1>3, <1>4, <1>5, <1>7 DEF AssemblerIInv, InProgress, PacketSize
<1>8. QED  BY <1>6, <1>7

\* Writing a packet changes nothing of what has been received.
LEMMA AssemblerSendIInv ==
  ASSUME AssemblerIInv, ServerSends
  PROVE  AssemblerIInv'
<1>1. PICK n \in Sizes : Written + n <= Cap /\ sent' = Append(sent, Run(Written + 1, n))
  BY DEF ServerSends, Send
<1>2. /\ LaidOut(sent') /\ Len(sent') = Len(sent) + 1 /\ End(sent') = End(sent) + n
      /\ \A k \in 1..Len(sent) : sent'[k] = sent[k]
      /\ \A k \in 0..Len(sent) : NextByte(sent', k) = NextByte(sent, k)
  BY <1>1, WritePacket DEF AssemblerIInv, Written
<1>3. n \in Nat  BY SizeType
<1>4. UNCHANGED <<arrived, handled, net_buf, ptr, io_byte,
                  in_packet_size, saved_packet_size, packet_buffer>>
  BY DEF ServerSends, Send
<1>5. Next0' = Next0 /\ Written' = Written + n
  BY <1>2, <1>4, AssemblerNumbers DEF Next0, Written
<1>6. AssemblerTypes'  BY <1>4 DEF AssemblerIInv, AssemblerTypes
<1>7. Prefix'  BY <1>2, <1>4, AssemblerNumbers DEF AssemblerIInv, Prefix
<1>8. AssemblerWindow'
  <2>1. arrived' <= Written'  BY <1>3, <1>4, <1>5, AssemblerNumbers DEF AssemblerIInv, AssemblerTypes, AssemblerWindow
  <2>2. QED  BY <2>1, <1>4, <1>5 DEF AssemblerIInv, AssemblerWindow
<1>9. InProgress'
  <2>1. CASE in_packet_size # 0
    <3>1. Len(handled) + 1 \in 1..Len(sent)
      BY <2>1, AssemblerNumbers DEF AssemblerIInv, InProgress
    <3>2. sent'[Len(handled) + 1] = sent[Len(handled) + 1] /\ Len(handled) < Len(sent')
      BY <3>1, <1>2, AssemblerNumbers
    <3>3. QED  BY <3>2, <2>1, <1>4 DEF AssemblerIInv, InProgress, Size
  <2>2. CASE in_packet_size = 0  BY <2>2, <1>4 DEF AssemblerIInv, InProgress
  <2>3. QED  BY <2>1, <2>2
<1>10. QED  BY <1>2, <1>6, <1>7, <1>8, <1>9 DEF AssemblerIInv

\* A fresh buffer goes on where the last one ended.
LEMMA ReceiveIInv ==
  ASSUME AssemblerIInv, NEW received \in 1..B, Receive(received)
  PROVE  AssemblerIInv'
<1>1. /\ io_byte = 0 /\ received <= Written - arrived /\ arrived' = arrived + received
      /\ ptr' = 1 /\ io_byte' = received
      /\ UNCHANGED <<sent, handled, in_packet_size, saved_packet_size, packet_buffer>>
      /\ net_buf' = [i \in 1..B |-> IF i <= received THEN arrived + i ELSE net_buf[i]]
  BY DEF Receive, Carry
<1>2. Next0' = Next0 /\ Written' = Written  BY <1>1 DEF Next0, Written
<1>3. /\ arrived \in Nat /\ B \in Nat /\ saved_packet_size \in Nat /\ received \in Nat
      /\ \A i \in 1..B : net_buf[i] \in Bytes
  BY SizesAssumption DEF AssemblerIInv, AssemblerTypes
<1>4. AssemblerTypes'
  <2>1. Written \in Int /\ Written <= Cap /\ arrived + received <= Written
    BY <1>1, <1>3, AssemblerNumbers
  <2>2. ASSUME NEW i \in 1..B, i <= received PROVE arrived + i \in Bytes
    <3>1. arrived + i \in Nat /\ arrived + i <= Cap
      BY <1>3, <2>1, <2>2, CapAssumption
    <3>2. QED  BY <3>1, CapAssumption DEF Bytes
  <2>3. net_buf' \in [1..B -> Bytes]  BY <1>1, <1>3, <2>2
  <2>4. QED  BY <1>1, <1>3, <2>3 DEF AssemblerIInv, AssemblerTypes
<1>5. Prefix'  BY <1>1 DEF AssemblerIInv, Prefix
<1>6. AssemblerWindow'
  <2>1. arrived = Next0 - 1 + saved_packet_size  BY <1>1, <1>3, AssemblerNumbers
  <2>2. \A i \in 1..received : net_buf'[1 + i - 1] = Next0 + saved_packet_size + i - 1
    <3>1. TAKE i \in 1..received
    <3>2. i \in 1..B /\ i <= received /\ 1 + i - 1 = i  BY <1>3
    <3>3. net_buf'[i] = arrived + i  BY <1>1, <3>2
    <3>4. QED  BY <3>2, <3>3, <2>1, <1>3, AssemblerNumbers
  <2>3. \A i \in 1..io_byte' :
          net_buf'[ptr' + i - 1] = Next0' + saved_packet_size' + i - 1
    BY <1>1, <1>2, <2>2
  <2>4. \A i \in 1..saved_packet_size' : packet_buffer'[i] = Next0' + i - 1
    BY <1>1, <1>2 DEF AssemblerIInv, AssemblerWindow
  <2>5. /\ ptr' + io_byte' <= B + 1 /\ arrived' <= Written'
        /\ arrived' = Next0' - 1 + saved_packet_size' + io_byte'
    BY <1>1, <1>2, <1>3, <2>1, AssemblerNumbers
  <2>6. QED  BY <2>3, <2>4, <2>5 DEF AssemblerWindow
<1>7. InProgress'  BY <1>1 DEF AssemblerIInv, InProgress
<1>8. LaidOut(sent')  BY <1>1 DEF AssemblerIInv
<1>9. QED  BY <1>4, <1>5, <1>6, <1>7, <1>8 DEF AssemblerIInv

\* What packet_buffer holds after the memcpy of n bytes.
LEMMA CopiedFacts ==
  ASSUME AssemblerIInv, NEW n \in 0..io_byte, saved_packet_size + n <= B
  PROVE  /\ Copied(n) \in [1..B -> Bytes]
         /\ \A i \in 1..saved_packet_size + n : Copied(n)[i] = Next0 + i - 1
<1>1. /\ saved_packet_size \in Nat /\ io_byte \in Nat /\ n \in Nat /\ n <= io_byte
      /\ ptr \in 1..B+1 /\ ptr + io_byte <= B + 1 /\ B \in Nat
      /\ \A i \in 1..B : net_buf[i] \in Bytes /\ packet_buffer[i] \in Bytes
      /\ \A i \in 1..saved_packet_size : packet_buffer[i] = Next0 + i - 1
      /\ \A i \in 1..io_byte : net_buf[ptr + i - 1] = Next0 + saved_packet_size + i - 1
  BY SizesAssumption DEF AssemblerIInv, AssemblerTypes, AssemblerWindow
<1>2. ASSUME NEW i \in saved_packet_size + 1 .. saved_packet_size + n
      PROVE  /\ ptr + i - saved_packet_size - 1 \in 1..B
             /\ net_buf[ptr + i - saved_packet_size - 1] = Next0 + i - 1
  <2>1. i - saved_packet_size \in 1..io_byte  BY <1>1
  <2>2. net_buf[ptr + (i - saved_packet_size) - 1]
          = Next0 + saved_packet_size + (i - saved_packet_size) - 1
    BY <2>1, <1>1
  <2>3. ptr + (i - saved_packet_size) - 1 = ptr + i - saved_packet_size - 1
        /\ Next0 + saved_packet_size + (i - saved_packet_size) - 1 = Next0 + i - 1
    BY <1>1, AssemblerNumbers
  <2>4. ptr + i - saved_packet_size - 1 \in 1..B  BY <1>1, <2>1
  <2>5. QED  BY <2>2, <2>3, <2>4
<1>3. Copied(n) \in [1..B -> Bytes]  BY <1>1, <1>2 DEF Copied
<1>4. \A i \in 1..saved_packet_size + n : Copied(n)[i] = Next0 + i - 1
  <2>1. TAKE i \in 1..saved_packet_size + n
  <2>2. i \in 1..B  BY <1>1
  <2>3. CASE i <= saved_packet_size  BY <2>2, <2>3, <1>1 DEF Copied
  <2>4. CASE i \in saved_packet_size + 1 .. saved_packet_size + n
    BY <2>2, <2>4, <1>2 DEF Copied
  <2>5. QED  BY <2>3, <2>4, <1>1
<1>5. QED  BY <1>3, <1>4

\* ProcessPacket is called with the next packet sent.
LEMMA CompleteStep ==
  ASSUME AssemblerIInv, Complete
  PROVE  LET k == Len(handled) + 1
             n == Size(sent, k) - saved_packet_size
         IN  /\ k \in 1..Len(sent) /\ handled' = Append(handled, sent[k])
             /\ n \in 1..io_byte
             /\ packet_buffer' \in [1..B -> Bytes]
             /\ ptr' = ptr + n /\ io_byte' = io_byte - n
<1> DEFINE k == Len(handled) + 1
           size == Size(sent, k)
           n == size - saved_packet_size
<1>1. io_byte > 0  BY DEF Complete
<1>2. /\ k \in 1..Len(sent) /\ Next0 = First(sent, k) /\ PacketSize = {size}
      /\ size \in Nat \ {0} /\ size <= B /\ saved_packet_size < size
  BY <1>1, AssemblerSizeRead
<1>3. sent[k] = Run(Next0, size)  BY <1>2, PacketFacts DEF AssemblerIInv
<1> HIDE DEF k, size
<1>4. /\ io_byte + saved_packet_size >= size
      /\ packet_buffer' = Copied(n)
      /\ handled' = Append(handled, [i \in 1..size |-> packet_buffer'[i]])
      /\ ptr' = ptr + n /\ io_byte' = io_byte - n
  BY <1>2 DEF Complete
<1>5. n \in 1..io_byte /\ saved_packet_size + n = size
  BY <1>2, <1>4 DEF AssemblerIInv, AssemblerTypes
<1> HIDE DEF n
<1>6. packet_buffer' \in [1..B -> Bytes]
      /\ \A i \in 1..size : packet_buffer'[i] = Next0 + i - 1
  BY <1>1, <1>2, <1>4, <1>5, CopiedFacts
<1>7. [i \in 1..size |-> packet_buffer'[i]] = sent[k]  BY <1>3, <1>6 DEF Run
<1>8. QED  BY <1>2, <1>4, <1>5, <1>6, <1>7 DEF k, size, n

LEMMA CompleteIInv ==
  ASSUME AssemblerIInv, Complete
  PROVE  AssemblerIInv'
<1> DEFINE k == Len(handled) + 1
           size == Size(sent, k)
           n == size - saved_packet_size
<1>1. /\ k \in 1..Len(sent) /\ handled' = Append(handled, sent[k])
      /\ n \in 1..io_byte /\ packet_buffer' \in [1..B -> Bytes]
      /\ ptr' = ptr + n /\ io_byte' = io_byte - n
  BY CompleteStep
<1>2. /\ io_byte > 0 /\ in_packet_size' = 0 /\ saved_packet_size' = 0
      /\ UNCHANGED <<sent, arrived, net_buf>>
  BY DEF Complete
<1>3. /\ size \in Nat \ {0} /\ Next0 = First(sent, k) /\ Len(handled) \in 0..Len(sent)-1
  BY <1>2, AssemblerSizeRead
<1>4. Len(handled) \in Nat /\ sent[k] \in Packets /\ handled \in Seq(Packets)
      /\ Len(sent) \in Nat
  BY <1>1 DEF AssemblerIInv, Prefix, LaidOut
<1>5. Len(handled') = k /\ handled' \in Seq(Packets)
      /\ \A j \in 1..k : handled'[j] = IF j = k THEN sent[k] ELSE handled[j]
  BY <1>1, <1>4
<1>6. Next0' = Next0 + size /\ Written' = Written
  <2>1. NextByte(sent, k) = First(sent, k) + size  BY <1>3, NextPacket DEF AssemblerIInv
  <2>2. Next0' = NextByte(sent, k)  BY <1>2, <1>5 DEF Next0
  <2>3. QED  BY <1>2, <1>3, <2>1, <2>2 DEF Written
<1>7. /\ ptr \in 1..B+1 /\ io_byte \in 0..B /\ saved_packet_size \in 0..B /\ B \in Nat
      /\ ptr + io_byte <= B + 1 /\ arrived <= Written
      /\ \A i \in 1..io_byte : net_buf[ptr + i - 1] = Next0 + saved_packet_size + i - 1
  BY SizesAssumption DEF AssemblerIInv, AssemblerTypes, AssemblerWindow
<1> HIDE DEF size
<1>8. n \in Nat /\ n <= io_byte /\ size = saved_packet_size + n  BY <1>1, <1>3, <1>7
<1> HIDE DEF n
<1>9. AssemblerTypes'  BY <1>1, <1>2, <1>7, <1>8 DEF AssemblerIInv, AssemblerTypes
<1>10. Prefix'  BY <1>1, <1>2, <1>4, <1>5 DEF AssemblerIInv, Prefix
<1>11. \A i \in 1..io_byte' :
         net_buf'[ptr' + i - 1] = Next0' + saved_packet_size' + i - 1
  <2>1. TAKE i \in 1..io_byte'
  <2>2. n + i \in 1..io_byte  BY <1>1, <1>7, <1>8
  <2>3. net_buf[ptr + (n + i) - 1] = Next0 + saved_packet_size + (n + i) - 1
    BY <2>2, <1>7
  <2>4. i \in Nat /\ ptr + (n + i) - 1 = ptr' + i - 1  BY <1>1, <1>7, <1>8
  <2>5. Next0 + saved_packet_size + (n + i) - 1 = Next0' + 0 + i - 1
    BY <2>4, <1>6, <1>7, <1>8, AssemblerNumbers
  <2>6. QED  BY <2>3, <2>4, <2>5, <1>2
<1>12. AssemblerWindow'
  <2>1. ptr' + io_byte' <= B + 1  BY <1>1, <1>7, <1>8
  <2>2. arrived' = Next0' - 1 + saved_packet_size' + io_byte'
    BY <1>1, <1>2, <1>6, <1>7, <1>8, AssemblerNumbers
  <2>3. arrived' <= Written'  BY <1>2, <1>6, <1>7
  <2>4. \A i \in 1..saved_packet_size' : packet_buffer'[i] = Next0' + i - 1
    BY <1>2
  <2>5. QED  BY <2>1, <2>2, <2>3, <2>4, <1>11 DEF AssemblerWindow
<1>13. InProgress'  BY <1>2 DEF InProgress
<1>14. QED  BY <1>2, <1>9, <1>10, <1>12, <1>13 DEF AssemblerIInv

\* An incomplete packet is kept with its size.
LEMMA SaveIInv ==
  ASSUME AssemblerIInv, Save
  PROVE  AssemblerIInv'
<1> DEFINE k == Len(handled) + 1
           size == Size(sent, k)
<1>1. /\ io_byte > 0 /\ packet_buffer' = Copied(io_byte)
      /\ saved_packet_size' = saved_packet_size + io_byte /\ io_byte' = 0
      /\ UNCHANGED <<sent, arrived, handled, net_buf, ptr>>
  BY DEF Save
<1>2. /\ Len(handled) \in 0..Len(sent)-1 /\ PacketSize = {size}
      /\ size \in Nat \ {0} /\ size <= B
  BY <1>1, AssemblerSizeRead
<1>3. io_byte + saved_packet_size < size /\ in_packet_size' = size
  BY <1>2 DEF Save
<1>4. /\ io_byte \in 0..B /\ saved_packet_size \in 0..B /\ B \in Nat /\ ptr \in 1..B+1
      /\ ptr + io_byte <= B + 1 /\ arrived <= Written /\ arrived \in Nat
  BY SizesAssumption DEF AssemblerIInv, AssemblerTypes, AssemblerWindow
<1>5. Next0' = Next0 /\ Written' = Written  BY <1>1 DEF Next0, Written
<1>6. /\ packet_buffer' \in [1..B -> Bytes]
      /\ \A i \in 1..saved_packet_size + io_byte : packet_buffer'[i] = Next0 + i - 1
  <2>1. io_byte \in 0..io_byte /\ saved_packet_size + io_byte <= B
    BY <1>2, <1>3, <1>4
  <2>2. QED  BY <2>1, <1>1, CopiedFacts
<1>7. AssemblerTypes'
  <2>1. saved_packet_size' \in 0..B /\ in_packet_size' \in 0..B /\ io_byte' \in 0..B
    BY <1>1, <1>2, <1>3, <1>4
  <2>2. QED  BY <2>1, <1>1, <1>6 DEF AssemblerIInv, AssemblerTypes
<1>8. Prefix'  BY <1>1 DEF AssemblerIInv, Prefix
<1>9. AssemblerWindow'
  <2>1. arrived' = Next0' - 1 + saved_packet_size' + io_byte'
    BY <1>1, <1>4, <1>5, AssemblerNumbers
  <2>2. ptr' + io_byte' <= B + 1 /\ arrived' <= Written'  BY <1>1, <1>4, <1>5
  <2>3. \A i \in 1..saved_packet_size' : packet_buffer'[i] = Next0' + i - 1
    BY <1>1, <1>5, <1>6
  <2>4. \A i \in 1..io_byte' :
          net_buf'[ptr' + i - 1] = Next0' + saved_packet_size' + i - 1
    BY <1>1
  <2>5. QED  BY <2>1, <2>2, <2>3, <2>4 DEF AssemblerWindow
<1>10. InProgress'
  <2>1. in_packet_size' # 0 /\ saved_packet_size' # 0 /\ saved_packet_size' < in_packet_size'
    BY <1>1, <1>2, <1>3, <1>4
  <2>2. Len(handled') < Len(sent') /\ in_packet_size' = Size(sent', Len(handled') + 1)
    BY <1>1, <1>2, <1>3, AssemblerNumbers
  <2>3. QED  BY <2>1, <2>2 DEF InProgress
<1>11. LaidOut(sent')  BY <1>1 DEF AssemblerIInv
<1>12. QED  BY <1>7, <1>8, <1>9, <1>10, <1>11 DEF AssemblerIInv

LEMMA AssemblerNextIInv == AssemblerIInv /\ [AssemblerNext]_assemblerVars => AssemblerIInv'
<1> SUFFICES ASSUME AssemblerIInv, [AssemblerNext]_assemblerVars PROVE AssemblerIInv'  OBVIOUS
<1>1. CASE ServerSends  BY <1>1, AssemblerSendIInv
<1>2. CASE \E received \in 1..B : Receive(received)  BY <1>2, ReceiveIInv
<1>3. CASE Complete  BY <1>3, CompleteIInv
<1>4. CASE Save  BY <1>4, SaveIInv
<1>5. CASE UNCHANGED assemblerVars
  BY <1>5 DEF AssemblerIInv, assemblerVars, AssemblerTypes, Prefix, AssemblerWindow, InProgress, Next0, Written
<1>6. QED  BY <1>1, <1>2, <1>3, <1>4, <1>5 DEF AssemblerNext

\* The inductive invariant holds in every reachable state.
THEOREM AssemblerInvariance == AssemblerSpec => []AssemblerIInv
BY AssemblerInitIInv, AssemblerNextIInv, PTL DEF AssemblerSpec

\* The variables keep their types; no copy of process_data leaves a buffer.
THEOREM AssemblerTypeCorrect == AssemblerSpec => []AssemblerTypeOK
<1>1. AssemblerIInv => AssemblerTypeOK  BY DEF AssemblerIInv, LaidOut, AssemblerTypes, Prefix, AssemblerTypeOK
<1>2. QED  BY <1>1, AssemblerInvariance, PTL

\* Two runs of bytes, one behind the other, are one run.
LEMMA RunsJoin ==
  ASSUME NEW first \in Nat, NEW m \in Nat, NEW n \in Nat
  PROVE  Run(first, m) \o Run(first + m, n) = Run(first, m + n)
<1> DEFINE s == Run(first, m)
           t == Run(first + m, n)
<1>1. /\ s \in Seq(Int) /\ Len(s) = m /\ \A i \in 1..m : s[i] = first + i - 1
      /\ t \in Seq(Int) /\ Len(t) = n /\ \A i \in 1..n : t[i] = first + m + i - 1
  BY DEF Run
<1> HIDE DEF s, t
<1>2. /\ s \o t \in Seq(Int) /\ Len(s \o t) = m + n
      /\ \A i \in 1..m+n : (s \o t)[i] = IF i <= m THEN s[i] ELSE t[i - m]
  BY <1>1, ConcatProperties
<1>3. \A i \in 1..m+n : (s \o t)[i] = first + i - 1
  <2>1. TAKE i \in 1..m+n
  <2>2. CASE i <= m  BY <1>1, <1>2, <2>2
  <2>3. CASE ~(i <= m)
    <3>1. i - m \in 1..n  BY <2>3
    <3>2. t[i - m] = first + m + (i - m) - 1  BY <1>1, <3>1
    <3>3. first + m + (i - m) - 1 = first + i - 1  OBVIOUS
    <3>4. QED  BY <1>2, <2>3, <3>2, <3>3
  <2>4. QED  BY <2>2, <2>3
<1>4. /\ Run(first, m + n) \in Seq(Int) /\ Len(Run(first, m + n)) = m + n
      /\ \A i \in 1..m+n : Run(first, m + n)[i] = first + i - 1
  BY DEF Run
<1>5. s \o t = Run(first, m + n)
  BY <1>2, <1>3, <1>4, SeqEqual
<1>6. QED  BY <1>5 DEF s, t

\* No byte is lost, read twice or moved past another: packet_buffer and the
\* rest of net_buf hold what has come and has not been handled.
THEOREM AssemblerNoByteLostHolds == AssemblerSpec => []AssemblerNoByteLost
<1>1. AssemblerIInv => AssemblerNoByteLost
  <2> SUFFICES ASSUME AssemblerIInv PROVE AssemblerNoByteLost  OBVIOUS
  <2>1. /\ saved_packet_size \in Nat /\ io_byte \in Nat /\ Next0 \in Nat
        /\ arrived = Next0 - 1 + saved_packet_size + io_byte
    BY AssemblerNumbers DEF AssemblerIInv, AssemblerTypes
  <2>2. End(handled) \in Nat /\ Next0 = End(handled) + 1
    BY EndOfPrefix DEF AssemblerIInv, Prefix, Next0
  <2>3. arrived - End(handled) = saved_packet_size + io_byte  BY <2>1, <2>2
  <2>4. [i \in 1..saved_packet_size |-> packet_buffer[i]] = Run(Next0, saved_packet_size)
    BY DEF AssemblerIInv, AssemblerWindow, Run
  <2>5. [i \in 1..io_byte |-> net_buf[ptr + i - 1]] = Run(Next0 + saved_packet_size, io_byte)
    BY DEF AssemblerIInv, AssemblerWindow, Run
  <2>6. AssemblerKept = Run(Next0, saved_packet_size) \o Run(Next0 + saved_packet_size, io_byte)
    BY <2>4, <2>5, Zenon DEF AssemblerKept
  <2>7. AssemblerKept = Run(Next0, saved_packet_size + io_byte)  BY <2>1, <2>6, RunsJoin
  <2>8. QED  BY <2>2, <2>3, <2>7 DEF AssemblerNoByteLost
<1>2. QED  BY <1>1, AssemblerInvariance, PTL

-----------------------------------------------------------------------------
\* Every step sends a packet, handles the next one, or changes neither.
LEMMA AssemblerStepImplements ==
  ASSUME AssemblerIInv, [AssemblerNext]_assemblerVars
  PROVE  [Stream!Next]_(Stream!svars)
<1>1. CASE ServerSends
  <2>1. PICK n \in Sizes : Written + n <= Cap /\ sent' = Append(sent, Run(Written + 1, n))
    BY <1>1 DEF ServerSends, Send
  <2>2. Written + 1 \in 1..Cap  BY <2>1, AssemblerNumbers, SizeType, CapAssumption
  <2>3. Run(Written + 1, n) \in Packets  BY <2>2 DEF Packets
  <2>4. handled' = handled  BY <1>1 DEF ServerSends
  <2>5. QED  BY <2>1, <2>3, <2>4 DEF Stream!Next, Stream!Send
<1>2. CASE \E received \in 1..B : Receive(received)
  BY <1>2 DEF Receive, Carry, Stream!svars
<1>3. CASE Complete
  <2>1. /\ Len(handled) + 1 \in 1..Len(sent)
        /\ handled' = Append(handled, sent[Len(handled) + 1])
    BY <1>3, CompleteStep
  <2>2. Len(handled) < Len(sent) /\ sent' = sent
    BY <1>3, <2>1, AssemblerNumbers DEF Complete
  <2>3. QED  BY <2>1, <2>2 DEF Stream!Next, Stream!Handle
<1>4. CASE Save  BY <1>4 DEF Save, Stream!svars
<1>5. CASE UNCHANGED assemblerVars  BY <1>5 DEF assemblerVars, Stream!svars
<1>6. QED  BY <1>1, <1>2, <1>3, <1>4, <1>5 DEF AssemblerNext

\* The client implements the packet stream: ProcessPacket sees what the
\* server sent, whole, once and in order, however TCP cuts it.
THEOREM AssemblerImplements == AssemblerSpec => InOrder
<1>1. AssemblerInit => Stream!Init  BY DEF AssemblerInit, Stream!Init
<1>2. AssemblerIInv /\ [AssemblerNext]_assemblerVars => [Stream!Next]_(Stream!svars)  BY AssemblerStepImplements
<1>3. QED  BY <1>1, <1>2, AssemblerInvariance, PTL DEF AssemblerSpec, InOrder, Stream!Safety
=============================================================================
