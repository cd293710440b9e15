--------------------------- MODULE SessionsProofs ---------------------------
(***************************************************************************)
(* For any number of slots and of connections: the types, that a session   *)
(* is heard by exactly one receive, and that nobody closes the connection  *)
(* of somebody else, outside the slots that were taken while jobs of the   *)
(* session before were left.                                               *)
(***************************************************************************)
EXTENDS Sessions, FiniteSetTheorems, TLAPS

Kinds == {"recv", "recv2", "send"}

(* The jobs whose handler goes on receiving, and those between the         *)
(* closesocket and the store of ST_FREE.                                   *)
Receiving == {"login", "data", "logout", "mark", "again", "outfree"}
Closers   == {"free", "outfree"}

(* The slot has been marked for a new session and not been wired yet.      *)
Wiring(s) == acc.pc = "wire" /\ acc.slot = s

(* A slot's socket was registered for it, and a job's socket for some slot. *)
Wired ==
  /\ \A s \in Slots : sock[s] # None => key[sock[s]] = s
  /\ \A j \in Jobs : job[j] # "none" => SlotOf(j) # 0 /\ conn[j[1]] \in {"open", "closed"}
  /\ \A j \in Jobs : (job[j] \in Receiving => j[2] # "send") /\ (job[j] = "sent" => j[2] = "send")

(* The socket an AcceptEx is on, and those still to be made, name no slot.  *)
Coming ==
  /\ acc.pc \in {"mark", "wire"} => acc.slot # 0
  /\ acc.pc # "bound" => key[next] = 0 /\ conn[next] \in {"fresh", "open"}
  /\ \A c \in Conns : c > next => key[c] = 0
  /\ \A c \in Conns : key[c] # 0 => conn[c] # "unused"

Shape == TypeOK /\ Wired /\ Coming

(* A slot that was not taken too early: its jobs are on its socket, none is *)
(* left while a new session is wired, ...                                   *)
Alone(s) == \A j \in Jobs : job[j] # "none" /\ SlotOf(j) = s => sock[s] = j[1]
Taken(s) == Wiring(s) => state[s] = "alloc" /\ \A j \in Jobs : SlotOf(j) = s => job[j] = "none"

(* ... whoever is about to free it has closed the socket, and an open one   *)
(* has exactly one receive.                                                 *)
Closing(s) == \A j \in Jobs : SlotOf(j) = s /\ job[j] \in Closers => conn[j[1]] = "closed"
OneReceive(s) ==
  sock[s] # None /\ conn[sock[s]] = "open" =>
    (job[<<sock[s], "recv">>] = "none" <=> job[<<sock[s], "recv2">>] # "none")

(* And if nobody marked it after its session had gone: it is free when the  *)
(* socket is closed, or somebody is about to free it.                       *)
Ended(s) ==
  sock[s] # None /\ ~Wiring(s) =>
    /\ state[s] = "free" => conn[sock[s]] # "open"
    /\ conn[sock[s]] = "closed" => \/ state[s] = "free"
                                   \/ \E j \in Jobs : SlotOf(j) = s /\ job[j] \in Closers

Session(s) ==
  /\ s \notin late => Alone(s) /\ Taken(s) /\ Closing(s) /\ OneReceive(s)
  /\ s \notin late \cup ghosts => Ended(s)

IInv == Shape /\ NoStranger /\ \A s \in Slots : Session(s)

-----------------------------------------------------------------------------
LEMMA JobParts ==
  ASSUME NEW j \in Jobs
  PROVE  j[1] \in Conns /\ j[2] \in Kinds /\ j = <<j[1], j[2]>>
BY DEF Jobs, Kinds

LEMMA JobOf ==
  ASSUME NEW c \in Conns, NEW k \in Kinds
  PROVE  <<c, k>> \in Jobs /\ <<c, k>>[1] = c /\ <<c, k>>[2] = k
BY DEF Jobs, Kinds

LEMMA KindsThere == "recv" \in Kinds /\ "recv2" \in Kinds /\ "send" \in Kinds
BY DEF Kinds

LEMMA NoneIsNoSlot == 0 \notin Slots /\ 0 \notin Conns /\ Slots \subseteq 0..N
BY SizeAssumption DEF Slots, Conns

(* Where jobs and handlers find their slot, and slots their socket. *)
LEMMA Places ==
  ASSUME Shape
  PROVE  /\ \A j \in Jobs : job[j] # "none" => SlotOf(j) \in Slots
         /\ \A s \in Slots : sock[s] # None => sock[s] \in Conns
         /\ \A s \in Slots : \A c \in Conns : key[c] = s => c # next \/ acc.pc = "bound"
<1>1. \A j \in Jobs : job[j] # "none" => SlotOf(j) \in Slots
  <2>1. \A c \in Conns : key[c] \in 0..N
    BY DEF Shape, TypeOK
  <2>2. \A n \in 0..N : n # 0 => n \in Slots
    BY SizeAssumption DEF Slots
  <2>3. QED
    BY <2>1, <2>2, JobParts DEF Shape, Wired, SlotOf
<1>2. \A s \in Slots : sock[s] # None => sock[s] \in Conns
  BY DEF Shape, TypeOK
<1>3. \A s \in Slots : \A c \in Conns : key[c] = s => c # next \/ acc.pc = "bound"
  BY NoneIsNoSlot DEF Shape, Coming
<1>4. QED
  BY <1>1, <1>2, <1>3

(* A step that leaves the slot, its socket and its jobs as they are.        *)
LEMMA SessionSame ==
  ASSUME Shape, NEW s \in Slots, Session(s),
         sock'[s] = sock[s], state'[s] = state[s], Wiring(s)' <=> Wiring(s),
         \A c \in Conns : key'[c] = s <=> key[c] = s,
         \A c \in Conns : key[c] = s => conn'[c] = conn[c],
         \A j \in Jobs : SlotOf(j) = s => job'[j] = job[j],
         late \subseteq late', ghosts \subseteq ghosts'
  PROVE  Session(s)'
<1>1. \A j \in Jobs : SlotOf(j)' = s <=> SlotOf(j) = s
  BY JobParts DEF SlotOf
<1>2. sock[s] # None => sock[s] \in Conns /\ key[sock[s]] = s
  BY Places DEF Shape, Wired
<1>3. Alone(s) => Alone(s)'
  BY <1>1 DEF Alone
<1>4. Taken(s) => Taken(s)'
  BY <1>1 DEF Taken
<1>5. Closing(s) => Closing(s)'
  BY <1>1, JobParts DEF Closing, SlotOf
<1>6. OneReceive(s) => OneReceive(s)'
  <2>1. ASSUME sock[s] # None, NEW k \in Kinds PROVE job'[<<sock[s], k>>] = job[<<sock[s], k>>]
    BY <1>2, <2>1, JobOf DEF SlotOf
  <2>2. QED
    BY <1>2, <2>1, KindsThere DEF OneReceive
<1>7. Ended(s) => Ended(s)'
  BY <1>1, <1>2 DEF Ended
<1>8. QED
  BY <1>3, <1>4, <1>5, <1>6, <1>7 DEF Session

(* A step of slot s: it works on this slot, on the sockets registered for   *)
(* it and on their jobs, and closes sockets at most.                        *)
Works(s) ==
  /\ UNCHANGED <<sock, key, acc, next, late>> /\ ghosts \subseteq ghosts'
  /\ \A u \in Slots \ {s} : state'[u] = state[u]
  /\ \A c \in Conns : conn'[c] = conn[c] \/ (key[c] = s /\ conn'[c] = "closed")
  /\ \A j \in Jobs : SlotOf(j) # s => job'[j] = job[j]
  /\ \A j \in Jobs : job'[j] # "none" => job[j] # "none" \/ conn[j[1]] = "open"
  /\ \A j \in Jobs : (job'[j] \in Receiving => j[2] # "send") /\ (job'[j] = "sent" => j[2] = "send")

LEMMA WorksShape ==
  ASSUME Shape, NEW s \in Slots, Works(s), TypeOK'
  PROVE  Shape'
<1>1. /\ \A c \in Conns : key'[c] = key[c]
      /\ \A c \in Conns : conn'[c] \in {conn[c], "closed"}
      /\ \A c \in Conns : key[c] = 0 => conn'[c] = conn[c]
  BY NoneIsNoSlot DEF Works
<1>2. Wired'
  <2>1. ASSUME NEW u \in Slots, sock'[u] # None PROVE key'[sock'[u]] = u
    BY <2>1 DEF Shape, Wired, Works
  <2>2. ASSUME NEW j \in Jobs, job'[j] # "none"
        PROVE  SlotOf(j)' # 0 /\ conn'[j[1]] \in {"open", "closed"}
    <3>1. SlotOf(j)' = SlotOf(j) /\ conn'[j[1]] \in {conn[j[1]], "closed"}
      BY <1>1, JobParts DEF SlotOf
    <3>2. CASE job[j] # "none"
      BY <3>1, <3>2 DEF Shape, Wired
    <3>3. CASE job[j] = "none"
      BY <2>2, <3>1, <3>3, NoneIsNoSlot DEF Works
    <3>4. QED
      BY <3>2, <3>3
  <2>3. QED
    BY <2>1, <2>2 DEF Wired, Works
<1>3. Coming'
  <2>1. acc.pc # "bound" => key'[next] = 0 /\ conn'[next] \in {"fresh", "open"}
    BY <1>1 DEF Shape, Coming, TypeOK
  <2>2. \A c \in Conns : key'[c] # 0 => conn'[c] # "unused"
    BY <1>1 DEF Shape, Coming
  <2>3. \A c \in Conns : c > next => key'[c] = 0
    BY <1>1 DEF Shape, Coming
  <2>4. acc' = acc /\ next' = next
    BY DEF Works
  <2>5. QED
    BY <2>1, <2>2, <2>3, <2>4 DEF Shape, Coming
<1>4. QED
  BY <1>2, <1>3 DEF Shape

LEMMA WorksElsewhere ==
  ASSUME IInv, NEW s \in Slots, Works(s), TypeOK', Session(s)', NoStranger'
  PROVE  IInv'
<1>1. Shape'
  BY WorksShape DEF IInv
<1>2. ASSUME NEW u \in Slots, u # s PROVE Session(u)'
  <2>1. sock'[u] = sock[u] /\ state'[u] = state[u] /\ (Wiring(u)' <=> Wiring(u))
    BY <1>2 DEF Works, Wiring
  <2>2. /\ \A c \in Conns : key'[c] = u <=> key[c] = u
        /\ \A c \in Conns : key[c] = u => conn'[c] = conn[c]
        /\ \A j \in Jobs : SlotOf(j) = u => job'[j] = job[j]
        /\ late \subseteq late' /\ ghosts \subseteq ghosts'
    BY <1>2 DEF Works
  <2>3. QED
    BY <2>1, <2>2, SessionSame DEF IInv
<1>3. QED
  BY <1>1, <1>2 DEF IInv

-----------------------------------------------------------------------------
(* A job of slot s goes from one place to another and nothing else changes. *)
LEMMA JobGoes ==
  ASSUME IInv, NEW j \in Jobs, job[j] # "none", NEW p \in {"none", "bad", "sent"} \cup Receiving,
         job' = [job EXCEPT ![j] = p],
         p = "none" => job[j] = "sent",
         p = "sent" => j[2] = "send", p \in Receiving => j[2] # "send",
         p \notin Closers, job[j] \notin Closers,
         UNCHANGED <<slots, conn, key, acc, next, past>>,
         peer' \in [Conns -> {"none", "new", "in", "bye", "gone"}]
  PROVE  IInv'
<1> SlotOf(j) \in Slots /\ j[1] \in Conns
  BY Places, JobParts DEF IInv
<1> PICK s \in Slots : s = SlotOf(j)
  OBVIOUS
<1>1. s \in Slots /\ j[1] \in Conns /\ s = SlotOf(j)
  OBVIOUS
<1>2. \A i \in Jobs : job'[i] = IF i = j THEN p ELSE job[i]
  BY DEF IInv, Shape, TypeOK
<1>3. Works(s)
  BY <1>1, <1>2 DEF Works, slots, past, IInv, Shape, Wired
<1>4. TypeOK'
  <2>1. job' \in [Jobs -> {"none", "pending", "bad", "sent", "login", "data", "logout"} \cup Handling]
    BY DEF IInv, Shape, TypeOK, Receiving, Handling
  <2>2. QED
    BY <2>1 DEF IInv, Shape, TypeOK, slots, past
<1>5. NoStranger'
  BY DEF IInv, NoStranger, past
<1>6. Session(s)'
  <2>1. Session(s) /\ UNCHANGED <<state, sock, conn, key, acc, late, ghosts>>
    BY <1>1 DEF IInv, slots, past
  <2>2. s \notin late => Alone(s)' /\ Taken(s)' /\ Closing(s)'
    BY <1>2, <2>1 DEF Session, Alone, Taken, Closing, SlotOf, Wiring
  <2>3. s \notin late => OneReceive(s)'
    <3>1. ASSUME NEW c \in Conns, NEW k \in {"recv", "recv2"}
          PROVE  job'[<<c, k>>] = "none" <=> job[<<c, k>>] = "none"
      <4>1. <<c, k>> \in Jobs /\ <<c, k>>[2] # "send"
        BY JobOf DEF Kinds
      <4>2. j = <<c, k>> => p # "none"
        BY <4>1 DEF IInv, Shape, Wired
      <4>3. QED
        BY <1>2, <4>1, <4>2
    <3>2. sock[s] # None => sock[s] \in Conns
      BY <1>1, Places DEF IInv
    <3>3. QED
      BY <2>1, <3>1, <3>2 DEF Session, OneReceive
  <2>4. s \notin late \cup ghosts => Ended(s)'
    BY <1>2, <2>1 DEF Session, Ended, SlotOf, Wiring
  <2>5. QED
    BY <2>1, <2>2, <2>3, <2>4 DEF Session
<1>7. QED
  BY <1>1, <1>3, <1>4, <1>5, <1>6, WorksElsewhere

LEMMA CompleteInv == ASSUME IInv, NEW j \in Jobs, Complete(j) PROVE IInv'
<1>1. job[j] = "pending" /\ conn[j[1]] = "open" /\ j[1] \in Conns
  BY JobParts DEF Complete
<1>2. CASE j[2] # "send" /\ \E p \in Packets(j[1]) : /\ job'  = [job EXCEPT ![j] = p]
                                                     /\ peer' = [peer EXCEPT ![j[1]] = Talk(j[1], p)]
  <2>1. PICK p \in Packets(j[1]) : /\ job'  = [job EXCEPT ![j] = p]
                                   /\ peer' = [peer EXCEPT ![j[1]] = Talk(j[1], p)]
    BY <1>2
  <2>2. p \in {"login", "data", "logout"}
    BY DEF Packets
  <2>3. Talk(j[1], p) \in {"none", "new", "in", "bye", "gone"}
    BY <1>1 DEF Talk, IInv, Shape, TypeOK
  <2>4. peer' \in [Conns -> {"none", "new", "in", "bye", "gone"}]
    BY <1>1, <2>1, <2>3 DEF IInv, Shape, TypeOK
  <2>5. p \in {"none", "bad", "sent"} \cup Receiving /\ p \notin Closers /\ p # "none" /\ p # "sent"
    BY <2>2 DEF Receiving, Closers
  <2>6. QED
    BY <1>1, <1>2, <2>1, <2>4, <2>5, JobGoes DEF Complete, Closers
<1>3. CASE j[2] = "send" /\ job' = [job EXCEPT ![j] = "sent"] /\ peer' = peer
  <2>1. "sent" \notin Receiving /\ "sent" \notin Closers /\ "pending" \notin Closers
    BY DEF Receiving, Closers
  <2>2. peer' \in [Conns -> {"none", "new", "in", "bye", "gone"}]
    BY <1>3 DEF IInv, Shape, TypeOK
  <2>3. QED
    BY <1>1, <1>3, <2>1, <2>2, JobGoes DEF Complete
<1>4. QED
  BY <1>2, <1>3 DEF Complete

LEMMA PeersStay ==
  ASSUME IInv, peer' = peer PROVE peer' \in [Conns -> {"none", "new", "in", "bye", "gone"}]
BY DEF IInv, Shape, TypeOK

LEMMA CompleteBadlyInv == ASSUME IInv, NEW j \in Jobs, CompleteBadly(j) PROVE IInv'
<1>1. "bad" \notin Receiving /\ "bad" \notin Closers /\ "pending" \notin Closers
  BY DEF Receiving, Closers
<1>2. QED
  BY <1>1, PeersStay, JobGoes DEF CompleteBadly

LEMMA SentInv == ASSUME IInv, NEW j \in Jobs, Sent(j) PROVE IInv'
<1>1. "none" \notin Receiving /\ "none" \notin Closers /\ "sent" \notin Closers
  BY DEF Receiving, Closers
<1>2. QED
  BY <1>1, PeersStay, JobGoes DEF Sent

LEMMA RecvLoginInv == ASSUME IInv, NEW j \in Jobs, RecvLogin(j) PROVE IInv'
<1>1. "login" \in Receiving /\ "mark" \in Receiving /\ "mark" \notin Closers /\ "login" \notin Closers
  BY DEF Receiving, Closers
<1>2. j[2] # "send"
  BY <1>1 DEF RecvLogin, IInv, Shape, Wired
<1>3. QED
  BY <1>1, <1>2, PeersStay, JobGoes DEF RecvLogin

LEMMA RecvOtherInv == ASSUME IInv, NEW j \in Jobs, RecvOther(j) PROVE IInv'
<1>1. "data" \in Receiving /\ "again" \in Receiving /\ "again" \notin Closers /\ "data" \notin Closers
  BY DEF Receiving, Closers
<1>2. j[2] # "send"
  BY <1>1 DEF RecvOther, IInv, Shape, Wired
<1>3. QED
  BY <1>1, <1>2, PeersStay, JobGoes DEF RecvOther

(* disconnect: the socket of the slot is closed, ...                        *)
LEMMA CloseInv ==
  ASSUME IInv, NEW j \in Jobs, NEW p \in Closers, closesocket(j),
         job[j] \in {"bad", "logout"}, job' = [job EXCEPT ![j] = p],
         p = "outfree" => j[2] # "send",
         UNCHANGED <<slots, peer, key, acc, next, late, ghosts>>
  PROVE  IInv'
<1> SlotOf(j) \in Slots /\ j[1] \in Conns
  BY Places, JobParts DEF IInv
<1> PICK s \in Slots : s = SlotOf(j)
  OBVIOUS
<1> DEFINE c == sock[s]
<1>1. s \in Slots /\ j[1] \in Conns /\ s = SlotOf(j)
  OBVIOUS
<1>2. \A i \in Jobs : job'[i] = IF i = j THEN p ELSE job[i]
  BY DEF IInv, Shape, TypeOK
<1>3. /\ c # None => c \in Conns /\ key[c] = s
      /\ c = None => conn' = conn /\ shut' = shut
      /\ c # None => /\ \A d \in Conns : conn'[d] = IF d = c THEN "closed" ELSE conn[d]
                     /\ conn' \in [Conns -> {"unused", "fresh", "open", "closed"}]
                     /\ shut' = IF conn[c] = "open" /\ c # j[1] THEN shut \cup {c} ELSE shut
  BY <1>1, Places DEF IInv, Shape, Wired, TypeOK, closesocket, Current
<1>4. Works(s)
  BY <1>1, <1>2, <1>3 DEF Works, slots, IInv, Shape, Wired, Receiving, Closers
<1>5. TypeOK'
  <2>1. job' \in [Jobs -> {"none", "pending", "bad", "sent", "login", "data", "logout"} \cup Handling]
    BY DEF IInv, Shape, TypeOK, Closers, Handling
  <2>2. conn' \in [Conns -> {"unused", "fresh", "open", "closed"}] /\ shut' \subseteq Conns
    BY <1>3 DEF IInv, Shape, TypeOK
  <2>3. QED
    BY <2>1, <2>2 DEF IInv, Shape, TypeOK, slots
<1>6. Session(s) /\ (s \notin late => Alone(s) /\ c = j[1] /\ c # None)
  BY <1>1, NoneIsNoSlot DEF IInv, Session, Alone, None
<1>7. NoStranger'
  <2>1. ASSUME NEW d \in shut' PROVE key'[d] \in late'
    <3>1. CASE d \in shut
      BY <3>1 DEF IInv, NoStranger
    <3>2. CASE d \notin shut
      BY <1>3, <1>6, <3>2
    <3>3. QED
      BY <3>1, <3>2
  <2>2. QED
    BY <2>1 DEF NoStranger
<1>8. Session(s)'
  <2>1. UNCHANGED <<state, sock, key, acc, late, ghosts>>
    BY DEF slots
  <2>2. s \notin late => Alone(s)' /\ Taken(s)'
    BY <1>2, <1>6, <2>1 DEF Session, Alone, Taken, SlotOf, Wiring
  <2>3. s \notin late => Closing(s)'
    BY <1>2, <1>3, <1>6, <2>1, JobParts DEF Session, Alone, Closing, SlotOf, Closers
  <2>4. s \notin late => OneReceive(s)'
    BY <1>3, <1>6, <2>1 DEF OneReceive
  <2>5. s \notin late \cup ghosts => Ended(s)'
    <3>1. SlotOf(j)' = s /\ job'[j] \in Closers
      BY <1>2, <2>1 DEF SlotOf
    <3>2. s \notin late => conn'[c] = "closed"
      BY <1>3, <1>6
    <3>3. QED
      BY <2>1, <3>1, <3>2 DEF Ended
  <2>6. QED
    BY <2>1, <2>2, <2>3, <2>4, <2>5 DEF Session
<1>9. QED
  BY <1>1, <1>4, <1>5, <1>7, <1>8, WorksElsewhere

LEMMA FailInv == ASSUME IInv, NEW j \in Jobs, Fail(j) PROVE IInv'
BY CloseInv DEF Fail, Closers

LEMMA RecvLogoutInv == ASSUME IInv, NEW j \in Jobs, RecvLogout(j) PROVE IInv'
<1>1. j[2] # "send"
  BY DEF RecvLogout, IInv, Shape, Wired, Receiving
<1>2. QED
  BY <1>1, CloseInv DEF RecvLogout, Closers

(* ... and then the slot is free: its socket was closed before.             *)
LEMMA FreeInv == ASSUME IInv, NEW j \in Jobs, Free(j) PROVE IInv'
<1> SlotOf(j) \in Slots /\ j[1] \in Conns
  BY Places, JobParts DEF IInv, Free
<1> PICK s \in Slots : s = SlotOf(j)
  OBVIOUS
<1> DEFINE p == IF job[j] = "free" THEN "none" ELSE "again"
<1>1. job[j] \in Closers /\ job[j] # "none" /\ p \in {"none", "again"}
  BY DEF Free, Closers
<1>2. \A i \in Jobs : job'[i] = IF i = j THEN p ELSE job[i]
  BY DEF Free, IInv, Shape, TypeOK
<1>3. state'[s] = "free" /\ \A u \in Slots \ {s} : state'[u] = state[u]
  BY DEF Free, IInv, Shape, TypeOK
<1>4. p = "again" => j[2] # "send"
  BY DEF Free, IInv, Shape, Wired, Receiving
<1>5. Works(s)
  BY <1>1, <1>2, <1>3, <1>4 DEF Works, Free, past, IInv, Shape, Wired, Receiving
<1>6. TypeOK'
  <2>1. job' \in [Jobs -> {"none", "pending", "bad", "sent", "login", "data", "logout"} \cup Handling]
    BY DEF Free, IInv, Shape, TypeOK, Handling
  <2>2. state' \in [Slots -> {"free", "alloc", "ingame"}]
    BY DEF Free, IInv, Shape, TypeOK
  <2>3. QED
    BY <2>1, <2>2 DEF Free, IInv, Shape, TypeOK, past
<1>7. NoStranger'
  BY DEF Free, IInv, NoStranger, past
<1>8. Session(s)'
  <2>1. Session(s) /\ UNCHANGED <<sock, conn, key, acc, late, ghosts>>
    BY DEF IInv, Free, past
  <2>2. s \notin late => sock[s] = j[1] /\ conn[sock[s]] = "closed"
    BY <1>1, <2>1 DEF Session, Alone, Closing
  <2>3. s \notin late => Alone(s)' /\ Taken(s)' /\ Closing(s)'
    BY <1>1, <1>2, <2>1 DEF Session, Alone, Taken, Closing, SlotOf, Wiring, Closers
  <2>4. s \notin late => OneReceive(s)' /\ Ended(s)'
    BY <1>3, <2>1, <2>2 DEF OneReceive, Ended
  <2>5. QED
    BY <2>1, <2>3, <2>4 DEF Session
<1>9. QED
  BY <1>5, <1>6, <1>7, <1>8, WorksElsewhere

(* The end of CS_LOGIN marks the slot.  If its socket was closed meanwhile, *)
(* either it was freed, and is a ghost now, or somebody is about to do it.  *)
LEMMA LoginMarkInv == ASSUME IInv, NEW j \in Jobs, LoginMark(j) PROVE IInv'
<1> SlotOf(j) \in Slots /\ j[1] \in Conns
  BY Places, JobParts DEF IInv, LoginMark
<1> PICK s \in Slots : s = SlotOf(j)
  OBVIOUS
<1>1. job[j] = "mark" /\ j[2] # "send"
  BY DEF LoginMark, IInv, Shape, Wired, Receiving
<1>2. \A i \in Jobs : job'[i] = IF i = j THEN "again" ELSE job[i]
  BY DEF LoginMark, IInv, Shape, TypeOK
<1>3. state'[s] = "ingame" /\ \A u \in Slots \ {s} : state'[u] = state[u]
  BY DEF LoginMark, IInv, Shape, TypeOK
<1>4. Works(s)
  BY <1>1, <1>2, <1>3 DEF Works, LoginMark, IInv, Shape, Wired, Receiving
<1>5. TypeOK'
  <2>1. job' \in [Jobs -> {"none", "pending", "bad", "sent", "login", "data", "logout"} \cup Handling]
    BY DEF LoginMark, IInv, Shape, TypeOK, Handling
  <2>2. state' \in [Slots -> {"free", "alloc", "ingame"}] /\ ghosts' \subseteq Slots
    BY DEF LoginMark, IInv, Shape, TypeOK
  <2>3. QED
    BY <2>1, <2>2 DEF LoginMark, IInv, Shape, TypeOK
<1>6. NoStranger'
  BY DEF LoginMark, IInv, NoStranger
<1>7. Session(s)'
  <2>1. Session(s) /\ UNCHANGED <<sock, conn, key, acc, late>>
    BY DEF IInv, LoginMark
  <2>2. s \notin late => Alone(s)' /\ Taken(s)' /\ Closing(s)'
    BY <1>1, <1>2, <2>1 DEF Session, Alone, Taken, Closing, SlotOf, Wiring, Closers
  <2>3. s \notin late => OneReceive(s)'
    <3>1. \A i \in Jobs : job'[i] = "none" <=> job[i] = "none"
      BY <1>1, <1>2
    <3>2. sock[s] # None => sock[s] \in Conns
      BY Places DEF IInv
    <3>3. QED
      BY <2>1, <3>1, <3>2, JobOf, KindsThere DEF Session, OneReceive
  <2>4. s \notin late \cup ghosts' => Ended(s)'
    <3>1. s \notin ghosts' => s \notin ghosts /\ state[s] # "free"
      BY DEF LoginMark
    <3>2. \A i \in Jobs : job[i] \in Closers => job'[i] \in Closers
      BY <1>1, <1>2 DEF Closers
    <3>3. QED
      BY <1>3, <2>1, <3>1, <3>2 DEF Session, Ended, SlotOf, Wiring
  <2>5. QED
    BY <2>1, <2>2, <2>3, <2>4 DEF Session
<1>8. QED
  BY <1>4, <1>5, <1>6, <1>7, WorksElsewhere

(* do_recv: the job ends, and one is posted on the slot's socket if it can. *)
LEMMA AgainInv == ASSUME IInv, NEW j \in Jobs, Again(j) PROVE IInv'
<1> SlotOf(j) \in Slots /\ j[1] \in Conns
  BY Places, JobParts DEF IInv, Again
<1> PICK s \in Slots : s = SlotOf(j)
  OBVIOUS
<1> DEFINE c == sock[s]
           open == {i \in Jobs : i[1] = c /\ i[2] # "send" /\ (job[i] = "none" \/ i = j)}
<1>1. job[j] = "again" /\ j[2] # "send" /\ UNCHANGED <<slots, conn, peer, key, acc, next, past>>
  BY DEF Again, IInv, Shape, Wired, Receiving
<1>2. \/ /\ c # None /\ conn[c] = "open"
         /\ \E i \in open : job' = [job EXCEPT ![j] = "none", ![i] = "pending"]
      \/ /\ ~(c # None /\ conn[c] = "open" /\ open # {})
         /\ job' = [job EXCEPT ![j] = "none"]
  BY DEF Again, do_recv, Current
<1>3. c # None => c \in Conns /\ key[c] = s
  BY Places DEF IInv, Shape, Wired
<1>4. \/ /\ c # None /\ conn[c] = "open" /\ c \in Conns /\ key[c] = s
         /\ \E i \in open : \A k \in Jobs :
              job'[k] = IF k = i THEN "pending" ELSE IF k = j THEN "none" ELSE job[k]
      \/ /\ ~(c # None /\ conn[c] = "open" /\ open # {})
         /\ \A k \in Jobs : job'[k] = IF k = j THEN "none" ELSE job[k]
  BY <1>2, <1>3 DEF IInv, Shape, TypeOK
<1> HIDE DEF c, open
<1>5. /\ \A k \in Jobs : job'[k] \in {job[k], "none", "pending"}
      /\ \A k \in Jobs : SlotOf(k) # s => job'[k] = job[k]
      /\ \A k \in Jobs : job'[k] # "none" => job[k] # "none" \/ conn[k[1]] = "open"
      /\ \A k \in Jobs : job[k] \in Closers => job'[k] = job[k]
      /\ job'[j] \in {"none", "pending"}
  BY <1>1, <1>4 DEF open, SlotOf, Closers
<1>6. Works(s)
  BY <1>1, <1>5 DEF Works, slots, past, IInv, Shape, Wired, Receiving
<1>7. TypeOK'
  <2>1. job' \in [Jobs -> {"none", "pending", "bad", "sent", "login", "data", "logout"} \cup Handling]
    BY <1>2 DEF IInv, Shape, TypeOK, open
  <2>2. QED
    BY <1>1, <2>1 DEF IInv, Shape, TypeOK, slots, past
<1>8. NoStranger'
  BY <1>1 DEF IInv, NoStranger, past
<1>9. Session(s)'
  <2>1. Session(s) /\ UNCHANGED <<state, sock, conn, key, acc, late, ghosts>>
    BY <1>1 DEF IInv, slots, past
  <2>2. s \notin late => j[1] = c
    BY <1>1, <2>1 DEF Session, Alone, c
  <2>3. s \notin late => Alone(s)'
    BY <1>1, <1>4, <1>5, <2>1 DEF Session, Alone, SlotOf, open, c
  <2>4. s \notin late => Taken(s)' /\ Closing(s)'
    BY <1>1, <1>5, <2>1 DEF Session, Taken, Closing, SlotOf, Wiring, Closers
  <2>5. ASSUME s \notin late, c # None, conn[c] = "open"
        PROVE  job'[<<c, "recv">>] = "none" <=> job'[<<c, "recv2">>] # "none"
    <3>1. c \in Conns /\ j[1] = c /\ (job[<<c, "recv">>] = "none" <=> job[<<c, "recv2">>] # "none")
      BY <1>3, <2>1, <2>2, <2>5 DEF Session, OneReceive, c
    <3>2. /\ <<c, "recv">> \in Jobs /\ <<c, "recv2">> \in Jobs /\ <<c, "recv">> # <<c, "recv2">>
          /\ <<c, "recv">>[2] = "recv" /\ <<c, "recv2">>[2] = "recv2"
          /\ <<c, "recv">>[1] = c /\ <<c, "recv2">>[1] = c
      BY <3>1, JobOf, KindsThere
    <3>3. \A i \in Jobs : i[1] = c /\ i[2] # "send" => i \in {<<c, "recv">>, <<c, "recv2">>}
      BY JobParts DEF Kinds
    <3>4. j \in {<<c, "recv">>, <<c, "recv2">>} /\ j \in open
      BY <1>1, <3>1, <3>3 DEF open
    <3>5. PICK i \in open : \A k \in Jobs :
              job'[k] = IF k = i THEN "pending" ELSE IF k = j THEN "none" ELSE job[k]
      BY <1>4, <2>5, <3>4
    <3>6. i \in {<<c, "recv">>, <<c, "recv2">>}
      BY <3>3 DEF open
    <3>7. QED
      BY <1>1, <3>1, <3>2, <3>4, <3>5, <3>6
  <2>6. s \notin late => OneReceive(s)'
    BY <2>1, <2>5 DEF OneReceive, c
  <2>7. s \notin late \cup ghosts => Ended(s)'
    BY <1>5, <2>1 DEF Session, Ended, SlotOf, Wiring
  <2>8. QED
    BY <2>1, <2>3, <2>4, <2>6, <2>7 DEF Session
<1>10. QED
  BY <1>6, <1>7, <1>8, <1>9, WorksElsewhere

(* A send is posted on a slot in the game only, so not while it is wired.   *)
LEMMA SendInv == ASSUME IInv, NEW s \in Slots, do_send(s) PROVE IInv'
<1> DEFINE c == sock[s]
           i == <<c, "send">>
<1>1. /\ state[s] = "ingame" /\ c # None /\ conn[c] = "open" /\ job[i] = "none"
      /\ job' = [job EXCEPT ![i] = "pending"]
      /\ UNCHANGED <<slots, conn, peer, key, acc, next, past>>
  BY DEF do_send, Current
<1>2. c \in Conns /\ key[c] = s
  BY <1>1, Places DEF IInv, Shape, Wired
<1>3. i \in Jobs /\ i[1] = c /\ i[2] = "send"
  BY <1>2, JobOf, KindsThere
<1> HIDE DEF i
<1>4. \A k \in Jobs : job'[k] = IF k = i THEN "pending" ELSE job[k]
  BY <1>1 DEF IInv, Shape, TypeOK
<1>5. Works(s)
  BY <1>1, <1>2, <1>3, <1>4 DEF Works, slots, past, IInv, Shape, Wired, SlotOf, Receiving
<1>6. TypeOK'
  <2>1. job' \in [Jobs -> {"none", "pending", "bad", "sent", "login", "data", "logout"} \cup Handling]
    BY <1>1 DEF IInv, Shape, TypeOK
  <2>2. QED
    BY <1>1, <2>1 DEF IInv, Shape, TypeOK, slots, past
<1>7. NoStranger'
  BY <1>1 DEF IInv, NoStranger, past
<1>8. Session(s)'
  <2>1. Session(s) /\ UNCHANGED <<state, sock, conn, key, acc, late, ghosts>>
    BY <1>1 DEF IInv, slots, past
  <2>2. s \notin late => Alone(s)' /\ Closing(s)'
    BY <1>3, <1>4, <2>1 DEF Session, Alone, Closing, SlotOf, Closers
  <2>3. s \notin late => Taken(s)'
    BY <1>1, <2>1 DEF Session, Taken, Wiring
  <2>4. s \notin late => OneReceive(s)'
    <3>1. \A k \in {"recv", "recv2"} : <<c, k>> \in Jobs /\ <<c, k>>[2] = k
      BY <1>2, JobOf DEF Kinds
    <3>2. job'[<<c, "recv">>] = job[<<c, "recv">>] /\ job'[<<c, "recv2">>] = job[<<c, "recv2">>]
      BY <1>3, <1>4, <3>1
    <3>3. QED
      BY <2>1, <3>2 DEF Session, OneReceive
  <2>5. s \notin late \cup ghosts => Ended(s)'
    BY <1>1, <2>1 DEF Session, Ended, Wiring
  <2>6. QED
    BY <2>1, <2>2, <2>3, <2>4, <2>5 DEF Session
<1>9. QED
  BY <1>5, <1>6, <1>7, <1>8, WorksElsewhere

-----------------------------------------------------------------------------
(* The accept: AcceptEx completes, a slot is taken, marked and wired.       *)

(* What leaves the slots, their sockets and the jobs as they are, and       *)
(* starts or ends no wiring.                                                *)
LEMMA SlotsStay ==
  ASSUME IInv, Shape', UNCHANGED <<slots, key, job, past>>,
         \A s \in Slots : Wiring(s)' <=> Wiring(s),
         \A c \in Conns : key[c] # 0 => conn'[c] = conn[c]
  PROVE  IInv'
<1>1. ASSUME NEW s \in Slots PROVE Session(s)'
  BY NoneIsNoSlot, SessionSame DEF IInv, slots, past
<1>2. NoStranger'
  BY DEF IInv, NoStranger, past
<1>3. QED
  BY <1>1, <1>2 DEF IInv

LEMMA ArriveInv == ASSUME IInv, Arrive PROVE IInv'
<1>1. /\ acc.pc = "posted" /\ acc' = Acc("ok", 0) /\ next \in Conns /\ next' = next /\ key[next] = 0
      /\ conn' \in [Conns -> {"unused", "fresh", "open", "closed"}]
      /\ \A c \in Conns : conn'[c] = IF c = next THEN "open" ELSE conn[c]
      /\ peer' \in [Conns -> {"none", "new", "in", "bye", "gone"}]
  BY DEF Arrive, IInv, Shape, TypeOK, Coming
<1>2. acc'.pc = "ok" /\ acc' \in [pc : {"posted", "ok", "bad", "mark", "wire", "refused", "bound"}, slot : 0..N]
  BY <1>1, SizeAssumption DEF Acc
<1>3. TypeOK'
  BY <1>1, <1>2 DEF Arrive, IInv, Shape, TypeOK, slots, past
<1>4. Wired'
  <2>1. \A j \in Jobs : job[j] # "none" => j[1] # next
    BY <1>1 DEF IInv, Shape, Wired, SlotOf
  <2>2. QED
    BY <1>1, <2>1, JobParts DEF Arrive, IInv, Shape, Wired, SlotOf, slots
<1>5. Coming'
  BY <1>1, <1>2 DEF Arrive, IInv, Shape, Coming
<1>6. QED
  BY <1>1, <1>2, <1>3, <1>4, <1>5, SlotsStay DEF Arrive, Shape, Wiring

LEMMA ArriveBadlyInv == ASSUME IInv, ArriveBadly PROVE IInv'
<1>1. acc.pc = "posted" /\ acc'.pc = "bad"
      /\ acc' \in [pc : {"posted", "ok", "bad", "mark", "wire", "refused", "bound"}, slot : 0..N]
  BY SizeAssumption DEF ArriveBadly, Acc
<1>2. Shape'
  BY <1>1 DEF ArriveBadly, IInv, Shape, TypeOK, Wired, Coming, SlotOf, slots, past
<1>3. QED
  BY <1>1, <1>2, SlotsStay DEF ArriveBadly, Wiring

LEMMA LeaveInv == ASSUME IInv, NEW c \in Conns, Leave(c) PROVE IInv'
<1>1. peer' \in [Conns -> {"none", "new", "in", "bye", "gone"}]
  BY DEF Leave, IInv, Shape, TypeOK
<1>2. Shape'
  BY <1>1 DEF Leave, IInv, Shape, TypeOK, Wired, Coming, SlotOf, slots, past
<1>3. QED
  BY <1>2, SlotsStay DEF Leave, Wiring

LEMMA AcceptTakeInv == ASSUME IInv, AcceptTake PROVE IInv'
<1>1. \/ \E s \in Slots : acc' = Acc("mark", s)
      \/ acc' = Acc("refused", 0) \/ acc' = Acc("posted", 0)
  BY DEF AcceptTake
<1>2. acc.pc \in {"ok", "bad"} /\ acc'.pc \in {"mark", "refused", "posted"}
      /\ (acc'.pc = "mark" => acc'.slot # 0)
      /\ acc' \in [pc : {"posted", "ok", "bad", "mark", "wire", "refused", "bound"}, slot : 0..N]
  BY <1>1, SizeAssumption, NoneIsNoSlot DEF AcceptTake, Acc
<1>3. Shape'
  BY <1>2 DEF AcceptTake, IInv, Shape, TypeOK, Wired, Coming, SlotOf, slots, past
<1>4. QED
  BY <1>2, <1>3, SlotsStay DEF AcceptTake, Wiring

LEMMA AcceptMarkInv == ASSUME IInv, AcceptMark PROVE IInv'
<1>1. acc.slot \in Slots /\ acc.pc = "mark"
  BY SizeAssumption DEF AcceptMark, IInv, Shape, TypeOK, Coming, Slots
<1> PICK s \in Slots : s = acc.slot
  BY <1>1
<1>2. /\ acc'.pc = "wire" /\ acc'.slot = s /\ late \subseteq late' /\ late' \subseteq Slots
      /\ acc' \in [pc : {"posted", "ok", "bad", "mark", "wire", "refused", "bound"}, slot : 0..N]
      /\ state' \in [Slots -> {"free", "alloc", "ingame"}]
      /\ state'[s] = "alloc" /\ \A u \in Slots \ {s} : state'[u] = state[u]
      /\ UNCHANGED <<sock, conn, peer, key, job, next, ghosts, shut>>
  BY <1>1, NoneIsNoSlot DEF AcceptMark, Acc, IInv, Shape, TypeOK
<1>3. Shape'
  BY <1>1, <1>2, NoneIsNoSlot DEF IInv, Shape, TypeOK, Wired, Coming, SlotOf
<1>4. NoStranger'
  BY <1>2 DEF IInv, NoStranger
<1>5. ASSUME NEW u \in Slots, u # s PROVE Session(u)'
  <2>1. Wiring(u)' <=> Wiring(u)
    BY <1>1, <1>2, <1>5 DEF Wiring
  <2>2. QED
    BY <1>2, <1>5, <2>1, SessionSame DEF IInv
<1>6. Session(s)'
  <2>1. Wiring(s)' /\ Session(s)
    BY <1>2 DEF Wiring, IInv
  <2>2. s \notin late' => s \notin late /\ \A j \in Jobs : SlotOf(j) = s => job[j] = "none"
    BY DEF AcceptMark, Left, SlotOf
  <2>3. s \notin late' => Alone(s)' /\ Taken(s)' /\ Closing(s)' /\ OneReceive(s)'
    BY <1>2, <2>1, <2>2 DEF Session, Alone, Taken, Closing, OneReceive, SlotOf
  <2>4. Ended(s)'
    BY <2>1 DEF Ended
  <2>5. QED
    BY <2>3, <2>4 DEF Session
<1>7. QED
  BY <1>3, <1>4, <1>5, <1>6 DEF IInv

LEMMA AcceptWireInv == ASSUME IInv, AcceptWire PROVE IInv'
<1>1. acc.slot \in Slots /\ acc.pc = "wire"
  BY SizeAssumption DEF AcceptWire, IInv, Shape, TypeOK, Coming, Slots
<1> PICK s \in Slots : s = acc.slot
  BY <1>1
<1>2. /\ next \in Conns /\ key[next] = 0 /\ conn[next] \in {"fresh", "open"}
      /\ \A c \in Conns : c > next => key[c] = 0
  BY <1>1 DEF IInv, Shape, TypeOK, Coming
<1>3. /\ sock' \in [Slots -> Conns \cup {None}] /\ key' \in [Conns -> 0..N]
      /\ sock'[s] = next /\ \A u \in Slots \ {s} : sock'[u] = sock[u]
      /\ key'[next] = s /\ \A c \in Conns \ {next} : key'[c] = key[c]
      /\ UNCHANGED <<state, peer, late, ghosts, shut>>
  BY <1>2, NoneIsNoSlot DEF AcceptWire, IInv, Shape, TypeOK, past
<1>4. /\ job' \in [Jobs -> {"none", "pending", "bad", "sent", "login", "data", "logout"} \cup Handling]
      /\ \A j \in Jobs : job'[j] = IF j = <<next, "recv">> /\ conn[next] = "open" THEN "pending" ELSE job[j]
  <2>1. <<next, "recv">> \in Jobs
    BY <1>2, JobOf, KindsThere
  <2>2. QED
    BY <2>1 DEF AcceptWire, IInv, Shape, TypeOK
<1>5. \/ /\ next = C /\ acc' = Acc("bound", 0) /\ next' = next /\ conn' = conn
      \/ /\ next # C /\ acc' = Acc("posted", 0) /\ next' = next + 1
         /\ conn' = [conn EXCEPT ![next + 1] = "fresh"]
  BY DEF AcceptWire, Renew
<1>6. /\ acc'.pc \in {"posted", "bound"} /\ next' \in Conns
      /\ acc' \in [pc : {"posted", "ok", "bad", "mark", "wire", "refused", "bound"}, slot : 0..N]
      /\ \A c \in Conns : c > next' => c > next
      /\ acc'.pc # "bound" => next' > next /\ conn'[next'] = "fresh"
      /\ conn' \in [Conns -> {"unused", "fresh", "open", "closed"}]
      /\ \A c \in Conns : conn'[c] = conn[c] \/ (c > next /\ conn'[c] = "fresh")
  BY <1>2, <1>5, SizeAssumption DEF Acc, Conns, IInv, Shape, TypeOK
<1>7. \A c \in Conns : key[c] # 0 \/ c = next => conn'[c] = conn[c]
  BY <1>2, <1>6 DEF Conns
<1>8. \A j \in Jobs : j[1] = next => job[j] = "none"
  BY <1>2 DEF IInv, Shape, Wired, SlotOf
<1>9. Shape'
  <2>1. TypeOK'
    BY <1>3, <1>4, <1>6 DEF IInv, Shape, TypeOK
  <2>2. ASSUME NEW u \in Slots, sock'[u] # None PROVE key'[sock'[u]] = u
    BY <1>2, <1>3, <2>2, NoneIsNoSlot, Places DEF IInv, Shape, Wired
  <2>3. ASSUME NEW j \in Jobs, job'[j] # "none"
        PROVE  SlotOf(j)' # 0 /\ conn'[j[1]] \in {"open", "closed"}
    <3>1. CASE j = <<next, "recv">> /\ conn[next] = "open"
      BY <1>2, <1>3, <1>7, <3>1, NoneIsNoSlot DEF SlotOf
    <3>2. CASE ~(j = <<next, "recv">> /\ conn[next] = "open")
      <4>1. job[j] # "none" /\ j[1] # next /\ j[1] \in Conns
        BY <1>4, <1>8, <2>3, <3>2, JobParts
      <4>2. QED
        BY <1>3, <1>7, <4>1 DEF IInv, Shape, Wired, SlotOf
    <3>3. QED
      BY <3>1, <3>2
  <2>4. \A j \in Jobs : (job'[j] \in Receiving => j[2] # "send") /\ (job'[j] = "sent" => j[2] = "send")
    BY <1>4 DEF IInv, Shape, Wired, Receiving
  <2>5. Wired'
    BY <2>2, <2>3, <2>4 DEF Wired
  <2>6. \A c \in Conns : c > next' => key'[c] = 0
    BY <1>2, <1>3, <1>6 DEF Conns
  <2>7. acc'.pc # "bound" => key'[next'] = 0 /\ conn'[next'] \in {"fresh", "open"}
    BY <1>2, <1>3, <1>6 DEF Conns
  <2>8. \A c \in Conns : key'[c] # 0 => conn'[c] # "unused"
    BY <1>2, <1>3, <1>7 DEF IInv, Shape, Coming
  <2>9. Coming'
    BY <1>6, <2>6, <2>7, <2>8 DEF Coming
  <2>10. QED
    BY <2>1, <2>5, <2>9 DEF Shape
<1>10. NoStranger'
  <2>1. \A c \in shut : key[c] \in late /\ key[c] # 0
    BY NoneIsNoSlot DEF IInv, NoStranger, Shape, TypeOK
  <2>2. \A c \in shut : c \in Conns /\ c # next
    BY <1>2, <2>1 DEF IInv, Shape, TypeOK
  <2>3. QED
    BY <1>3, <2>1, <2>2 DEF NoStranger
<1>11. ASSUME NEW u \in Slots, u # s PROVE Session(u)'
  <2>1. Wiring(u)' <=> Wiring(u)
    BY <1>1, <1>6, <1>11 DEF Wiring
  <2>2. \A c \in Conns : key'[c] = u <=> key[c] = u
    BY <1>2, <1>3, <1>11, NoneIsNoSlot
  <2>3. \A c \in Conns : key[c] = u => conn'[c] = conn[c]
    BY <1>7, NoneIsNoSlot
  <2>4. \A j \in Jobs : SlotOf(j) = u => job'[j] = job[j]
    BY <1>2, <1>4, NoneIsNoSlot DEF SlotOf
  <2>5. QED
    BY <1>3, <1>11, <2>1, <2>2, <2>3, <2>4, SessionSame DEF IInv
<1>12. Session(s)'
  <2>1. Session(s) /\ Wiring(s)
    BY <1>1 DEF IInv, Wiring
  <2>2. s \notin late => /\ state[s] = "alloc"
                         /\ \A j \in Jobs : SlotOf(j) = s => job[j] = "none"
    BY <2>1 DEF Session, Taken
  <2>3. s \notin late => \A j \in Jobs : job'[j] # "none" /\ SlotOf(j)' = s =>
                                            j = <<next, "recv">> /\ job'[j] = "pending"
    BY <1>3, <1>4, <1>8, <2>2, JobParts DEF SlotOf
  <2>4. s \notin late => Alone(s)' /\ Closing(s)'
    BY <1>3, <2>3 DEF Alone, Closing, Closers
  <2>5. Taken(s)'
    BY <1>6 DEF Taken, Wiring
  <2>6. OneReceive(s)'
    <3>1. <<next, "recv">> \in Jobs /\ <<next, "recv2">> \in Jobs /\ <<next, "recv">> # <<next, "recv2">>
      BY <1>2, JobOf, KindsThere
    <3>2. job[<<next, "recv2">>] = "none"
      BY <1>2, <1>8, <3>1, JobOf, KindsThere
    <3>3. QED
      BY <1>2, <1>3, <1>4, <1>7, <3>1, <3>2 DEF OneReceive
  <2>7. s \notin late => Ended(s)'
    BY <1>2, <1>3, <1>7, <2>2 DEF Ended
  <2>8. QED
    BY <1>3, <2>4, <2>5, <2>6, <2>7 DEF Session
<1>13. QED
  BY <1>9, <1>10, <1>11, <1>12 DEF IInv

-----------------------------------------------------------------------------
LEMMA InitInv == Init => IInv
<1> SUFFICES ASSUME Init PROVE IInv
  OBVIOUS
<1>1. PICK m \in Slots : state = [s \in Slots |-> IF s <= m THEN "free" ELSE "ingame"]
  BY DEF Init
<1>2. 1 \in Conns /\ next = 1 /\ 0 \in 0..N
  BY SizeAssumption DEF Init, Conns
<1>3. TypeOK
  BY <1>1, <1>2 DEF Init, TypeOK, Acc, Handling
<1>4. Wired /\ Coming
  BY <1>2 DEF Init, Wired, Coming, Acc, Receiving
<1>5. ASSUME NEW s \in Slots PROVE Session(s)
  BY <1>5 DEF Init, Session, Alone, Taken, Closing, OneReceive, Ended, Wiring, Acc, Closers
<1>6. NoStranger
  BY DEF Init, NoStranger
<1>7. QED
  BY <1>3, <1>4, <1>5, <1>6 DEF IInv, Shape

LEMMA NextInv == ASSUME IInv, [Next]_vars PROVE IInv'
<1>1. ASSUME NEW j \in Jobs, Handle(j) PROVE IInv'
  BY <1>1, FailInv, FreeInv, SentInv, RecvLoginInv, LoginMarkInv, RecvOtherInv, RecvLogoutInv,
     AgainInv DEF Handle
<1>2. CASE Accept
  BY <1>2, AcceptTakeInv, AcceptMarkInv, AcceptWireInv DEF Accept
<1>3. CASE UNCHANGED vars
  <2>1. Shape'
    BY <1>3 DEF vars, IInv, Shape, TypeOK, Wired, Coming, SlotOf, slots, past
  <2>2. QED
    BY <1>3, <2>1, SlotsStay DEF vars, Wiring
<1>4. QED
  BY <1>1, <1>2, <1>3, ArriveInv, ArriveBadlyInv, LeaveInv, SendInv, CompleteInv, CompleteBadlyInv
     DEF Next

LEMMA IInvHolds == Spec => []IInv
<1>1. QED
  BY InitInv, NextInv, PTL DEF Spec

\* TypeOK holds in every state of Sessions: completions, handlers and accepts
\* name slots and sockets there are, and each is where the code has a place.
THEOREM TypeCorrect == Spec => []TypeOK
<1>1. IInv => TypeOK
  BY DEF IInv, Shape
<1>2. QED
  BY <1>1, IInvHolds, PTL

\* NoStranger: however many clients come, go, and reuse the slots, a
\* connection is closed by a completion of its own, unless its slot was taken
\* while jobs of the session before were still to come.
THEOREM NoStrangerHolds == Spec => []NoStranger
<1>1. IInv => NoStranger
  BY DEF IInv
<1>2. QED
  BY <1>1, IInvHolds, PTL

\* Heard: a slot in use that nobody works on has an open connection with one
\* receive on it and a free slot's connection is closed, unless the slot was
\* taken too early or marked after its session had gone.
THEOREM HeardHolds == Spec => []Heard
<1>1. ASSUME IInv, NEW s \in Slots \ (late \cup ghosts),
             AtRest(s), sock[s] # None, conn[sock[s]] # "fresh"
      PROVE  IF state[s] = "free" THEN conn[sock[s]] = "closed"
             ELSE conn[sock[s]] = "open" /\ Cardinality(Receives(sock[s])) = 1
  <2> DEFINE c == sock[s]
  <2>1. Session(s) /\ ~Wiring(s) /\ \A j \in Jobs : SlotOf(j) = s => job[j] \notin Closers
    BY <1>1 DEF IInv, AtRest, Wiring, Handling, Closers, SlotOf
  <2>2. c \in Conns /\ key[c] = s
    BY <1>1, Places DEF IInv, Shape, Wired
  <2>3. conn[c] \in {"open", "closed"}
    BY <1>1, <2>2, NoneIsNoSlot DEF IInv, Shape, TypeOK, Coming
  <2>4. (state[s] = "free" => conn[c] # "open") /\ (conn[c] = "closed" => state[s] = "free")
    BY <1>1, <2>1 DEF Session, Ended
  <2>5. ASSUME conn[c] = "open" PROVE Cardinality(Receives(c)) = 1
    <3>1. job[<<c, "recv">>] = "none" <=> job[<<c, "recv2">>] # "none"
      BY <1>1, <2>1, <2>5 DEF Session, OneReceive
    <3>2. \A j \in Jobs : j[1] = c /\ j[2] # "send" => j \in {<<c, "recv">>, <<c, "recv2">>}
      BY JobParts DEF Kinds
    <3>3. /\ <<c, "recv">> \in Jobs /\ <<c, "recv2">> \in Jobs
          /\ <<c, "recv">>[1] = c /\ <<c, "recv">>[2] = "recv"
          /\ <<c, "recv2">>[1] = c /\ <<c, "recv2">>[2] = "recv2"
      BY <2>2, JobOf, KindsThere
    <3>4. PICK j : Receives(c) = {j}
      <4>1. CASE job[<<c, "recv">>] = "none"
        <5>1. Receives(c) = {<<c, "recv2">>}
          BY <3>1, <3>2, <3>3, <4>1 DEF Receives
        <5>2. QED
          BY <5>1
      <4>2. CASE job[<<c, "recv">>] # "none"
        <5>1. Receives(c) = {<<c, "recv">>}
          BY <3>1, <3>2, <3>3, <4>2 DEF Receives
        <5>2. QED
          BY <5>1
      <4>3. QED
        BY <4>1, <4>2
    <3>5. QED
      BY <3>4, FS_Singleton
  <2>6. QED
    BY <2>3, <2>4, <2>5
<1>2. IInv => Heard
  BY <1>1 DEF Heard
<1>3. QED
  BY <1>2, IInvHolds, PTL
=============================================================================
