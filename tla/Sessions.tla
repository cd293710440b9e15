------------------------------ MODULE Sessions ------------------------------
(***************************************************************************)
(* Session slots, sockets and completions: get_new_client_id, disconnect   *)
(* and worker_thread in multi_iocp_server.cpp, do_recv and do_send in      *)
(* SESSION.cpp.                                                            *)
(*                                                                         *)
(* A completion carries a key, the number of the slot its socket was       *)
(* registered for, and nothing else: the handler works on whatever the     *)
(* slot holds when it runs.  Every overlapped operation is a job here; the *)
(* worker that takes its completion goes on in the same job, so that any   *)
(* number of workers may be between any two steps of their handlers.       *)
(***************************************************************************)
EXTENDS Naturals, FiniteSets

CONSTANTS
  N,  \* MAX_USER: slots 1..N
  C   \* bound: sockets 1..C the process makes, one after the other

Slots == 1..N
Conns == 1..C
None  == 0
\* One WSARecv and one WSASend at a time on a socket, and one WSARecv more
\* when two handlers post one (bound: no third).
Jobs  == Conns \X {"recv", "recv2", "send"}

ASSUME SizeAssumption == N \in Nat \ {0} /\ C \in Nat \ {0}

VARIABLES
  state,    \* _state of each slot
  sock,     \* _socket of each slot
  conn,     \* each socket: "unused", "fresh", "open", "closed"
  peer,     \* the client at its other end
  key,      \* the slot its completions name
  job,      \* each operation: outstanding, completed, or where its handler is
  acc,      \* AcceptEx, and its handler
  next,     \* g_c_socket
  late,     \* history: slots taken while jobs of an earlier session were left
  ghosts,   \* history: slots marked ST_INGAME after they were freed
  shut      \* history: sockets closed by a job of another socket

slots == <<state, sock>>
past  == <<late, ghosts, shut>>
vars  == <<slots, conn, peer, key, job, acc, next, past>>

-----------------------------------------------------------------------------
Acc(pc, slot) == [pc |-> pc, slot |-> slot]
SlotOf(j)  == key[j[1]]
Current(s) == sock[s]            \* objects[key]._socket
Receives(c) == {j \in Jobs : j[1] = c /\ j[2] # "send" /\ job[j] # "none"}

\* The jobs of earlier sessions that still name slot s.
Left(s) == {j \in Jobs : job[j] # "none" /\ key[j[1]] = s}

\* do_recv on the slot: WSARecv on a closed socket fails and queues nothing.
\* j is the job whose handler calls it; it ends here.
do_recv(j, s) ==
  LET c == Current(s)
      free == {i \in Jobs : i[1] = c /\ i[2] # "send" /\ (job[i] = "none" \/ i = j)}
  IN  IF c # None /\ conn[c] = "open" /\ free # {}
      THEN \E i \in free : job' = [job EXCEPT ![j] = "none", ![i] = "pending"]
      ELSE job' = [job EXCEPT ![j] = "none"]

-----------------------------------------------------------------------------
(* The other side and the system. *)

\* A client connects: AcceptEx completes with the connection on g_c_socket ...
Arrive ==
  /\ acc.pc = "posted"
  /\ acc' = Acc("ok", 0)
  /\ conn' = [conn EXCEPT ![next] = "open"]
  /\ peer' = [peer EXCEPT ![next] = "new"]
  /\ UNCHANGED <<slots, key, job, next, past>>

\* ... or fails, because the client was gone before.
ArriveBadly ==
  /\ acc.pc = "posted"
  /\ acc' = Acc("bad", 0)
  /\ UNCHANGED <<slots, conn, peer, key, job, next, past>>

\* The client vanishes.
Leave(c) ==
  /\ peer[c] \in {"new", "in", "bye"}
  /\ peer' = [peer EXCEPT ![c] = "gone"]
  /\ UNCHANGED <<slots, conn, key, job, acc, next, past>>

\* What a receive brings: CS_LOGIN first, CS_LOGOUT last.
Packets(c) == CASE peer[c] = "new" -> {"login"} [] peer[c] = "in" -> {"data", "logout"} [] OTHER -> {}
Talk(c, p) == CASE p = "login" -> "in" [] p = "logout" -> "bye" [] OTHER -> peer[c]

\* An operation completes: a receive with a packet the client sent, a send.
Complete(j) ==
  LET c == j[1] IN
  /\ job[j] = "pending" /\ conn[c] = "open"
  /\ \/ /\ j[2] # "send"
        /\ \E p \in Packets(c) : /\ job'  = [job EXCEPT ![j] = p]
                                 /\ peer' = [peer EXCEPT ![c] = Talk(c, p)]
     \/ j[2] = "send" /\ peer[c] # "gone" /\ job' = [job EXCEPT ![j] = "sent"] /\ peer' = peer
  /\ UNCHANGED <<slots, conn, key, acc, next, past>>

\* It fails, or moves no byte, when the client is gone or the socket closed.
CompleteBadly(j) ==
  /\ job[j] = "pending" /\ (peer[j[1]] = "gone" \/ conn[j[1]] = "closed")
  /\ job' = [job EXCEPT ![j] = "bad"]
  /\ UNCHANGED <<slots, conn, peer, key, acc, next, past>>

\* Anybody's handler sends something to a slot it believes in the game.
do_send(s) ==
  LET c == Current(s) IN
  /\ state[s] = "ingame" /\ c # None
  /\ conn[c] = "open" /\ job[<<c, "send">>] = "none"
  /\ job' = [job EXCEPT ![<<c, "send">>] = "pending"]
  /\ UNCHANGED <<slots, conn, peer, key, acc, next, past>>

-----------------------------------------------------------------------------
(* OP_ACCEPT. *)

\* Mutation of AcceptTake: the answer "no slot" is not looked at.
AcceptTakeAny ==
  /\ acc.pc \in {"ok", "bad"}
  /\ LET free == {s \in Slots : state[s] = "free"} IN
     IF free # {} THEN \E s \in free : (\A r \in free : s <= r) /\ acc' = Acc("mark", s)
     ELSE acc' = Acc("mark", N + 1)
  /\ UNCHANGED <<slots, conn, peer, key, job, next, past>>

\* get_new_client_id: the first slot that is free.  With none left the new
\* connection stays on g_c_socket, and AcceptEx refuses that socket.
AcceptTake ==
  /\ acc.pc \in {"ok", "bad"}
  /\ LET free == {s \in Slots : state[s] = "free"} IN
     IF free # {} THEN \E s \in free : (\A r \in free : s <= r) /\ acc' = Acc("mark", s)
     ELSE acc' = Acc(IF acc.pc = "ok" THEN "refused" ELSE "posted", 0)
  /\ UNCHANGED <<slots, conn, peer, key, job, next, past>>

AcceptMark ==
  /\ acc.pc = "mark"
  /\ state' = [state EXCEPT ![acc.slot] = "alloc"]
  /\ late'  = IF Left(acc.slot) # {} THEN late \cup {acc.slot} ELSE late
  /\ acc'   = Acc("wire", acc.slot)
  /\ UNCHANGED <<sock, conn, peer, key, job, next, ghosts, shut>>

\* A new g_c_socket, and AcceptEx on it again.
Renew ==
  IF next = C THEN acc' = Acc("bound", 0) /\ UNCHANGED <<next, conn>>
  ELSE /\ next' = next + 1 /\ conn' = [conn EXCEPT ![next + 1] = "fresh"]
       /\ acc' = Acc("posted", 0)

\* Mutation of AcceptWire: every socket is registered for the first slot.
AcceptWireKey ==
  LET s == acc.slot IN
  /\ acc.pc = "wire"
  /\ sock' = [sock EXCEPT ![s] = next]
  /\ key'  = [key EXCEPT ![next] = 1]
  /\ job'  = IF conn[next] = "open" THEN [job EXCEPT ![<<next, "recv">>] = "pending"] ELSE job
  /\ Renew
  /\ UNCHANGED <<state, peer, past>>

\* The socket is registered under the slot's number and the first receive
\* posted; after a failed accept there is no connection to receive from.
AcceptWire ==
  LET s == acc.slot IN
  /\ acc.pc = "wire"
  /\ sock' = [sock EXCEPT ![s] = next]
  /\ key'  = [key EXCEPT ![next] = s]
  /\ job'  = IF conn[next] = "open" THEN [job EXCEPT ![<<next, "recv">>] = "pending"] ELSE job
  /\ Renew
  /\ UNCHANGED <<state, peer, past>>

-----------------------------------------------------------------------------
(* OP_RECV, OP_SEND and failures. *)

\* closesocket in disconnect: the socket the slot holds now.
closesocket(j) ==
  LET c == Current(SlotOf(j)) IN
  IF c = None THEN UNCHANGED <<conn, shut>>
  ELSE /\ conn' = [conn EXCEPT ![c] = "closed"]
       /\ shut' = IF conn[c] = "open" /\ c # j[1] THEN shut \cup {c} ELSE shut

\* Mutation of Fail: a failed receive is forgotten.
FailIgnored(j) ==
  /\ job[j] = "bad"
  /\ job' = [job EXCEPT ![j] = "none"]
  /\ UNCHANGED <<slots, conn, peer, key, acc, next, past>>

\* The completion failed or moved no byte: disconnect closes the socket ...
Fail(j) ==
  /\ job[j] = "bad"
  /\ closesocket(j)
  /\ job' = [job EXCEPT ![j] = "free"]
  /\ UNCHANGED <<slots, peer, key, acc, next, late, ghosts>>

\* ... and then frees the slot.  After CS_LOGOUT the handler goes on.
Free(j) ==
  /\ job[j] \in {"free", "outfree"}
  /\ state' = [state EXCEPT ![SlotOf(j)] = "free"]
  /\ job'   = [job EXCEPT ![j] = IF job[j] = "free" THEN "none" ELSE "again"]
  /\ UNCHANGED <<sock, conn, peer, key, acc, next, past>>

Sent(j) ==
  /\ job[j] = "sent"
  /\ job' = [job EXCEPT ![j] = "none"]
  /\ UNCHANGED <<slots, conn, peer, key, acc, next, past>>

\* process_packet: CS_LOGIN first ...
RecvLogin(j) ==
  /\ job[j] = "login"
  /\ job' = [job EXCEPT ![j] = "mark"]
  /\ UNCHANGED <<slots, conn, peer, key, acc, next, past>>

\* ... whose last step marks the slot, whatever became of it meanwhile ...
LoginMark(j) ==
  /\ job[j] = "mark"
  /\ state'  = [state EXCEPT ![SlotOf(j)] = "ingame"]
  /\ ghosts' = IF state[SlotOf(j)] = "free" THEN ghosts \cup {SlotOf(j)} ELSE ghosts
  /\ job'    = [job EXCEPT ![j] = "again"]
  /\ UNCHANGED <<sock, conn, peer, key, acc, next, late, shut>>

\* ... then packets that leave the session as it is ...
RecvOther(j) ==
  /\ job[j] = "data"
  /\ job' = [job EXCEPT ![j] = "again"]
  /\ UNCHANGED <<slots, conn, peer, key, acc, next, past>>

\* ... and CS_LOGOUT: disconnect inside the handler.
RecvLogout(j) ==
  /\ job[j] = "logout"
  /\ closesocket(j)
  /\ job' = [job EXCEPT ![j] = "outfree"]
  /\ UNCHANGED <<slots, peer, key, acc, next, late, ghosts>>

\* Mutation of Again: only a handler that did not log out receives again, and
\* none does after a packet.
AgainNot(j) ==
  /\ job[j] = "again"
  /\ job' = [job EXCEPT ![j] = "none"]
  /\ UNCHANGED <<slots, conn, peer, key, acc, next, past>>

\* The end of OP_RECV: do_recv on the slot, after a logout too.
Again(j) ==
  /\ job[j] = "again"
  /\ do_recv(j, SlotOf(j))
  /\ UNCHANGED <<slots, conn, peer, key, acc, next, past>>

-----------------------------------------------------------------------------
\* main: the first g_c_socket and the first AcceptEx.  The slots above the
\* first few may be held by users who stay in the game all the time.
Init ==
  /\ \E m \in Slots : state = [s \in Slots |-> IF s <= m THEN "free" ELSE "ingame"]
  /\ sock = [s \in Slots |-> None]
  /\ next = 1
  /\ conn = [c \in Conns |-> IF c = next THEN "fresh" ELSE "unused"]
  /\ peer = [c \in Conns |-> "none"] /\ key = [c \in Conns |-> 0]
  /\ job  = [j \in Jobs |-> "none"]
  /\ acc  = Acc("posted", 0)
  /\ late = {} /\ ghosts = {} /\ shut = {}

Accept    == AcceptTake \/ AcceptMark \/ AcceptWire
Handle(j) == \/ Fail(j) \/ Free(j) \/ Sent(j) \/ RecvLogin(j) \/ LoginMark(j)
             \/ RecvOther(j) \/ RecvLogout(j) \/ Again(j)

Next == \/ Arrive \/ ArriveBadly \/ Accept
        \/ \E c \in Conns : Leave(c)
        \/ \E s \in Slots : do_send(s)
        \/ \E j \in Jobs : Complete(j) \/ CompleteBadly(j) \/ Handle(j)

\* Failed operations complete and workers take every completion; clients need
\* not talk.
Fairness ==
  /\ WF_vars(Accept)
  /\ \A j \in Jobs : WF_vars(Handle(j)) /\ WF_vars(CompleteBadly(j))

Spec     == Init /\ [][Next]_vars
FairSpec == Spec /\ Fairness

-----------------------------------------------------------------------------
Handling == {"free", "outfree", "mark", "again"}

\* Types of the variables.
TypeOK ==
  /\ state \in [Slots -> {"free", "alloc", "ingame"}]
  /\ sock \in [Slots -> Conns \cup {None}]
  /\ conn \in [Conns -> {"unused", "fresh", "open", "closed"}]
  /\ peer \in [Conns -> {"none", "new", "in", "bye", "gone"}]
  /\ key \in [Conns -> 0..N]
  /\ job \in [Jobs -> {"none", "pending", "bad", "sent", "login", "data", "logout"} \cup Handling]
  /\ acc \in [pc : {"posted", "ok", "bad", "mark", "wire", "refused", "bound"}, slot : 0..N]
  /\ next \in Conns
  /\ late \subseteq Slots /\ ghosts \subseteq Slots /\ shut \subseteq Conns

\* The slot is not in the middle of an accept or of a handler.
AtRest(s) == acc.slot # s /\ \A j \in Jobs : key[j[1]] = s => job[j] \notin Handling

\* A slot in use has a connection with one receive on it, so that the next
\* packet or the end of the connection is noticed; a free slot's connection is
\* closed.  So it is unless the slot was taken too early, was marked after its
\* session had gone, or was given a failed accept.
Heard ==
  \A s \in Slots \ (late \cup ghosts) : AtRest(s) /\ sock[s] # None /\ conn[sock[s]] # "fresh" =>
    IF state[s] = "free" THEN conn[sock[s]] = "closed"
    ELSE conn[sock[s]] = "open" /\ Cardinality(Receives(sock[s])) = 1

\* A connection is closed by its own jobs only, unless its slot was taken while
\* jobs of the session before were still to come.
NoStranger == \A c \in shut : key[c] \in late

\* A client that vanishes has its socket closed in the end and its slot freed
\* (somebody else may have it by then), unless the slot was reused early or marked late.
LeaverGoes ==
  \A c \in Conns : peer[c] = "gone" /\ key[c] # 0 ~>
    \/ conn[c] = "closed" /\ (state[key[c]] = "free" \/ sock[key[c]] # c)
    \/ key[c] \in late \cup ghosts
=============================================================================
