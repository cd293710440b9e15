----------------------------- MODULE StressTest -----------------------------
(***************************************************************************)
(* The stress test of the game (STRESS_TEST/NetworkModule.cpp): one test   *)
(* thread that connects clients, sheds them when the server answers too    *)
(* slowly and sends their moves, and Workers completion threads that read  *)
(* what the server sends.  They share connected, active_clients,           *)
(* client_map and global_delay, with a compare-and-swap for the first, an  *)
(* atomic counter for the second and nothing at all for the others.        *)
(*                                                                         *)
(* Left out: where the clients stand (Test_Thread sends a move or a        *)
(* teleport, one packet either way) and the clock (a return because it is  *)
(* too early is a step that changes nothing, and delay_multiplier only     *)
(* makes more of them).  A completion carries whole packets; the bytes are *)
(* in PacketAssembler.                                                     *)
(***************************************************************************)
EXTENDS Integers, FiniteSets, FiniteSetsExt

CONSTANTS
  Workers,       \* the six worker threads
  Ids,           \* object ids of the server
  MAX_CLIENTS,   \* places in g_clients
  MAX_TEST,      \* clients wanted, and places in point_cloud / 2
  MIN_ACTIVE,    \* no client is shed below this number (100)
  DELAY_LIMIT, DELAY_LIMIT2,
  MAXINT,        \* max_limit before the first overload
  Delays,        \* the delays a move may show
  MaxSends,      \* bound: WSASends that are pending at a time
  MaxDrops       \* bound: sessions the server has ended and the client not yet noticed

ASSUME SizesAssumption ==
  /\ {MAX_CLIENTS, MAX_TEST, MIN_ACTIVE, MAXINT, MaxSends, MaxDrops} \subseteq Nat \ {0}
  /\ {DELAY_LIMIT, DELAY_LIMIT2} \cup Delays \subseteq Nat
  /\ IsFiniteSet(Workers) /\ IsFiniteSet(Delays) /\ Delays # {}

Clients == 0 .. MAX_CLIENTS - 1
Test == "test"                              \* the test thread
NoOne == -1

ASSUME IdsAssumption == NoOne \notin Ids

VARIABLES
  connected,        \* [Clients -> BOOLEAN]
  active,           \* active_clients
  client_map,       \* [Ids -> Clients or NoOne]
  global_delay,
  num_connections, client_to_close,
  max_limit, increasing,
  sock,             \* [Clients -> "none", "open", "reset" by the server or "closed"]
  posted,           \* [Clients -> BOOLEAN]: a WSARecv is pending
  sends,            \* the WSASends pending: <<client, "own">>, or "lost" for a socket
                    \* the client no longer has
  given,            \* [Clients -> id in the login answer, or NoOne]
  told,             \* the clients whose login answer has been read
  thread,           \* [Workers and Test -> what it is doing]
  flight,           \* history: the most logins whose answer was unread when a client was made
  late              \* history: clients who got an id whose last answer was still unread

network == <<sock, posted, sends>>
limits  == <<num_connections, client_to_close, max_limit, increasing, flight>>
server  == <<given, late>>
vars == <<connected, active, client_map, global_delay, limits, network, server, told, thread>>

Job(pc, c) == [pc |-> pc, c |-> c]
Idle == Job("idle", NoOne)
Goto(t, job) == thread' = [thread EXCEPT ![t] = job]
AtStep(pc) == {t \in DOMAIN thread : thread[t].pc = pc}

Points  == {c \in Clients : c < num_connections /\ connected[c]}
\* Made but not yet in active_clients.
Pending == {c \in Clients : sock[c] # "none" /\ c \notin told} \cup {thread[t].c : t \in AtStep("count")}

Init ==
  /\ connected = [c \in Clients |-> FALSE] /\ active = 0
  /\ client_map = [i \in Ids |-> NoOne] /\ global_delay = 0
  /\ num_connections = 0 /\ client_to_close = 0
  /\ max_limit = MAXINT /\ increasing = TRUE
  /\ sock = [c \in Clients |-> "none"] /\ posted = [c \in Clients |-> FALSE]
  /\ sends = {}
  /\ given = [c \in Clients |-> NoOne] /\ told = {}
  /\ thread = [t \in Workers \cup {Test} |-> Idle]
  /\ flight = 0 /\ late = {}

-----------------------------------------------------------------------------
(* The server.                                                             *)

\* It answers a login with an id no open session has.
Grant(c) ==
  /\ sock[c] = "open" /\ given[c] = NoOne
  /\ \E i \in Ids :
       /\ ~ \E d \in Clients : given[d] = i /\ sock[d] = "open"
       /\ given' = [given EXCEPT ![c] = i]
       /\ late' = late \cup {x \in {c} : \E d \in Clients :
                     given[d] = i /\ (d \notin told \/ \E t \in AtStep("count") : thread[t].c = d)}
  /\ UNCHANGED <<connected, active, client_map, global_delay, limits, network, told, thread>>

\* It ends a session; what it has sent before may still be read.
Drop(c) ==
  /\ sock[c] = "open"
  /\ Cardinality({d \in Clients : sock[d] = "reset" /\ (posted[d] \/ connected[d])}) < MaxDrops
  /\ sock' = [sock EXCEPT ![c] = "reset"]
  /\ UNCHANGED <<connected, active, client_map, global_delay, limits, posted, sends, server, told, thread>>

-----------------------------------------------------------------------------
(* DisconnectClient: the compare-and-swap, then closesocket and the count. *)

\* Mutation: without the compare-and-swap.
DisconnectAlways(t, c) ==
  /\ connected' = [connected EXCEPT ![c] = FALSE]
  /\ Goto(t, Job("close", c))

DisconnectClient(t, c) ==
  /\ connected' = [connected EXCEPT ![c] = FALSE]
  /\ Goto(t, IF connected[c] THEN Job("close", c) ELSE Idle)

Close(t) ==
  LET c == thread[t].c IN
  /\ thread[t].pc = "close"
  /\ sock' = [sock EXCEPT ![c] = "closed"]
  /\ active' = active - 1
  /\ Goto(t, Idle)
  /\ UNCHANGED <<connected, client_map, global_delay, limits, posted, sends, server, told>>

-----------------------------------------------------------------------------
(* Adjust_Number_Of_Client                                                 *)

\* Mutation: one too many.
RoomForOne == active <= MAX_TEST /\ num_connections < MAX_CLIENTS

Room == active < MAX_TEST /\ num_connections < MAX_CLIENTS

\* The server is too slow: remember how many it could not bear, shed the next.
Overload ==
  /\ thread[Test] = Idle /\ Room /\ DELAY_LIMIT2 < global_delay
  /\ max_limit' = IF increasing THEN active ELSE max_limit
  /\ increasing' = FALSE
  /\ IF MIN_ACTIVE > active
     THEN UNCHANGED <<connected, client_to_close, thread>>
     ELSE /\ client_to_close < MAX_CLIENTS
          /\ client_to_close' = client_to_close + 1
          /\ DisconnectClient(Test, client_to_close)
  /\ UNCHANGED <<active, client_map, global_delay, num_connections, flight, network, server, told>>

Bearable == DELAY_LIMIT2 >= global_delay /\ DELAY_LIMIT >= global_delay
BelowLimit == max_limit - (max_limit \div 20) >= active

MayConnect == thread[Test] = Idle /\ Room /\ Bearable /\ BelowLimit

SendPacket(c, socket) ==
  /\ Cardinality(sends) < MaxSends /\ <<c, socket>> \notin sends
  /\ sends' = sends \cup {<<c, socket>>}

\* WSAConnect, the login and the first WSARecv.
Connect ==
  LET n == num_connections IN
  /\ MayConnect
  /\ increasing' = TRUE
  /\ \/ /\ sock' = [sock EXCEPT ![n] = "open"] /\ posted' = [posted EXCEPT ![n] = TRUE]
        /\ SendPacket(n, "own")
        /\ num_connections' = n + 1
        /\ flight' = Max({flight, Cardinality(Pending)})
     \/ \* fail_to_connect: the next client takes the same place; the login is on its way
        /\ SendPacket(n, "lost")
        /\ UNCHANGED <<sock, posted, num_connections, flight>>
     \/ \* WSAConnect has failed, and all that follows with it
        UNCHANGED <<network, num_connections, flight>>
  /\ UNCHANGED <<connected, active, client_map, global_delay, client_to_close, max_limit, server, told, thread>>

\* The loop of Test_Thread at client c.
TestMove(c) ==
  /\ thread[Test] = Idle /\ c < num_connections
  /\ connected[c] /\ sock[c] # "closed"        \* else WSASend fails
  /\ SendPacket(c, "own")
  /\ UNCHANGED <<connected, active, client_map, global_delay, limits, sock, posted, server, told, thread>>

-----------------------------------------------------------------------------
(* Worker_Thread                                                           *)

\* A WSASend is complete, in full or not.
SendDone(w, c) ==
  /\ thread[w] = Idle
  /\ \E socket \in {"own", "lost"} :
       /\ <<c, socket>> \in sends
       /\ sends' = sends \ {<<c, socket>>}
       /\ \/ (socket = "lost" \/ sock[c] # "closed") /\ UNCHANGED <<connected, thread>>
          \/ (socket = "lost" \/ sock[c] # "open") /\ DisconnectClient(w, c)
  /\ UNCHANGED <<active, client_map, global_delay, limits, sock, posted, server, told>>

\* A WSARecv has failed, or read 0 bytes.
RecvEnds(w, c) ==
  /\ thread[w] = Idle /\ posted[c] /\ sock[c] \in {"reset", "closed"}
  /\ posted' = [posted EXCEPT ![c] = FALSE]
  /\ DisconnectClient(w, c)
  /\ UNCHANGED <<active, client_map, global_delay, limits, sock, sends, server, told>>

RecvData(w, c) ==
  /\ thread[w] = Idle /\ posted[c] /\ sock[c] \in {"open", "reset"} /\ given[c] # NoOne
  /\ posted' = [posted EXCEPT ![c] = FALSE]
  /\ Goto(w, Job("loop", c))
  /\ UNCHANGED <<connected, active, client_map, global_delay, limits, sock, sends, server, told>>

\* Mutation: a WSARecv that fails is left at that.
RearmDeaf(w) ==
  LET c == thread[w].c IN
  /\ thread[w].pc = "loop" /\ c \in told
  /\ \/ sock[c] # "closed" /\ posted' = [posted EXCEPT ![c] = TRUE]
     \/ sock[c] # "open" /\ UNCHANGED posted
  /\ Goto(w, Idle) /\ UNCHANGED connected
  /\ UNCHANGED <<active, client_map, global_delay, limits, sock, sends, server, told>>

\* After the last packet: the next WSARecv.
Rearm(w) ==
  LET c == thread[w].c IN
  /\ thread[w].pc = "loop" /\ c \in told
  /\ \/ /\ sock[c] # "closed"
        /\ posted' = [posted EXCEPT ![c] = TRUE] /\ Goto(w, Idle) /\ UNCHANGED connected
     \/ sock[c] # "open" /\ DisconnectClient(w, c) /\ UNCHANGED posted
  /\ UNCHANGED <<active, client_map, global_delay, limits, sock, sends, server, told>>

-----------------------------------------------------------------------------
(* ProcessPacket                                                           *)

\* SC_LOGIN_INFO
LoginInfo(w) ==
  LET c == thread[w].c IN
  /\ thread[w].pc = "loop" /\ c \notin told
  /\ told' = told \cup {c}
  /\ connected' = [connected EXCEPT ![c] = TRUE]
  /\ Goto(w, Job("count", c))
  /\ UNCHANGED <<active, client_map, global_delay, limits, network, server>>

\* Mutation: the first come keeps the id.
LoginCountFirst(w) ==
  LET c == thread[w].c IN
  /\ thread[w].pc = "count"
  /\ active' = active + 1
  /\ client_map' = [client_map EXCEPT ![given[c]] = IF @ = NoOne THEN c ELSE @]
  /\ Goto(w, Job("loop", c))
  /\ UNCHANGED <<connected, global_delay, limits, network, server, told>>

LoginCount(w) ==
  LET c == thread[w].c IN
  /\ thread[w].pc = "count"
  /\ active' = active + 1
  /\ client_map' = [client_map EXCEPT ![given[c]] = c]
  /\ Goto(w, Job("loop", c))
  /\ UNCHANGED <<connected, global_delay, limits, network, server, told>>

\* SC_MOVE_OBJECT of the client itself, with a move_time: the delay is compared
\* here and stepped towards what was measured in DelayStep.  That of any other
\* object, or without a move_time, only moves a point.
MoveObject(w) ==
  LET c == thread[w].c IN
  /\ thread[w].pc = "loop" /\ c \in told /\ client_map[given[c]] = c
  /\ \E d \in Delays :
       /\ d # global_delay
       /\ Goto(w, Job(IF global_delay < d THEN "later" ELSE "sooner", c))
  /\ UNCHANGED <<connected, active, client_map, global_delay, limits, network, server, told>>

DelayStep(w) ==
  /\ thread[w].pc \in {"later", "sooner"}
  /\ global_delay' = IF thread[w].pc = "later" THEN global_delay + 1 ELSE global_delay - 1
  /\ Goto(w, Job("loop", thread[w].c))
  /\ UNCHANGED <<connected, active, client_map, limits, network, server, told>>

ProcessPacket(w) == LoginInfo(w) \/ LoginCount(w) \/ MoveObject(w) \/ DelayStep(w)

-----------------------------------------------------------------------------
Environment == \E c \in Clients : Grant(c) \/ Drop(c)

Next ==
  \/ Environment
  \/ Overload \/ Connect \/ Close(Test)
  \/ \E c \in Clients : TestMove(c)
  \/ \E w \in Workers :
       \/ ProcessPacket(w) \/ Rearm(w) \/ Close(w)
       \/ \E c \in Clients : SendDone(w, c) \/ RecvEnds(w, c) \/ RecvData(w, c)

Spec == Init /\ [][Next]_vars

-----------------------------------------------------------------------------
\* DisconnectClient may be called for one client by the test thread and by the
\* workers of its sends and of its receive at once, even before its login is
\* counted: the count is off by exactly the changes that are still to come.
CountExact ==
  active = Cardinality({c \in Clients : connected[c]})
           - Cardinality(AtStep("count")) + Cardinality(AtStep("close"))

\* GetPointCloud writes a point for every connected client into an array of
\* MAX_TEST, and the test thread stops at MAX_TEST clients it knows to be
\* connected: too many points need logins that were unanswered when another
\* client was made, and there are never more of them than that.
PointsFit == Cardinality(Points) <= MAX_TEST + flight

\* A connected client is listened to, or a worker has its last completion in
\* hand, or its socket is being closed.
Heard ==
  \A c \in Clients :
    connected[c] => posted[c] \/ \E w \in Workers : thread[w].c = c /\ thread[w].pc # "close"

\* client_map leads from an id to the client that has it now, also when the
\* server gives the id of a session it has ended to the next client; but not when
\* the answer to the former was still unread by then.
MapRight ==
  \A c \in Clients :
    connected[c] /\ sock[c] = "open" /\ c \notin late /\ (\A t \in AtStep("count") : thread[t].c # c)
    => client_map[given[c]] = c
=============================================================================
