------------------------------ MODULE BoardGame ------------------------------
(***************************************************************************)
(* The first lesson: pieces on one board (GameServerProgramming/Server and *)
(* GameServerProgramming/GameServerProgramming).  The server is one thread *)
(* whose completion routines run between two accepts; it answers a key     *)
(* with the sender's place to everyone, and E_CONNECT with the places of   *)
(* those who came before.  A client posts a WSARecv in every turn of its   *)
(* loop, all of them into the one packet pp, and lets their completion     *)
(* routines run in SleepEx: what two of them have received is read twice   *)
(* in the second's version.                                                *)
(*                                                                         *)
(* The board is one row of it.  TCP keeps whole packets: both sizes are    *)
(* fixed and the buffers hold one.                                         *)
(***************************************************************************)
EXTENDS Integers, Sequences, FiniteSets, SequencesExt

CONSTANTS
  N,            \* bound: clients that connect
  Board_X,      \* cells of the row
  MaxKeys,      \* bound: keys that are pressed
  MaxPosted     \* bound: WSARecvs of a client that complete between two SleepEx

ASSUME BoardAssumption == {N, Board_X, MaxKeys, MaxPosted} \subseteq Nat \ {0}

SessionIds == 0 .. N - 1
Cells      == 0 .. Board_X - 1

VARIABLES
  \* the server
  clients,      \* the ids of the sessions
  client_pos,   \* [SessionIds -> Cells]
  cnt,          \* [SessionIds -> BOOLEAN]: pp.cnt of the session is -1
  hung,         \* print_error does not return
  \* the network
  up, down,     \* [SessionIds -> sequence of packets] to and from the server
  \* the clients
  pc,           \* [SessionIds -> stage of main]
  kp_type,      \* [SessionIds -> type of the packet sent last]
  pp,           \* [SessionIds -> the packet received last]
  apcs,         \* [SessionIds -> 0 .. MaxPosted]: completion routines that are due
  login,        \* the clients that have taken an id
  players,      \* [SessionIds -> sequence of [id, x]]
  \* history
  keys,         \* keys pressed so far
  joined,       \* the ids whose E_LOGIN the server has handled
  crossed,      \* the clients that were sent a place before that, or lost theirs
  missed        \* [SessionIds -> ids of which the last packet was lost or passed over]

serverVars == <<clients, client_pos, cnt, hung, joined>>
clientVars == <<pc, kp_type, players, login>>
recvVars   == <<pp, apcs>>
boardVars == <<serverVars, clientVars, recvVars, up, down, keys, crossed, missed>>

\* POS_Packet: whose, where, whether the key was ESCAPE, whether cnt is -1.
Packet(i, x, esc, last) == [id |-> i, x |-> x, esc |-> esc, last |-> last]
Player(i, x) == [id |-> i, x |-> x]
Start == 1                                  \* client_pos[id] = { 1,1 }

BoardInit ==
  /\ clients = {} /\ client_pos = [i \in SessionIds |-> Start] /\ cnt = [i \in SessionIds |-> FALSE] /\ hung = FALSE
  /\ up = [i \in SessionIds |-> <<>>] /\ down = [i \in SessionIds |-> <<>>]
  /\ pc = [i \in SessionIds |-> "off"] /\ kp_type = [i \in SessionIds |-> "login"]
  /\ pp = [i \in SessionIds |-> Packet(0, 0, FALSE, FALSE)]
  /\ apcs = [i \in SessionIds |-> 0]
  /\ login = {} /\ players = [i \in SessionIds |-> <<>>]
  /\ keys = 0 /\ joined = {} /\ crossed = {} /\ missed = [i \in SessionIds |-> {}]

-----------------------------------------------------------------------------
(* The server.                                                             *)

\* WSAAccept; the client's E_LOGIN follows the connection.
Accept(i) ==
  /\ ~hung /\ pc[i] = "off" /\ \A j \in 0 .. i - 1 : pc[j] # "off"
  /\ clients' = clients \cup {i}
  /\ pc' = [pc EXCEPT ![i] = "login"]
  /\ up' = [up EXCEPT ![i] = <<[type |-> "login", step |-> 0]>>]
  /\ UNCHANGED <<client_pos, cnt, hung, joined, kp_type, players, login, recvVars, down, keys, crossed, missed>>

\* do_send of what Keydown_command has sent to i alone, then of i's place to all.
Broadcast(i, alone, x, esc, last) ==
  /\ down' = [j \in SessionIds |->
       IF j \notin clients \/ pc[j] = "gone" THEN down[j]
       ELSE down[j] \o (IF j = i THEN alone ELSE <<>>) \o <<Packet(i, x, esc, last[j])>>]
  /\ crossed' = crossed \cup {j \in clients \ {i} : j \notin joined}

\* recv_callback, with the packet that was read.
Handle(i, k) ==
  /\ ~hung /\ i \in clients /\ up[i] # <<>> /\ k = Head(up[i])
  /\ up' = [up EXCEPT ![i] = Tail(@)]
  /\ UNCHANGED <<hung, clientVars, recvVars, keys, missed>>

\* Mutation: those who came before are introduced at the login already.
HandleLoginAll(i) ==
  \E k \in {[type |-> "login", step |-> 0]} :
    /\ Handle(i, k)
    /\ Broadcast(i, SetToSeq({Packet(j, client_pos[j], FALSE, FALSE) : j \in {m \in clients : m < i}}),
                 client_pos[i], FALSE, cnt)
    /\ joined' = joined \cup {i}
    /\ UNCHANGED <<clients, client_pos, cnt>>

HandleLogin(i) ==
  \E k \in {[type |-> "login", step |-> 0]} :
    /\ Handle(i, k)
    /\ Broadcast(i, <<>>, client_pos[i], FALSE, cnt)
    /\ joined' = joined \cup {i}
    /\ UNCHANGED <<clients, client_pos, cnt>>

\* The places of those who came before, the latest first; cnt = -1 comes with
\* the sender's own.
Before(i) ==
  LET there == {j \in clients : j < i} IN
  [n \in 1 .. Cardinality(there) |->
     LET j == CHOOSE j \in there : Cardinality({m \in there : m >= j}) = n
     IN  Packet(j, client_pos[j], FALSE, cnt[i])]

\* Mutation: cnt is set only where the first client of all is found.
HandleConnectFound(i) ==
  \E k \in {[type |-> "connect", step |-> 0]} :
    /\ Handle(i, k)
    /\ cnt' = [cnt EXCEPT ![i] = 0 \in clients]
    /\ Broadcast(i, Before(i), client_pos[i], FALSE, cnt')
    /\ UNCHANGED <<clients, client_pos, joined>>

HandleConnect(i) ==
  \E k \in {[type |-> "connect", step |-> 0]} :
    /\ Handle(i, k)
    /\ cnt' = [cnt EXCEPT ![i] = TRUE]
    /\ Broadcast(i, Before(i), client_pos[i], FALSE, cnt')
    /\ UNCHANGED <<clients, client_pos, joined>>

\* A key moves the piece by one cell, or not at all.
HandleMove(i) ==
  \E step \in {-1, 1} :
    /\ Handle(i, [type |-> "online", step |-> step])
    /\ client_pos' = [client_pos EXCEPT ![i] = IF @ + step \in Cells THEN @ + step ELSE @]
    /\ Broadcast(i, <<>>, client_pos'[i], FALSE, cnt)
    /\ UNCHANGED <<clients, cnt, joined>>

\* ESCAPE: the packet goes out before the session is erased.
HandleEscape(i) ==
  \E k \in {[type |-> "escape", step |-> 0]} :
    /\ Handle(i, k)
    /\ Broadcast(i, <<>>, client_pos[i], TRUE, cnt)
    /\ clients' = clients \ {i}
    /\ UNCHANGED <<client_pos, cnt, joined>>

-----------------------------------------------------------------------------
(* recv_callback of the client, on the packet p: the players it leaves.    *)

Has(s, i)      == \E n \in DOMAIN s : s[n].id = i
Places(s, i)   == {s[n].x : n \in {m \in DOMAIN s : s[m].id = i}}
Without(s, i)  ==
  LET n == CHOOSE n \in DOMAIN s : s[n].id = i /\ \A m \in DOMAIN s : s[m].id = i => n <= m
  IN  RemoveAt(s, n)
Moved(s, p)    == [n \in DOMAIN s |-> IF s[n].id = p.id THEN Player(p.id, p.x) ELSE s[n]]

\* Mutation: the piece that is erased is the first of the vector.
recv_callbackFirst(s, type, p) ==
  CASE ~Has(s, p.id)                     -> Append(s, Player(p.id, p.x))
    [] Has(s, p.id) /\ type = "connect"  -> s
    [] Has(s, p.id) /\ type # "connect" /\ p.esc -> Tail(s)
    [] OTHER                             -> Moved(s, p)

\* Until the first key has been sent, kp.type is E_CONNECT and who is there
\* already is passed over; and a leaver who is not there is added.
recv_callback(s, type, p) ==
  CASE ~Has(s, p.id)                     -> Append(s, Player(p.id, p.x))
    [] Has(s, p.id) /\ type = "connect"  -> s
    [] Has(s, p.id) /\ type # "connect" /\ p.esc -> Without(s, p.id)
    [] OTHER                             -> Moved(s, p)

\* The routines that are due all read the same pp.
Callbacks(s, type, p, n) ==
  LET step[m \in 0 .. n] == IF m = 0 THEN s ELSE recv_callback(step[m - 1], type, p)
  IN  step[n]

\* The list shows what p says.
Agrees(s, p) == Places(s, p.id) = (IF p.esc THEN {} ELSE {p.x})

-----------------------------------------------------------------------------
(* The client.                                                             *)

Running(i) == pc[i] \in {"login", "connect", "online", "leaving"}

\* A packet completes a WSARecv: pp changes whether or not the last was read.
\* Recv posts one in every turn, also where SleepEx has waited in vain: there
\* are always enough.
Arrive(i) ==
  /\ Running(i) /\ down[i] # <<>> /\ apcs[i] < MaxPosted
  /\ pp'   = [pp EXCEPT ![i] = Head(down[i])]
  /\ apcs' = [apcs EXCEPT ![i] = @ + 1]
  /\ down' = [down EXCEPT ![i] = Tail(@)]
  /\ missed'  = IF apcs[i] > 0 THEN [missed EXCEPT ![i] = @ \cup {pp[i].id}] ELSE missed
  /\ crossed' = IF apcs[i] > 0 /\ i \notin login THEN crossed \cup {i} ELSE crossed
  /\ UNCHANGED <<serverVars, clientVars, up, keys>>

\* SleepEx.  The first routine of all takes the packet for its own.
SleepEx(i) ==
  /\ Running(i) /\ apcs[i] > 0
  /\ LET p == pp[i]
         s == IF i \in login THEN Callbacks(players[i], kp_type[i], p, apcs[i])
              ELSE Callbacks(<<Player(p.id, p.x)>>, kp_type[i], p, apcs[i] - 1)
     IN  /\ players' = [players EXCEPT ![i] = s]
         /\ missed' = [missed EXCEPT ![i] = IF Agrees(s, p) THEN @ \ {p.id} ELSE @ \cup {p.id}]
  /\ login'  = login \cup {i}
  /\ apcs'   = [apcs EXCEPT ![i] = 0]
  /\ UNCHANGED <<serverVars, pc, kp_type, pp, up, down, keys, crossed>>

Send(i, type, step) ==
  /\ up' = [up EXCEPT ![i] = Append(@, [type |-> type, step |-> step])]
  /\ kp_type' = [kp_type EXCEPT ![i] = IF type = "connect" THEN "connect" ELSE "online"]

\* The end of while (!login).
SendConnect(i) ==
  /\ pc[i] = "login" /\ i \in login
  /\ Send(i, "connect", 0)
  /\ pc' = [pc EXCEPT ![i] = "connect"]
  /\ UNCHANGED <<serverVars, players, login, recvVars, down, keys, crossed, missed>>

\* The end of while (pp.cnt != -1): kp keeps its type until a key is sent.
Online(i) ==
  /\ pc[i] = "connect" /\ pp[i].last
  /\ pc' = [pc EXCEPT ![i] = "online"]
  /\ UNCHANGED <<serverVars, kp_type, players, login, recvVars, up, down, keys, crossed, missed>>

\* A key but ESCAPE; one that moves nothing is like a step over the edge.
Press(i) ==
  /\ pc[i] = "online" /\ keys < MaxKeys
  /\ keys' = keys + 1
  /\ \E step \in {-1, 1} : Send(i, "online", step)
  /\ UNCHANGED <<serverVars, pc, players, login, recvVars, down, crossed, missed>>

Escape(i) ==
  /\ pc[i] = "online" /\ keys < MaxKeys
  /\ keys' = keys + 1
  /\ Send(i, "escape", 0)
  /\ pc' = [pc EXCEPT ![i] = "leaving"]
  /\ UNCHANGED <<serverVars, players, login, recvVars, down, crossed, missed>>

\* Close_Socket.  With packets unread it is a reset: a key the server has not
\* read by then is lost, its WSARecv fails and print_error loops for ever.
Leave(i) ==
  /\ pc[i] = "leaving"
  /\ pc' = [pc EXCEPT ![i] = "gone"]
  /\ down' = [down EXCEPT ![i] = <<>>]
  /\ up' = [up EXCEPT ![i] = IF down[i] = <<>> THEN @ ELSE <<>>]
  /\ hung' = (hung \/ (down[i] # <<>> /\ i \in clients))
  /\ UNCHANGED <<clients, client_pos, cnt, joined, kp_type, players, login, recvVars, keys, crossed, missed>>

-----------------------------------------------------------------------------
Server(i) == HandleLogin(i) \/ HandleConnect(i) \/ HandleMove(i) \/ HandleEscape(i)
Turn(i)   == SleepEx(i) \/ SendConnect(i) \/ Online(i)

BoardNext == \E i \in SessionIds :
  \/ Accept(i) \/ Server(i)
  \/ Arrive(i) \/ Turn(i) \/ Press(i) \/ Escape(i) \/ Leave(i)

BoardSpec == BoardInit /\ [][BoardNext]_boardVars

-----------------------------------------------------------------------------
\* The piece Board::Update draws as the client's own, and reads without asking
\* whether there is one, is its own: unless somebody else's place was sent to it
\* before its own, or two packets came into pp before it was read.
OwnPiece ==
  \A i \in SessionIds :
    pc[i] \in {"connect", "online"} /\ i \notin crossed => players[i] # <<>> /\ players[i][1].id = i

\* With nothing on its way, a client's board shows everyone the server has, once
\* and in the right cell, and nobody else: but for those whose last packet was
\* overwritten in pp, passed over before the first key or an unknown leaver's.
ShowsAll ==
  \A i \in SessionIds :
    pc[i] = "online" /\ down[i] = <<>> /\ apcs[i] = 0
    => \A j \in joined \ missed[i] :
         /\ Places(players[i], j) = (IF j \in clients THEN {client_pos[j]} ELSE {})
         /\ Cardinality({n \in DOMAIN players[i] : players[i][n].id = j}) <= 1

\* Nobody waits in vain: with nothing on its way to or from a client, either
\* loop of main that it is in has what it waits for.  Not so when the server hangs.
NobodyWaits ==
  \A i \in SessionIds :
    ~hung /\ up[i] = <<>> /\ down[i] = <<>> /\ apcs[i] = 0
    => (pc[i] = "login" => i \in login) /\ (pc[i] = "connect" => pp[i].last)
=============================================================================
