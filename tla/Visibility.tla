----------------------------- MODULE Visibility -----------------------------
(***************************************************************************)
(* View lists on the server and object tables on the clients: the scans of *)
(* CS_LOGIN, CS_MOVE, CS_TELEPORT, CS_ATTACK, disconnect, OP_REGEN and the *)
(* fatal branch of API_ChangeStat (multi_iocp_server.cpp), do_random_move, *)
(* do_way_move and the send_* functions (SESSION.cpp), and what            *)
(* ProcessPacket (client.cpp) does with the packets.                       *)
(*                                                                         *)
(* A handler writes a position, copies a list, scans the sectors and then  *)
(* sends packets one by one.  Sending ADD or REMOVE changes the receiver's *)
(* view_list under its mutex first and hands the packet to its socket      *)
(* afterwards, so the packets of two workers may reach a client in another *)
(* order than they changed its list in.  A client's table is shown as it   *)
(* is once everything sent so far has arrived: TCP keeps the order.        *)
(*                                                                         *)
(* Monsters and users are hit alike: CS_ATTACK may kill a user, who is then *)
(* left out of the scans until EV_INVISIBLE comes due.                     *)
(*                                                                         *)
(* The map is a line of cells.  That the 3 x 3 scan finds what is in range *)
(* is SectorRegistry's business; here a scan is one step over the objects  *)
(* that stand in some list.                                                *)
(***************************************************************************)
EXTENDS Integers, Sequences, FiniteSets

CONSTANTS
  Users,     \* session slots
  Npcs,      \* roaming monsters
  Other,     \* a worker besides the ones of the users' packets and the moves
  L,         \* cells 0..L-1
  V,         \* VIEW_RANGE
  Workers,   \* worker threads: handlers that run at the same time
  MaxDeeds   \* bound: handlers begun

Objects == Users \cup Npcs
Threads == Objects \cup {Other}
Cells   == 0..L-1
Spawn   == 0      \* where the dead come back

ASSUME ObjectAssumption == Users \cap Npcs = {} /\ Other \notin Objects
ASSUME SizeAssumption == L \in Nat \ {0} /\ V \in Nat /\ Workers \in Nat \ {0} /\ MaxDeeds \in Nat

VARIABLES
  ingame,      \* users with _state = ST_INGAME
  registered,  \* objects that stand in a sector list
  pos,         \* x, y
  invisible,   \* killed and not back yet
  graves,      \* EV_INVISIBLE events queued, by object
  view_list,   \* of each user
  screen,      \* each client's object table; its own entry is the avatar
  task,        \* what each worker does
  deeds,       \* handlers begun
  used,        \* history: slots that have had a session
  dirty,       \* history: <<user, object>> whose handlers overlapped
  alone        \* history: workers no other one has worked beside

life  == <<invisible, graves>>
world == <<ingame, registered, pos, life>>
past  == <<deeds, used, dirty, alone>>
vars  == <<world, view_list, screen, task, past>>

-----------------------------------------------------------------------------
Dist(i, j) == IF i < j THEN j - i ELSE i - j
can_see(a, b) == Dist(pos[a], pos[b]) <= V

\* The scan of the sectors around o.
InSight(o) == {b \in registered \ {o} : can_see(o, b)}
\* Scans of the handlers that move a user leave the dead out.
Alive(o)   == InSight(o) \ invisible

\* An entry of unordered_map<int, COBJECT>: m_showing and the position.
Entry(h, x) == [how |-> h, x |-> x]
Nothing     == Entry("none", 0)

\* A packet: its type, the user it goes to and the object it is about.
Packet(op, to, of) == [op |-> op, to |-> to, of |-> of]

\* A worker in a handler: the object it is about, the list copied before the
\* scan, the packets of the objects to come, those of the object at hand, and
\* the one whose contents are filled in.
Task(pc, kind, who, old, todo, now) ==
  [pc |-> pc, kind |-> kind, who |-> who, old |-> old, todo |-> todo, now |-> now, out |-> {}]
Idle == Task("idle", "none", Other, {}, {}, <<>>)

\* Whose handlers a new one of t about o overlaps with.
Beside(t)  == {u \in Threads \ {t} : task[u] # Idle}
Pairs(o)   == {<<o, b>> : b \in Objects} \cup {<<b, o>> : b \in Objects}
Met(t, o)  ==
  UNION {IF task[u].who = o THEN Pairs(o) ELSE {<<o, task[u].who>>, <<task[u].who, o>>}
         : u \in Beside(t)}
Begin(t, k) ==
  /\ task[t] = Idle /\ Cardinality(Beside(t)) < Workers /\ deeds < MaxDeeds
  /\ task'  = [task EXCEPT ![t] = k]
  /\ deeds' = deeds + 1
  /\ alone' = IF Beside(t) = {} THEN alone \cup {t} ELSE alone \ (Beside(t) \cup {t})

-----------------------------------------------------------------------------
(* Handlers begin. *)

\* CS_LOGIN: a client with an empty table is told its cell, which comes from
\* the database.  view_list stays as the session before has left it.
Login(u) ==
  /\ u \notin ingame
  /\ \E c \in Cells :
       /\ pos' = [pos EXCEPT ![u] = c]
       /\ screen' = [screen EXCEPT ![u] = [o \in Objects |-> IF o = u THEN Entry("shown", c) ELSE Nothing]]
  /\ registered' = registered \cup {u} /\ ingame' = ingame \cup {u}
  /\ invisible' = invisible \ {u}
  /\ Begin(u, Task("scan", "login", u, {}, {}, <<>>))
  /\ used'  = used \cup {u}
  /\ dirty' = dirty \cup Met(u, u) \cup (IF u \in used THEN Pairs(u) ELSE {})
  /\ UNCHANGED <<graves, view_list>>

\* Mutation of Near: no test of the map's edges.
NearAny(c) == {c - 1, c, c + 1}
\* One step, or none.
Near(c) == {c - 1, c, c + 1} \cap Cells

\* CS_MOVE and CS_TELEPORT write the cell first.
Move(u) ==
  /\ u \in ingame
  /\ \E c \in Cells : pos' = [pos EXCEPT ![u] = c]
  /\ Begin(u, Task("copy", "move", u, {}, {}, <<>>))
  /\ dirty' = dirty \cup Met(u, u)
  /\ UNCHANGED <<ingame, registered, life, view_list, screen, used>>

\* API_ChangeStat, fatal branch, in a worker that runs a script.
Death(u) ==
  /\ u \in ingame
  /\ pos' = [pos EXCEPT ![u] = Spawn]
  /\ Begin(Other, Task("copy", "move", u, {}, {}, <<>>))
  /\ dirty' = dirty \cup Met(Other, u)
  /\ UNCHANGED <<ingame, registered, life, view_list, screen, used>>

\* do_random_move and do_way_move look around before the step.
NpcMove(n) ==
  /\ n \notin invisible
  /\ Begin(n, Task("step", "npc", n, InSight(n), {}, <<>>))
  /\ dirty' = dirty \cup Met(n, n)
  /\ UNCHANGED <<world, view_list, screen, used>>

\* CS_ATTACK takes the last health of some of those in the list who stand one
\* cell away, dead or not: the killer alone is told.
Kill(u) ==
  /\ u \in ingame
  /\ \E K \in SUBSET {o \in view_list[u] : Dist(pos[u], pos[o]) = 1} :
       /\ K # {}
       /\ invisible' = invisible \cup K
       /\ graves' = [o \in Objects |-> graves[o] + IF o \in K THEN 1 ELSE 0]
       /\ Begin(u, Task("build", "kill", u, {}, {<<Packet("remove", u, o)>> : o \in K}, <<>>))
       /\ dirty' = dirty \cup Met(u, u) \cup (UNION {Met(u, o) : o \in K})
                         \cup (UNION {Pairs(o) : o \in K \cap Users})
  /\ UNCHANGED <<ingame, registered, pos, view_list, screen, used>>

\* EV_INVISIBLE with a user in sight posts OP_REGEN; without one it is done.
Regen(o) ==
  /\ graves[o] > 0
  /\ graves' = [graves EXCEPT ![o] = @ - 1]
  /\ invisible' = invisible \ {o}
  /\ IF \E u \in ingame : can_see(o, u)
     THEN /\ Begin(Other, Task("scan", "regen", o, {}, {}, <<>>))
          /\ dirty' = dirty \cup Met(Other, o)
     ELSE /\ deeds < MaxDeeds /\ deeds' = deeds + 1
          /\ UNCHANGED <<task, alone, dirty>>
  /\ UNCHANGED <<ingame, registered, pos, view_list, screen, used>>

\* disconnect tells the users in sight, then itself, then frees the slot.  The
\* slot stays in its sector list.
Disconnect(u) ==
  /\ u \in ingame
  /\ LET near == {v \in ingame \ {u} : can_see(u, v)} IN
     Begin(Other, Task("build", "leave", u, {}, {<<Packet("remove", v, u)>> : v \in near}, <<>>))
  /\ dirty' = dirty \cup Met(Other, u)
  /\ UNCHANGED <<world, view_list, screen, used>>

-----------------------------------------------------------------------------
(* Their steps. *)
Set(t, k) == task' = [task EXCEPT ![t] = k]

Copy(t) ==
  LET k == task[t] IN
  /\ k.pc = "copy"
  /\ Set(t, [k EXCEPT !.pc = "scan", !.old = view_list[k.who]])
  /\ UNCHANGED <<world, view_list, screen, past>>

Step(t) ==
  LET k == task[t] IN
  /\ k.pc = "step"
  /\ \E c \in Near(pos[k.who]) : pos' = [pos EXCEPT ![k.who] = c]
  /\ Set(t, [k EXCEPT !.pc = "scan"])
  /\ UNCHANGED <<ingame, registered, life, view_list, screen, past>>

\* A packet about b to a and one about a to b, if they are users: the send
\* functions of a monster return at once.
Tell(op, a, b) == IF a \in Users THEN <<Packet(op, a, b)>> ELSE <<>>
Pair(op, a, b) == Tell(op, a, b) \o Tell(op, b, a)

\* Mutations: whoever loses sight of o is not told; whoever goes on seeing o
\* is not told the cell.
VanishMine(o, b) == Tell("remove", o, b)
StayUntold(o, b) == <<>>

\* What o's handler sends for an object b that has come into sight, is still
\* there, or is no longer.
Appear(o, b) == Pair("add", o, b)
Stay(o, b)   == Tell("move", b, o)
Vanish(o, b) == Pair("remove", o, b)

\* The objects a scan finds, and the packets it makes the handler send.
Found(kind, o) == IF kind = "move" THEN Alive(o) ELSE InSight(o)
Updates(kind, o, old, new) ==
  CASE kind = "login" -> {Pair("add", b, o) : b \in new}
    [] kind = "regen" -> {Tell("add", b, o) : b \in new}
    [] OTHER -> {Appear(o, b) : b \in new \ old} \cup {Stay(o, b) : b \in new \cap old}
                \cup {Vanish(o, b) : b \in old \ new}

\* After a scan: who moves is told so first.
Spread(k, packets, keep) ==
  LET self == IF k.kind = "move" THEN Tell("move", k.who, k.who) ELSE <<>> IN
  IF packets = {} /\ self = <<>> THEN Idle
  ELSE [k EXCEPT !.pc = "build", !.old = keep, !.todo = packets, !.now = self]

Scan(t) ==
  LET k == task[t]
      packets == Updates(k.kind, k.who, k.old, Found(k.kind, k.who)) \ {<<>>}
  IN  /\ k.pc = "scan"
      /\ Set(t, Spread(k, packets, {}))
      /\ UNCHANGED <<world, view_list, screen, past>>

\* The objects in sight come before those out of it, in the set's own order.
\* disconnect ends with the session itself.
First(k) ==
  LET early == {s \in k.todo : Head(s).op # "remove"} IN
  IF k.now # <<>> THEN {k.now}
  ELSE IF early # {} THEN early
  ELSE IF k.todo # {} THEN k.todo ELSE {Tell("remove", k.who, k.who)}
Last(k) == k.now = <<>> /\ k.todo = {} /\
           (k.kind = "leave" => \E m \in k.out : m.p.to = k.who)

\* Mutation of Listed: send_remove_object_packet leaves the list alone.
ListedKeep(p) ==
  IF p.op = "add" THEN [view_list EXCEPT ![p.to] = @ \cup {p.of}] ELSE view_list

\* What sending does to the receiver's list.
Listed(p) ==
  CASE p.op = "add"    -> [view_list EXCEPT ![p.to] = @ \cup {p.of}]
    [] p.op = "remove" -> [view_list EXCEPT ![p.to] = @ \ {p.of}]
    [] OTHER           -> view_list

\* send_add_object_packet and the others: the list and the packet's contents.
Build(t) ==
  LET k == task[t] IN
  /\ k.pc = "build"
  /\ \E s \in First(k) : LET p == Head(s) IN
       /\ view_list' = Listed(p)
       /\ Set(t, [k EXCEPT !.pc = "send", !.todo = @ \ {s}, !.now = Tail(s),
                           !.out = {[p |-> p, x |-> pos[p.of]]}])
  /\ UNCHANGED <<world, screen, past>>

\* ProcessPacket at the receiver: ADD shows, REMOVE erases, and MOVE of an
\* object the table does not have makes an entry that is not shown.  The
\* avatar is hidden, never erased.
Shown(p, x) ==
  LET e == screen[p.to][p.of] IN
  CASE p.op = "add"    -> Entry("shown", x)
    [] p.op = "move"   -> Entry(IF e.how = "none" THEN "hidden" ELSE e.how, x)
    [] p.op = "remove" -> IF p.of = p.to THEN Entry("hidden", e.x) ELSE Nothing

\* do_send: to a session that is gone nothing is sent.
Deliver(k) ==
  \E m \in k.out :
    screen' = IF m.p.to \in ingame
              THEN [screen EXCEPT ![m.p.to][m.p.of] = Shown(m.p, m.x)] ELSE screen

\* The last packet ends the handler; disconnect then frees the slot.
Send(t) ==
  LET k == task[t] IN
  /\ k.pc = "send"
  /\ Deliver(k)
  /\ Set(t, IF Last(k) THEN Idle ELSE [k EXCEPT !.pc = "build", !.out = {}])
  /\ ingame' = IF Last(k) /\ k.kind = "leave" THEN ingame \ {k.who} ELSE ingame
  /\ UNCHANGED <<registered, pos, life, view_list, past>>

-----------------------------------------------------------------------------
\* Monsters and users stand anywhere; the users who are in the game have
\* logged in one after the other and nobody has moved since.
Init ==
  /\ ingame \in SUBSET Users /\ used = ingame
  /\ registered = Npcs \cup ingame
  /\ invisible = {} /\ graves = [o \in Objects |-> 0]
  /\ pos \in {f \in [Objects -> Cells] : \A u \in Users \ ingame : f[u] = 0}
  /\ view_list = [u \in Users |-> IF u \in ingame THEN InSight(u) ELSE {}]
  /\ screen = [u \in Users |-> [o \in Objects |->
       IF u \in ingame /\ o \in InSight(u) \cup {u} THEN Entry("shown", pos[o]) ELSE Nothing]]
  /\ task = [t \in Threads |-> Idle]
  /\ deeds = 0 /\ dirty = {} /\ alone = {}

Next ==
  \/ \E u \in Users : Login(u) \/ Move(u) \/ Death(u) \/ Disconnect(u) \/ Kill(u)
  \/ \E n \in Npcs : NpcMove(n)
  \/ \E o \in Objects : Regen(o)
  \/ \E t \in Threads : Copy(t) \/ Step(t) \/ Scan(t) \/ Build(t) \/ Send(t)

Spec == Init /\ [][Next]_vars

-----------------------------------------------------------------------------
Elements(s) == {s[i] : i \in DOMAIN s}
Packets == [op : {"add", "move", "remove"}, to : Users, of : Objects]

\* Types of the variables.
TypeOK ==
  /\ ingame \subseteq Users /\ registered \subseteq Objects
  /\ invisible \subseteq Objects /\ graves \in [Objects -> 0..MaxDeeds]
  /\ pos \in [Objects -> Cells]
  /\ view_list \in [Users -> SUBSET Objects]
  /\ screen \in [Users -> [Objects -> [how : {"none", "hidden", "shown"}, x : Cells]]]
  /\ \A t \in Threads :
       /\ task[t].pc \in {"idle", "copy", "step", "scan", "build", "send", "store"}
       /\ task[t].kind \in {"none", "login", "move", "npc", "kill", "regen", "leave", "bye"}
       /\ task[t].who \in Threads /\ task[t].old \subseteq Objects
       /\ \A s \in task[t].todo \cup {task[t].now} : Len(s) <= 2 /\ Elements(s) \subseteq Packets
       /\ task[t].out \subseteq [p : Packets, x : Cells] /\ Cardinality(task[t].out) <= 1
  /\ deeds \in 0..MaxDeeds
  /\ used \subseteq Users /\ dirty \subseteq Objects \X Objects /\ alone \subseteq Threads

\* The pairs at rest whose handlers have never run at the same time.
Clean(u, o) ==
  /\ u \in ingame /\ o \in Npcs \cup ingame /\ <<u, o>> \notin dirty
  /\ \A t \in Threads : task[t] # Idle => task[t].who \notin {u, o}

\* What a user's view list holds is what its client shows, and no entry waits
\* unseen in the client's table, as long as no two handlers about the two
\* objects overlapped, the slot is new and neither is a user that was killed
\* by a user.
ShownIsListed ==
  \A u \in Users, o \in Objects : Clean(u, o) /\ o # u =>
    screen[u][o].how = IF o \in view_list[u] THEN "shown" ELSE "none"

\* ... and what is listed is what is in sight, for everybody but the dead:
\* the two users of a pair see each other.
ListedIsSeen ==
  \A u \in Users, o \in Objects : Clean(u, o) /\ o # u /\ o \notin invisible =>
    (o \in view_list[u] <=> can_see(u, o))

\* ... and it is shown where it is, the client's own avatar included.
Placed ==
  \A u \in Users, o \in Objects : Clean(u, o) /\ screen[u][o].how = "shown" =>
    screen[u][o].x = pos[o]

\* A CS_MOVE that no other handler runs beside leaves the user's list exactly
\* what it can see, whatever earlier races did to it.
SoloMoveRepairs ==
  [][\A u \in Users :
       task[u].kind = "move" /\ u \in alone /\ task'[u] = Idle => view_list'[u] = Alive(u)]_vars
=============================================================================
