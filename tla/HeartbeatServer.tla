--------------------------- MODULE HeartbeatServer --------------------------
(***************************************************************************)
(* The server of the lessons, GameServerProgramming/multi_iocp_server.cpp, *)
(* and its client: the same protocol of view lists and object tables as in *)
(* Visibility before there were sectors.  Four things differ.  A scan goes *)
(* over the whole array and looks at _state.  CS_MOVE ends by storing what *)
(* it has scanned over the list, whatever others have put there meanwhile. *)
(* disconnect tells both sides.  And do_ai_wk posts a move of every        *)
(* monster every second, whether or not the last one is done, so that two  *)
(* workers may move one monster.                                           *)
(*                                                                         *)
(* registered is the set of the objects with _state = ST_INGAME here, so   *)
(* that what Visibility says of a pair of objects can be asked of this     *)
(* server too.                                                             *)
(***************************************************************************)
EXTENDS Visibility

-----------------------------------------------------------------------------
\* The scan goes over the whole array.
BeatInSight(o) == {b \in registered \ {o} : can_see(o, b)}

\* CS_LOGIN: a random cell, whoever it is.
BeatLogin(u) ==
  /\ u \notin ingame
  /\ \E c \in Cells :
       /\ pos' = [pos EXCEPT ![u] = c]
       /\ screen' = [screen EXCEPT ![u] = [o \in Objects |-> IF o = u THEN Entry("shown", c) ELSE Nothing]]
  /\ ingame' = ingame \cup {u} /\ registered' = registered \cup {u}
  /\ Begin(u, Task("scan", "login", u, {}, {}, <<>>))
  /\ used'  = used \cup {u}
  /\ dirty' = dirty \cup Met(u, u) \cup (IF u \in used THEN Pairs(u) ELSE {})
  /\ UNCHANGED <<life, view_list>>

\* CS_MOVE.
BeatMove(u) ==
  /\ u \in ingame
  /\ \E c \in Near(pos[u]) : pos' = [pos EXCEPT ![u] = c]
  /\ Begin(u, Task("copy", "move", u, {}, {}, <<>>))
  /\ dirty' = dirty \cup Met(u, u)
  /\ UNCHANGED <<ingame, registered, life, view_list, screen, used>>

\* OP_RANDOM_MOVE, in the monster's usual worker or beside it in another.
BeatNpcMove(t, n) ==
  /\ Begin(t, Task("step", "npc", n, BeatInSight(n), {}, <<>>))
  /\ dirty' = dirty \cup Met(t, n)
  /\ UNCHANGED <<world, view_list, screen, used>>

\* disconnect: the session itself first, then both sides of every pair.
BeatDisconnect(u) ==
  /\ u \in ingame
  /\ Begin(Other, Task("build", "bye", u, {}, {Vanish(u, b) : b \in BeatInSight(u)}, Tell("remove", u, u)))
  /\ dirty' = dirty \cup Met(Other, u)
  /\ UNCHANGED <<world, view_list, screen, used>>

-----------------------------------------------------------------------------
(* What the game has kept word for word: the copy of the list, a monster's *)
(* step, the send functions with their lists, and the client's table.      *)
BeatCopy(t)    == Copy(t)
BeatStep(t)    == Step(t)
BeatBuild(t)   == Build(t)
BeatDeliver(k) == Deliver(k)

\* CS_MOVE keeps what it has found; Updates is the same in both servers.
BeatScan(t) ==
  LET k == task[t]
      new == BeatInSight(k.who)
  IN  /\ k.pc = "scan"
      /\ Set(t, Spread(k, Updates(k.kind, k.who, k.old, new) \ {<<>>}, new))
      /\ UNCHANGED <<world, view_list, screen, past>>

\* The last packet of CS_MOVE is not its end.
BeatSend(t) ==
  LET k == task[t] IN
  /\ k.pc = "send"
  /\ BeatDeliver(k)
  /\ Set(t, CASE ~Last(k) -> [k EXCEPT !.pc = "build", !.out = {}]
              [] Last(k) /\ k.kind = "move" -> [k EXCEPT !.pc = "store", !.out = {}]
              [] OTHER -> Idle)
  /\ LET gone == IF Last(k) /\ k.kind = "bye" THEN {k.who} ELSE {} IN
       ingame' = ingame \ gone /\ registered' = registered \ gone
  /\ UNCHANGED <<pos, life, view_list, past>>

\* view_list = new_viewlist.
BeatStore(t) ==
  LET k == task[t] IN
  /\ k.pc = "store"
  /\ view_list' = [view_list EXCEPT ![k.who] = k.old]
  /\ Set(t, Idle)
  /\ UNCHANGED <<world, screen, past>>

-----------------------------------------------------------------------------
BeatNext ==
  \/ \E u \in Users : BeatLogin(u) \/ BeatMove(u) \/ BeatDisconnect(u)
  \/ \E n \in Npcs : \E t \in {n, Other} : BeatNpcMove(t, n)
  \/ \E t \in Threads : BeatCopy(t) \/ BeatStep(t) \/ BeatScan(t) \/ BeatBuild(t) \/ BeatSend(t) \/ BeatStore(t)

BeatSpec == Init /\ [][BeatNext]_vars

-----------------------------------------------------------------------------
\* Who stands in no sector list, or has left the lesson, is in nobody's list
\* and in nobody's table, as long as its last handlers overlapped with none of
\* the other's.  The game's disconnect leaves the slot in its sector list, where
\* later scans find it.
GoneIsForgotten ==
  \A u \in ingame, v \in Users \ registered :
    <<u, v>> \notin dirty /\ (\A t \in Threads : task[t] # Idle => task[t].who \notin {u, v})
    => v \notin view_list[u] /\ screen[u][v].how = "none"
=============================================================================
