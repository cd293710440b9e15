---------------------------- MODULE NpcScheduler ----------------------------
(***************************************************************************)
(* Waking, moving, killing and reviving the roaming monsters (visuals      *)
(* SQUID and GUMBA; a PLANT is never woken: visual != PLANT) of            *)
(* SERVER/multi_iocp_server.cpp and SESSION.cpp.                           *)
(*                                                                         *)
(* A monster moves along a CHAIN: EV_RANDOM_MOVE waits in g_event_queue,   *)
(* the timer thread hands it to the completion port as OP_RANDOM_MOVE, a   *)
(* worker moves the monster and puts the next EV_RANDOM_MOVE in the queue. *)
(* A chain is started by the worker that wins the compare-and-exchange of  *)
(* _active while it scans for a player, and it ends by storing _active =   *)
(* false.  A kill hides the monster and queues EV_INVISIBLE, the respawn.  *)
(*                                                                         *)
(* The chains of a monster are named by Chains and its pending respawns by *)
(* Kills: both sets bound the model, not the code.  A position is          *)
(* abstracted to the monsters within VIEW_RANGE of a player (inSight), hit *)
(* points to "an attack may kill".  OP_PLAYER_MOVE completions run the     *)
(* attack script; they touch nothing kept here except through Death.       *)
(***************************************************************************)
EXTENDS Naturals

CONSTANTS
  Npcs,          \* roaming monsters
  Players,       \* session slots of users
  Workers,       \* worker threads busy with a player's packet or death
  Chains,        \* names for the chains a monster may have at once
  Kills,         \* names for the respawns a monster may have pending
  MoveDelay,     \* ticks of add_timer(EV_RANDOM_MOVE, 1000)
  RespawnDelay,  \* ticks of add_timer(EV_INVISIBLE, 30000)
  None

ASSUME NoneAssumption  == None \notin Npcs \cup Players \cup Chains \cup Kills
ASSUME DelayAssumption == MoveDelay \in Nat /\ RespawnDelay \in Nat

VARIABLES
  active,     \* SESSION::_active of each monster
  invisible,  \* SESSION::invisible of each monster
  ingame,     \* _state = ST_INGAME for each user slot
  inSight,    \* the monsters can_see() accepts for each user slot
  viewList,   \* SESSION::view_list of each user slot (its monsters)
  chain,      \* where each chain of each monster is
  respawn,    \* where each pending respawn of each monster is
  worker,     \* local state of each worker
  cleared     \* history: a respawn switched off a monster with a live chain

vars == <<active, invisible, ingame, inSight, viewList, chain, respawn,
          worker, cleared>>

-----------------------------------------------------------------------------
(* Where an event is: "arming" before the worker's add_timer,              *)
(* "queued" in g_event_queue, "popped" by the timer thread, "posted" to    *)
(* the completion port, "running" in a worker.  yes keeps the answer the   *)
(* thread got from player_exist and will act on.                           *)

Event(at, left, yes) == [at |-> at, left |-> left, yes |-> yes]
NoEvent              == Event("none", 0, FALSE)
Armed(delay)         == Event("queued", delay, FALSE)

ChainPlaces == {"none", "arming", "queued", "popped", "posted", "running"}
Events(delay) == [at : ChainPlaces, left : 0..delay, yes : BOOLEAN]

Live(n, c)     == chain[n][c].at # "none"
LastChain(n, c) == \A d \in Chains \ {c} : ~Live(n, d)
Due(e)         == e.at = "queued" /\ e.left = 0
TimerIdle      == /\ \A n \in Npcs, c \in Chains : chain[n][c].at # "popped"
                  /\ \A n \in Npcs, k \in Kills : respawn[n][k].at # "popped"

\* player_exist scans the ST_INGAME slots with can_see.
player_exist(n) == \E p \in Players : ingame[p] /\ n \in inSight[p]

SetChain(n, c, e)   == chain'   = [chain EXCEPT ![n][c] = e]
SetRespawn(n, k, e) == respawn' = [respawn EXCEPT ![n][k] = e]

\* A chain ends: _active = false, and with the last chain the history is clean.
EndChain(n, c) ==
  /\ active'  = [active EXCEPT ![n] = FALSE]
  /\ cleared' = [cleared EXCEPT ![n] = cleared[n] /\ ~LastChain(n, c)]
  /\ SetChain(n, c, NoEvent)

-----------------------------------------------------------------------------
(* Workers handling a player.                                              *)

Task(pc, who, kind, todo, found, old, npc, slot) ==
  [pc |-> pc, who |-> who, kind |-> kind, todo |-> todo, found |-> found,
   old |-> old, npc |-> npc, slot |-> slot]
Idle == Task("idle", None, "none", {}, {}, {}, None, None)

\* One receive is outstanding per session, so its packets are handled one
\* at a time; a death runs in the worker of the monster that struck.
ReceiveIdle(p) ==
  \A w \in Workers : worker[w].who = p => worker[w].kind = "death"

StartScan(w, p, kind, sight) ==
  /\ worker[w].pc = "idle"
  /\ inSight' = [inSight EXCEPT ![p] = sight]
  /\ worker'  = [worker EXCEPT ![w] =
                   Task("scan", p, kind, Npcs, {}, viewList[p], None, None)]
  /\ UNCHANGED <<active, invisible, viewList, chain, respawn, cleared>>

\* CS_LOGIN: place the session, mark it ST_INGAME, scan the 3 x 3 sectors.
Login(w, p) ==
  /\ ~ingame[p] /\ ReceiveIdle(p)
  /\ \E sight \in SUBSET Npcs : StartScan(w, p, "login", sight)
  /\ ingame' = [ingame EXCEPT ![p] = TRUE]

\* CS_MOVE: one cell further; which monsters come into or go out of sight is
\* left open.
Move(w, p) ==
  /\ ingame[p] /\ ReceiveIdle(p)
  /\ \E sight \in SUBSET Npcs : StartScan(w, p, "move", sight)
  /\ UNCHANGED ingame

\* CS_TELEPORT: a random cell, then the scan of CS_MOVE under all its locks.
Teleport(w, p) ==
  /\ ingame[p] /\ ReceiveIdle(p)
  /\ \E sight \in SUBSET Npcs : StartScan(w, p, "move", sight)
  /\ UNCHANGED ingame

\* API_ChangeStat, fatal branch: the victim is put at (1, 1) and scans there.
Death(w, p) ==
  /\ \E n \in inSight[p] : ~invisible[n]
  /\ \E sight \in SUBSET Npcs : StartScan(w, p, "death", sight)
  /\ UNCHANGED ingame

\* One object of the scanned sectors: CS_LOGIN shows it at once, hidden or
\* not; the other scans collect it if it is not invisible.  A visible
\* monster is then to be woken.
ScanLook(w, n) ==
  LET t      == worker[w]
      seen   == n \in inSight[t.who]
      wake   == seen /\ ~invisible[n]
      listed == seen /\ (t.kind = "login" \/ ~invisible[n])
  IN  /\ t.pc = "scan" /\ n \in t.todo
      /\ worker' = [worker EXCEPT ![w] =
                      [t EXCEPT !.todo  = t.todo \ {n},
                                !.found = IF listed THEN t.found \cup {n} ELSE t.found,
                                !.pc    = IF wake THEN "cas" ELSE "scan",
                                !.npc   = IF wake THEN n ELSE None]]
      /\ viewList' = IF t.kind = "login" /\ listed
                     THEN [viewList EXCEPT ![t.who] = @ \cup {n}]
                     ELSE viewList
      /\ UNCHANGED <<active, invisible, ingame, inSight, chain, respawn, cleared>>

\* Mutation of WakeCas: a plain store, the old value of _active not compared.
WakeCasPlainStore(w) ==
  LET t == worker[w] IN
  /\ t.pc = "cas"
  /\ active' = [active EXCEPT ![t.npc] = TRUE]
  /\ \E c \in Chains :
       /\ ~Live(t.npc, c)
       /\ SetChain(t.npc, c, Event("arming", 0, FALSE))
       /\ worker' = [worker EXCEPT ![w] = [t EXCEPT !.pc = "arm", !.slot = c]]
  /\ UNCHANGED <<invisible, ingame, inSight, viewList, respawn, cleared>>

\* atomic_compare_exchange_strong(&obj->_active, false, true)
WakeCas(w) ==
  LET t == worker[w] IN
  /\ t.pc = "cas"
  /\ \/ /\ active[t.npc]
        /\ worker' = [worker EXCEPT ![w] = [t EXCEPT !.pc = "scan", !.npc = None]]
        /\ UNCHANGED <<active, chain>>
     \/ /\ ~active[t.npc]
        /\ active' = [active EXCEPT ![t.npc] = TRUE]
        /\ \E c \in Chains :
             /\ ~Live(t.npc, c)
             /\ SetChain(t.npc, c, Event("arming", 0, FALSE))
             /\ worker' = [worker EXCEPT ![w] = [t EXCEPT !.pc = "arm", !.slot = c]]
  /\ UNCHANGED <<invisible, ingame, inSight, viewList, respawn, cleared>>

\* The winner's add_timer(obj->_id, EV_RANDOM_MOVE, 1000, ...)
WakeArm(w) ==
  LET t == worker[w] IN
  /\ t.pc = "arm"
  /\ SetChain(t.npc, t.slot, Armed(MoveDelay))
  /\ worker' = [worker EXCEPT ![w] =
                  [t EXCEPT !.pc = "scan", !.npc = None, !.slot = None]]
  /\ UNCHANGED <<active, invisible, ingame, inSight, viewList, respawn, cleared>>

\* After the scan: add what is new, remove what is gone, against the copy of
\* the view list taken before the scan.  CS_LOGIN has added already.
ScanEnd(w) ==
  LET t == worker[w] IN
  /\ t.pc = "scan" /\ t.todo = {}
  /\ viewList' = IF t.kind = "login" THEN viewList
                 ELSE [viewList EXCEPT ![t.who] =
                         (@ \cup (t.found \ t.old)) \ (t.old \ t.found)]
  /\ worker' = [worker EXCEPT ![w] = Idle]
  /\ UNCHANGED <<active, invisible, ingame, inSight, chain, respawn, cleared>>

\* CS_ATTACK walks over a copy of the view list; it never looks at invisible.
Attack(w, p) ==
  /\ worker[w].pc = "idle" /\ ingame[p] /\ ReceiveIdle(p)
  /\ worker' = [worker EXCEPT ![w] =
                  Task("attack", p, "attack", viewList[p], {}, {}, None, None)]
  /\ UNCHANGED <<active, invisible, ingame, inSight, viewList, chain, respawn, cleared>>

\* A target in reach dies: it is hidden and taken out of the killer's list
\* only; every other session keeps it in its own.
AttackKill(w, n) ==
  LET t == worker[w] IN
  /\ t.pc = "attack" /\ n \in t.todo /\ n \in inSight[t.who]
  /\ invisible' = [invisible EXCEPT ![n] = TRUE]
  /\ viewList'  = [viewList EXCEPT ![t.who] = @ \ {n}]
  /\ \E k \in Kills :
       /\ respawn[n][k].at = "none"
       /\ SetRespawn(n, k, Event("arming", 0, FALSE))
       /\ worker' = [worker EXCEPT ![w] =
                       [t EXCEPT !.todo = @ \ {n}, !.pc = "bury",
                                 !.npc = n, !.slot = k]]
  /\ UNCHANGED <<active, ingame, inSight, chain, cleared>>

\* Mutation of AttackBury: no second respawn while one is on its way.
AttackBuryOnce(w) ==
  LET t == worker[w]
      e == IF \E k \in Kills \ {t.slot} : respawn[t.npc][k].at # "none"
           THEN NoEvent ELSE Armed(RespawnDelay)
  IN  /\ t.pc = "bury"
      /\ SetRespawn(t.npc, t.slot, e)
      /\ worker' = [worker EXCEPT ![w] =
                      [t EXCEPT !.pc = "attack", !.npc = None, !.slot = None]]
      /\ UNCHANGED <<active, invisible, ingame, inSight, viewList, chain, cleared>>

\* add_timer(pl->_id, EV_INVISIBLE, 30000, -1)
AttackBury(w) ==
  LET t == worker[w] IN
  /\ t.pc = "bury"
  /\ SetRespawn(t.npc, t.slot, Armed(RespawnDelay))
  /\ worker' = [worker EXCEPT ![w] =
                  [t EXCEPT !.pc = "attack", !.npc = None, !.slot = None]]
  /\ UNCHANGED <<active, invisible, ingame, inSight, viewList, chain, cleared>>

\* The remaining targets are out of reach or survive.
AttackEnd(w) ==
  /\ worker[w].pc = "attack"
  /\ worker' = [worker EXCEPT ![w] = Idle]
  /\ UNCHANGED <<active, invisible, ingame, inSight, viewList, chain, respawn, cleared>>

\* disconnect: the state becomes ST_FREE, position and view list stay.
Disconnect(p) ==
  /\ ingame[p]
  /\ ingame' = [ingame EXCEPT ![p] = FALSE]
  /\ UNCHANGED <<active, invisible, inSight, viewList, chain, respawn, worker, cleared>>

-----------------------------------------------------------------------------
(* The timer thread (do_timer) and the workers that run OP_RANDOM_MOVE.    *)

\* A due EV_RANDOM_MOVE is popped and player_exist is asked.
TimerPop(n, c) ==
  /\ TimerIdle /\ Due(chain[n][c])
  /\ SetChain(n, c, Event("popped", 0, player_exist(n)))
  /\ UNCHANGED <<active, invisible, ingame, inSight, viewList, respawn, worker, cleared>>

\* Mutation of TimerAct: the timer drops the event and leaves _active set.
TimerActForgets(n, c) ==
  /\ chain[n][c].at = "popped"
  /\ SetChain(n, c, IF chain[n][c].yes THEN Event("posted", 0, FALSE) ELSE NoEvent)
  /\ UNCHANGED <<active, cleared, invisible, ingame, inSight, viewList, respawn, worker>>

\* Mutation of TimerAct: the monster is looked at again later, seen or not.
TimerActRearms(n, c) ==
  /\ chain[n][c].at = "popped"
  /\ SetChain(n, c, IF chain[n][c].yes THEN Event("posted", 0, FALSE)
                                       ELSE Armed(MoveDelay))
  /\ UNCHANGED <<active, cleared, invisible, ingame, inSight, viewList, respawn, worker>>

\* The answer is acted on: OP_RANDOM_MOVE is posted, or the monster sleeps.
TimerAct(n, c) ==
  /\ chain[n][c].at = "popped"
  /\ IF chain[n][c].yes
     THEN SetChain(n, c, Event("posted", 0, FALSE)) /\ UNCHANGED <<active, cleared>>
     ELSE EndChain(n, c)
  /\ UNCHANGED <<invisible, ingame, inSight, viewList, respawn, worker>>

\* Mutation of MoveCheck: a dead monster goes on walking.
MoveCheckDeadToo(n, c) ==
  /\ chain[n][c].at = "posted"
  /\ SetChain(n, c, Event("running", 0, player_exist(n)))
  /\ UNCHANGED <<active, invisible, ingame, inSight, viewList, respawn, worker, cleared>>

\* OP_RANDOM_MOVE: player_exist(key) && !objects[key].invisible
MoveCheck(n, c) ==
  /\ chain[n][c].at = "posted"
  /\ SetChain(n, c, Event("running", 0, player_exist(n) /\ ~invisible[n]))
  /\ UNCHANGED <<active, invisible, ingame, inSight, viewList, respawn, worker, cleared>>

\* do_random_move: the monster steps, so the slots that see it change from
\* before to after, and their view lists with them.
do_random_move(n) ==
  \E after \in SUBSET Players :
    LET before == {p \in Players : n \in inSight[p]} IN
    /\ inSight'  = [p \in Players |-> IF p \in after THEN inSight[p] \cup {n}
                                                     ELSE inSight[p] \ {n}]
    /\ viewList' = [p \in Players |->
                      CASE p \in after \ before -> viewList[p] \cup {n}
                        [] p \in before \ after -> viewList[p] \ {n}
                        [] OTHER                -> viewList[p]]

\* The monster moves and the next event is armed, or it goes to sleep.
MoveRun(n, c) ==
  /\ chain[n][c].at = "running"
  /\ IF chain[n][c].yes
     THEN /\ do_random_move(n)
          /\ SetChain(n, c, Armed(MoveDelay))
          /\ UNCHANGED <<active, cleared>>
     ELSE EndChain(n, c) /\ UNCHANGED <<inSight, viewList>>
  /\ UNCHANGED <<invisible, ingame, respawn, worker>>

\* Mutation of RespawnPop: a monster is revived only for a player who sees it.
RespawnPopIfSeen(n, k) ==
  /\ TimerIdle /\ Due(respawn[n][k])
  /\ invisible' = [invisible EXCEPT ![n] = ~player_exist(n)]
  /\ SetRespawn(n, k, Event("popped", 0, player_exist(n)))
  /\ UNCHANGED <<active, ingame, inSight, viewList, chain, worker, cleared>>

\* A due EV_INVISIBLE: the monster is visible again, player_exist is asked.
RespawnPop(n, k) ==
  /\ TimerIdle /\ Due(respawn[n][k])
  /\ invisible' = [invisible EXCEPT ![n] = FALSE]
  /\ SetRespawn(n, k, Event("popped", 0, player_exist(n)))
  /\ UNCHANGED <<active, ingame, inSight, viewList, chain, worker, cleared>>

\* OP_REGEN is posted, or _active is stored false whatever chain is live.
RespawnAct(n, k) ==
  /\ respawn[n][k].at = "popped"
  /\ IF respawn[n][k].yes
     THEN SetRespawn(n, k, Event("posted", 0, FALSE)) /\ UNCHANGED <<active, cleared>>
     ELSE /\ SetRespawn(n, k, NoEvent)
          /\ active'  = [active EXCEPT ![n] = FALSE]
          /\ cleared' = [cleared EXCEPT ![n] = @ \/ \E c \in Chains : Live(n, c)]
  /\ UNCHANGED <<invisible, ingame, inSight, viewList, chain, worker>>

\* OP_REGEN shows the monster to every slot that sees it.
Regen(n, k) ==
  /\ respawn[n][k].at = "posted"
  /\ viewList' = [p \in Players |-> IF n \in inSight[p] THEN viewList[p] \cup {n}
                                                        ELSE viewList[p]]
  /\ SetRespawn(n, k, NoEvent)
  /\ UNCHANGED <<active, invisible, ingame, inSight, chain, worker, cleared>>

Waiting(e) == e.at = "queued" /\ e.left > 0
Age(e)     == IF Waiting(e) THEN [e EXCEPT !.left = e.left - 1] ELSE e

\* Time passes for every queued event.
Tick ==
  /\ \/ \E n \in Npcs, c \in Chains : Waiting(chain[n][c])
     \/ \E n \in Npcs, k \in Kills : Waiting(respawn[n][k])
  /\ chain'   = [n \in Npcs |-> [c \in Chains |-> Age(chain[n][c])]]
  /\ respawn' = [n \in Npcs |-> [k \in Kills |-> Age(respawn[n][k])]]
  /\ UNCHANGED <<active, invisible, ingame, inSight, viewList, worker, cleared>>

-----------------------------------------------------------------------------
Init ==
  /\ active    = [n \in Npcs |-> FALSE]
  /\ invisible = [n \in Npcs |-> FALSE]
  /\ ingame    = [p \in Players |-> FALSE]
  /\ inSight   = [p \in Players |-> {}]
  /\ viewList  = [p \in Players |-> {}]
  /\ chain     = [n \in Npcs |-> [c \in Chains |-> NoEvent]]
  /\ respawn   = [n \in Npcs |-> [k \in Kills |-> NoEvent]]
  /\ worker    = [w \in Workers |-> Idle]
  /\ cleared   = [n \in Npcs |-> FALSE]

PacketStep(w) ==
  \/ \E p \in Players : Login(w, p) \/ Move(w, p) \/ Teleport(w, p)
                        \/ Death(w, p) \/ Attack(w, p)

WorkerStep(w) ==
  \/ \E n \in Npcs : ScanLook(w, n) \/ AttackKill(w, n)
  \/ WakeCas(w) \/ WakeArm(w) \/ ScanEnd(w)
  \/ AttackBury(w) \/ AttackEnd(w)

ChainStep(n, c) ==
  TimerPop(n, c) \/ TimerAct(n, c) \/ MoveCheck(n, c) \/ MoveRun(n, c)

RespawnStep(n, k) == RespawnPop(n, k) \/ RespawnAct(n, k) \/ Regen(n, k)

Next ==
  \/ \E w \in Workers : PacketStep(w) \/ WorkerStep(w)
  \/ \E p \in Players : Disconnect(p)
  \/ \E n \in Npcs, c \in Chains : ChainStep(n, c)
  \/ \E n \in Npcs, k \in Kills : RespawnStep(n, k)
  \/ Tick

Spec == Init /\ [][Next]_vars

\* Worker and timer threads never stop and time passes.  The timer pops in
\* due order, so no due event waits forever behind events armed after it.
Fairness ==
  /\ WF_vars(Tick)
  /\ \A w \in Workers : WF_vars(WorkerStep(w))
  /\ \A n \in Npcs, c \in Chains : SF_vars(ChainStep(n, c))
  /\ \A n \in Npcs, k \in Kills : SF_vars(RespawnStep(n, k))

LiveSpec == Spec /\ Fairness

-----------------------------------------------------------------------------
Tasks == [pc : {"idle", "scan", "cas", "arm", "attack", "bury"},
          who : Players \cup {None}, kind : {"none", "login", "move", "death", "attack"},
          todo : SUBSET Npcs, found : SUBSET Npcs, old : SUBSET Npcs,
          npc : Npcs \cup {None}, slot : Chains \cup Kills \cup {None}]

\* Types of the variables.
TypeOK ==
  /\ active \in [Npcs -> BOOLEAN] /\ invisible \in [Npcs -> BOOLEAN]
  /\ cleared \in [Npcs -> BOOLEAN] /\ ingame \in [Players -> BOOLEAN]
  /\ inSight \in [Players -> SUBSET Npcs] /\ viewList \in [Players -> SUBSET Npcs]
  /\ chain \in [Npcs -> [Chains -> Events(MoveDelay)]]
  /\ respawn \in [Npcs -> [Kills -> Events(RespawnDelay)]]
  /\ worker \in [Workers -> Tasks]

\* A monster marked _active has a chain that will move it or mark it asleep
\* again.  Otherwise no scan would ever wake it: every one of them skips a
\* monster that is already active.
NeverStuck ==
  \A n \in Npcs : active[n] => \E c \in Chains : Live(n, c)

\* The exchange of _active admits one chain per monster, and _active tells
\* whether it runs, except after a respawn stored _active = false under a
\* live chain.
OneChainUnlessCleared ==
  \A n \in Npcs : ~cleared[n] =>
    \A c \in Chains : Live(n, c) => active[n] /\ LastChain(n, c)

\* A dead monster never stays dead: while it is invisible, a worker is about
\* to queue its respawn or the respawn is waiting in the queue, however its
\* kills, rekills and respawns interleave.
DeadWillRespawn ==
  \A n \in Npcs : invisible[n] =>
    \E k \in Kills : respawn[n][k].at \in {"arming", "queued"}

\* A dead monster comes back.
DeadComesBack == \A n \in Npcs : invisible[n] ~> ~invisible[n]

\* Once no player sees a monster and no scan is made for a session near it
\* (a session that has left can still be killed, and scans), its chains die
\* out and it stops costing the server events.
UnseenSleeps ==
  \A n \in Npcs :
    <>[](/\ ~player_exist(n)
         /\ \A w \in Workers : worker[w].pc # "idle" => n \notin inSight[worker[w].who])
    => <>[](\A c \in Chains : ~Live(n, c))
=============================================================================
