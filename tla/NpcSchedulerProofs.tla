------------------------- MODULE NpcSchedulerProofs -------------------------
(***************************************************************************)
(* For every number of monsters, players, workers, chains and respawns:    *)
(* NpcScheduler keeps its types, no active monster is left without a       *)
(* chain, and every dead monster has its respawn on the way; and, of       *)
(* NpcTiming, that where the server keeps up a monster's chains have ended *)
(* once it has been dead for a move period.                                *)
(***************************************************************************)
EXTENDS NpcTiming, TLAPS

(* A worker that owes an add_timer owns the event it will queue, and no    *)
(* other worker owns the same one.  Every other step leaves an event in    *)
(* "arming" alone, so the worker finds it there.                           *)
Owes(w, pc) == worker[w].pc = pc
OwnsChain(w) ==
  /\ worker[w].npc \in Npcs /\ worker[w].slot \in Chains
  /\ chain[worker[w].npc][worker[w].slot].at = "arming"
OwnsRespawn(w) ==
  /\ worker[w].npc \in Npcs /\ worker[w].slot \in Kills
  /\ respawn[worker[w].npc][worker[w].slot].at = "arming"
SameEvent(v, w) == worker[v].npc = worker[w].npc /\ worker[v].slot = worker[w].slot

OwnInv ==
  \A w \in Workers :
    /\ Owes(w, "cas") => worker[w].npc \in Npcs
    /\ Owes(w, "arm") =>
         /\ OwnsChain(w)
         /\ \A v \in Workers \ {w} : Owes(v, "arm") => ~SameEvent(v, w)
    /\ Owes(w, "bury") =>
         /\ OwnsRespawn(w)
         /\ \A v \in Workers \ {w} : Owes(v, "bury") => ~SameEvent(v, w)

IInv == TypeOK /\ OwnInv /\ NeverStuck /\ OneChainUnlessCleared /\ DeadWillRespawn
-----------------------------------------------------------------------------
USE NoneAssumption, DelayAssumption

(* The events and tasks the actions write have their types. *)
LEMMA EventTypes ==
  ASSUME NEW delay \in Nat
  PROVE  /\ NoEvent \in Events(delay)
         /\ Armed(delay) \in Events(delay)
         /\ \A at \in ChainPlaces, yes \in BOOLEAN : Event(at, 0, yes) \in Events(delay)
         /\ \A e \in Events(delay) : Age(e) \in Events(delay)
BY DEF NoEvent, Armed, Event, Events, ChainPlaces, Age, Waiting

LEMMA TaskTypes ==
  ASSUME TypeOK, NEW w \in Workers, NEW p \in Players, NEW kind \in {"login", "move", "death"}
  PROVE  /\ Idle \in Tasks
         /\ Task("scan", p, kind, Npcs, {}, viewList[p], None, None) \in Tasks
         /\ Task("attack", p, "attack", viewList[p], {}, {}, None, None) \in Tasks
         /\ worker[w] \in Tasks
BY DEF TypeOK, Idle, Task, Tasks

(* player_exist answers a truth value. *)
LEMMA ExistType == ASSUME NEW n PROVE player_exist(n) \in BOOLEAN
BY DEF player_exist

(* Every step of a session keeps the types: it starts a scan or an attack. *)
LEMMA PacketTypes ==
  ASSUME TypeOK, NEW w \in Workers, NEW p \in Players,
         Login(w, p) \/ Move(w, p) \/ Teleport(w, p) \/ Death(w, p) \/ Attack(w, p)
  PROVE  TypeOK'
<1>1. ASSUME NEW kind \in {"login", "move", "death"}, NEW sight \in SUBSET Npcs,
             StartScan(w, p, kind, sight), ingame' \in [Players -> BOOLEAN]
      PROVE  TypeOK'
  BY <1>1, TaskTypes DEF TypeOK, StartScan
<1>2. CASE Login(w, p)
  BY <1>1, <1>2 DEF Login, TypeOK
<1>3. CASE Move(w, p) \/ Teleport(w, p) \/ Death(w, p)
  BY <1>1, <1>3 DEF Move, Teleport, Death, TypeOK
<1>4. CASE Attack(w, p)
  BY <1>4, TaskTypes DEF Attack, TypeOK
<1>5. QED
  BY <1>2, <1>3, <1>4

(* The rest of a worker's steps keep the types. *)
LEMMA WorkerTypes ==
  ASSUME TypeOK, NEW w \in Workers, WorkerStep(w)
  PROVE  TypeOK'
<1> DEFINE t == worker[w]
<1>t. t \in Tasks
  BY DEF TypeOK
<1>1. ASSUME NEW n \in Npcs, ScanLook(w, n) PROVE TypeOK'
  <2>1. [t EXCEPT !.todo  = t.todo \ {n},
                  !.found = IF n \in inSight[t.who] /\ (t.kind = "login" \/ ~invisible[n])
                            THEN t.found \cup {n} ELSE t.found,
                  !.pc    = IF n \in inSight[t.who] /\ ~invisible[n] THEN "cas" ELSE "scan",
                  !.npc   = IF n \in inSight[t.who] /\ ~invisible[n] THEN n ELSE None]
        \in Tasks
    BY <1>t DEF Tasks
  <2>2. worker' \in [Workers -> Tasks]
    BY <1>1, <2>1 DEF ScanLook, TypeOK
  <2>3. viewList' \in [Players -> SUBSET Npcs]
    BY <1>1 DEF ScanLook, TypeOK
  <2>4. QED
    BY <1>1, <2>2, <2>3 DEF ScanLook, TypeOK
<1>2. ASSUME NEW n \in Npcs, AttackKill(w, n) PROVE TypeOK'
  <2>1. PICK k \in Kills :
          /\ SetRespawn(n, k, Event("arming", 0, FALSE))
          /\ worker' = [worker EXCEPT ![w] =
                          [t EXCEPT !.todo = @ \ {n}, !.pc = "bury", !.npc = n, !.slot = k]]
    BY <1>2 DEF AttackKill
  <2>2. [t EXCEPT !.todo = @ \ {n}, !.pc = "bury", !.npc = n, !.slot = k] \in Tasks
    BY <1>t DEF Tasks
  <2>3. worker' \in [Workers -> Tasks]
    BY <2>1, <2>2 DEF TypeOK
  <2>4. respawn' \in [Npcs -> [Kills -> Events(RespawnDelay)]]
    BY <2>1, EventTypes DEF SetRespawn, ChainPlaces, TypeOK
  <2>5. QED
    BY <1>2, <2>3, <2>4 DEF AttackKill, TypeOK
<1>3. CASE WakeCas(w)
  <2>1. CASE active[t.npc] /\ worker' = [worker EXCEPT ![w] = [t EXCEPT !.pc = "scan", !.npc = None]]
             /\ UNCHANGED <<active, chain>>
    <3>1. [t EXCEPT !.pc = "scan", !.npc = None] \in Tasks
      BY <1>t DEF Tasks
    <3>2. QED
      BY <1>3, <2>1, <3>1 DEF WakeCas, TypeOK
  <2>2. ASSUME NEW c \in Chains, active' = [active EXCEPT ![t.npc] = TRUE],
               SetChain(t.npc, c, Event("arming", 0, FALSE)),
               worker' = [worker EXCEPT ![w] = [t EXCEPT !.pc = "arm", !.slot = c]]
        PROVE  TypeOK'
    <3>1. [t EXCEPT !.pc = "arm", !.slot = c] \in Tasks
      BY <1>t DEF Tasks
    <3>2. chain' \in [Npcs -> [Chains -> Events(MoveDelay)]]
      BY <2>2, EventTypes DEF SetChain, ChainPlaces, TypeOK
    <3>3. QED
      BY <1>3, <2>2, <3>1, <3>2 DEF WakeCas, TypeOK
  <2>3. QED
    BY <1>3, <2>1, <2>2 DEF WakeCas
<1>4. CASE WakeArm(w)
  <2>1. [t EXCEPT !.pc = "scan", !.npc = None, !.slot = None] \in Tasks
    BY <1>t DEF Tasks
  <2>2. chain' \in [Npcs -> [Chains -> Events(MoveDelay)]]
    BY <1>4, EventTypes DEF WakeArm, SetChain, TypeOK
  <2>3. QED
    BY <1>4, <2>1, <2>2 DEF WakeArm, TypeOK
<1>5. CASE AttackBury(w)
  <2>1. [t EXCEPT !.pc = "attack", !.npc = None, !.slot = None] \in Tasks
    BY <1>t DEF Tasks
  <2>2. respawn' \in [Npcs -> [Kills -> Events(RespawnDelay)]]
    BY <1>5, EventTypes DEF AttackBury, SetRespawn, TypeOK
  <2>3. QED
    BY <1>5, <2>1, <2>2 DEF AttackBury, TypeOK
<1>6. CASE ScanEnd(w)
  <2>1. Idle \in Tasks
    BY DEF Idle, Task, Tasks
  <2>2. viewList' \in [Players -> SUBSET Npcs]
    BY <1>6, <1>t DEF ScanEnd, TypeOK, Tasks
  <2>3. QED
    BY <1>6, <2>1, <2>2 DEF ScanEnd, TypeOK
<1>7. CASE AttackEnd(w)
  <2>1. Idle \in Tasks
    BY DEF Idle, Task, Tasks
  <2>2. QED
    BY <1>7, <2>1 DEF AttackEnd, TypeOK
<1>8. QED
  BY <1>1, <1>2, <1>3, <1>4, <1>5, <1>6, <1>7 DEF WorkerStep

(* The timer's steps and the moves keep the types. *)
LEMMA ChainTypes ==
  ASSUME TypeOK, NEW n \in Npcs, NEW c \in Chains, ChainStep(n, c)
  PROVE  TypeOK'
<1>1. ASSUME NEW e \in Events(MoveDelay), SetChain(n, c, e)
      PROVE  chain' \in [Npcs -> [Chains -> Events(MoveDelay)]]
  BY <1>1 DEF SetChain, TypeOK
<1>2. ASSUME EndChain(n, c)
      PROVE  /\ chain' \in [Npcs -> [Chains -> Events(MoveDelay)]]
             /\ active' \in [Npcs -> BOOLEAN] /\ cleared' \in [Npcs -> BOOLEAN]
  BY <1>1, <1>2, EventTypes DEF EndChain, TypeOK, LastChain, Live
<1>3. CASE TimerPop(n, c)
  BY <1>1, <1>3, EventTypes, ExistType DEF TimerPop, ChainPlaces, TypeOK
<1>4. CASE TimerAct(n, c)
  BY <1>1, <1>2, <1>4, EventTypes DEF TimerAct, ChainPlaces, TypeOK
<1>5. CASE MoveCheck(n, c)
  <2>1. (player_exist(n) /\ ~invisible[n]) \in BOOLEAN
    OBVIOUS
  <2>2. QED
    BY <1>1, <1>5, <2>1, EventTypes DEF MoveCheck, ChainPlaces, TypeOK
<1>6. CASE MoveRun(n, c)
  <2>1. ASSUME do_random_move(n)
        PROVE  /\ inSight' \in [Players -> SUBSET Npcs]
               /\ viewList' \in [Players -> SUBSET Npcs]
    BY <2>1 DEF do_random_move, TypeOK
  <2>2. QED
    BY <1>1, <1>2, <1>6, <2>1, EventTypes DEF MoveRun, TypeOK
<1>7. QED
  BY <1>3, <1>4, <1>5, <1>6 DEF ChainStep

(* The respawn's steps keep the types. *)
LEMMA RespawnTypes ==
  ASSUME TypeOK, NEW n \in Npcs, NEW k \in Kills, RespawnStep(n, k)
  PROVE  TypeOK'
<1>1. ASSUME NEW e \in Events(RespawnDelay), SetRespawn(n, k, e)
      PROVE  respawn' \in [Npcs -> [Kills -> Events(RespawnDelay)]]
  BY <1>1 DEF SetRespawn, TypeOK
<1>2. CASE RespawnPop(n, k)
  BY <1>1, <1>2, EventTypes, ExistType DEF RespawnPop, ChainPlaces, TypeOK
<1>3. CASE RespawnAct(n, k)
  BY <1>1, <1>3, EventTypes DEF RespawnAct, ChainPlaces, TypeOK, Live
<1>4. CASE Regen(n, k)
  BY <1>1, <1>4, EventTypes DEF Regen, TypeOK
<1>5. QED
  BY <1>2, <1>3, <1>4 DEF RespawnStep

(* Time keeps the types, and every step does. *)
LEMMA StepTypes == TypeOK /\ [Next]_vars => TypeOK'
<1> SUFFICES ASSUME TypeOK, [Next]_vars PROVE TypeOK'
  OBVIOUS
<1>1. ASSUME NEW w \in Workers, PacketStep(w) PROVE TypeOK'
  BY <1>1, PacketTypes DEF PacketStep
<1>2. ASSUME NEW w \in Workers, WorkerStep(w) PROVE TypeOK'
  BY <1>2, WorkerTypes
<1>3. ASSUME NEW p \in Players, Disconnect(p) PROVE TypeOK'
  BY <1>3 DEF Disconnect, TypeOK
<1>4. ASSUME NEW n \in Npcs, NEW c \in Chains, ChainStep(n, c) PROVE TypeOK'
  BY <1>4, ChainTypes
<1>5. ASSUME NEW n \in Npcs, NEW k \in Kills, RespawnStep(n, k) PROVE TypeOK'
  BY <1>5, RespawnTypes
<1>6. CASE Tick
  BY <1>6, EventTypes DEF Tick, TypeOK
<1>7. CASE UNCHANGED vars
  BY <1>7 DEF vars, TypeOK
<1>8. QED
  BY <1>1, <1>2, <1>3, <1>4, <1>5, <1>6, <1>7 DEF Next

(* TypeOK of NpcScheduler holds in every reachable state. *)
THEOREM TypeCorrect == Spec => []TypeOK
<1>1. Init => TypeOK
  BY EventTypes DEF Init, TypeOK, Idle, Task, Tasks
<1>2. QED
  BY <1>1, StepTypes, PTL DEF Spec

-----------------------------------------------------------------------------
(* What each kind of step does to the events.  Only a worker's WakeCas and *)
(* WakeArm, AttackKill and AttackBury touch an event in "arming".          *)
ArmingStays ==
  /\ \A n \in Npcs, c \in Chains : chain[n][c].at = "arming" => chain'[n][c].at = "arming"
  /\ \A n \in Npcs, k \in Kills : respawn[n][k].at = "arming" => respawn'[n][k].at = "arming"

(* A step on one event changes no other event. *)
LEMMA ChainFrame ==
  ASSUME TypeOK, NEW n \in Npcs, NEW c \in Chains, NEW e, SetChain(n, c, e)
  PROVE  /\ chain'[n][c] = e
         /\ \A m \in Npcs, d \in Chains : m # n \/ d # c => chain'[m][d] = chain[m][d]
BY DEF SetChain, TypeOK

LEMMA RespawnFrame ==
  ASSUME TypeOK, NEW n \in Npcs, NEW k \in Kills, NEW e, SetRespawn(n, k, e)
  PROVE  /\ respawn'[n][k] = e
         /\ \A m \in Npcs, d \in Kills : m # n \/ d # k => respawn'[m][d] = respawn[m][d]
BY DEF SetRespawn, TypeOK

LEMMA ChainArming ==
  ASSUME TypeOK, NEW n \in Npcs, NEW c \in Chains, ChainStep(n, c)
  PROVE  ArmingStays /\ worker' = worker
<1>1. chain[n][c].at # "arming" /\ worker' = worker /\ respawn' = respawn
  BY DEF ChainStep, TimerPop, TimerAct, MoveCheck, MoveRun, Due
<1>2. \E e : SetChain(n, c, e)
  BY DEF ChainStep, TimerPop, TimerAct, MoveCheck, MoveRun, EndChain
<1>3. QED
  BY <1>1, <1>2, ChainFrame DEF ArmingStays

LEMMA RespawnArming ==
  ASSUME TypeOK, NEW n \in Npcs, NEW k \in Kills, RespawnStep(n, k)
  PROVE  ArmingStays /\ worker' = worker
<1>1. respawn[n][k].at # "arming" /\ worker' = worker /\ chain' = chain
  BY DEF RespawnStep, RespawnPop, RespawnAct, Regen, Due
<1>2. \E e : SetRespawn(n, k, e)
  BY DEF RespawnStep, RespawnPop, RespawnAct, Regen
<1>3. QED
  BY <1>1, <1>2, RespawnFrame DEF ArmingStays

(* Ageing changes no event's place. *)
LEMMA AgePlace == ASSUME NEW delay \in Nat, NEW e \in Events(delay) PROVE Age(e).at = e.at
BY DEF Age, Events

LEMMA TickPlaces ==
  ASSUME TypeOK, Tick
  PROVE  /\ \A n \in Npcs, c \in Chains : chain'[n][c].at = chain[n][c].at
         /\ \A n \in Npcs, k \in Kills : respawn'[n][k].at = respawn[n][k].at
<1>1. \A n \in Npcs, c \in Chains : chain'[n][c] = Age(chain[n][c])
  BY DEF Tick
<1>2. \A n \in Npcs, k \in Kills : respawn'[n][k] = Age(respawn[n][k])
  BY DEF Tick
<1>3. /\ \A n \in Npcs, c \in Chains : chain[n][c] \in Events(MoveDelay)
      /\ \A n \in Npcs, k \in Kills : respawn[n][k] \in Events(RespawnDelay)
  BY DEF TypeOK
<1>4. QED
  BY <1>1, <1>2, <1>3, AgePlace

(* A step that leaves the workers and the events in arming alone keeps     *)
(* what they own.                                                          *)
LEMMA OwnFrame == ASSUME TypeOK, OwnInv, ArmingStays, worker' = worker PROVE OwnInv'
BY DEF OwnInv, ArmingStays, Owes, OwnsChain, OwnsRespawn, SameEvent

(* A step of one worker: no other worker changes; it owes no add_timer     *)
(* afterwards; and the events the others own stay in arming.               *)
OnlyWorker(w) == \A v \in Workers \ {w} : worker'[v] = worker[v]
Settled(w)    == \/ worker'[w].pc \in {"idle", "scan", "attack"}
                 \/ worker'[w].pc = "cas" /\ worker'[w].npc \in Npcs
OthersKeep(w) ==
  \A v \in Workers \ {w} :
    /\ Owes(v, "arm")  => chain'[worker[v].npc][worker[v].slot].at = "arming"
    /\ Owes(v, "bury") => respawn'[worker[v].npc][worker[v].slot].at = "arming"

LEMMA KeepArming ==
  ASSUME OwnInv, ArmingStays, NEW w \in Workers PROVE OthersKeep(w)
BY DEF OwnInv, ArmingStays, OthersKeep, OwnsChain, OwnsRespawn

LEMMA OwnNothing ==
  ASSUME TypeOK, OwnInv, NEW w \in Workers, OnlyWorker(w), Settled(w), OthersKeep(w)
  PROVE  OwnInv'
<1>1. ~Owes(w, "arm")' /\ ~Owes(w, "bury")' /\ (Owes(w, "cas")' => worker'[w].npc \in Npcs)
  BY DEF Owes, Settled
<1>2. ASSUME NEW v \in Workers \ {w}
      PROVE  /\ Owes(v, "cas")' => worker'[v].npc \in Npcs
             /\ Owes(v, "arm")' => OwnsChain(v)'
             /\ Owes(v, "bury")' => OwnsRespawn(v)'
  BY <1>2 DEF OwnInv, Owes, OwnsChain, OwnsRespawn, OnlyWorker, OthersKeep
<1>3. ASSUME NEW v \in Workers \ {w}, NEW u \in Workers \ {w}, u # v
      PROVE  /\ Owes(v, "arm")' /\ Owes(u, "arm")' => ~SameEvent(u, v)'
             /\ Owes(v, "bury")' /\ Owes(u, "bury")' => ~SameEvent(u, v)'
  BY <1>3 DEF OwnInv, Owes, SameEvent, OnlyWorker
<1>4. QED
  BY <1>1, <1>2, <1>3 DEF OwnInv

(* A step of one worker that makes it own an event nobody owned. *)
TakesChain(w) == /\ worker'[w].pc = "arm" /\ OwnsChain(w)'
                 /\ chain[worker'[w].npc][worker'[w].slot].at # "arming"
TakesRespawn(w) == /\ worker'[w].pc = "bury" /\ OwnsRespawn(w)'
                   /\ respawn[worker'[w].npc][worker'[w].slot].at # "arming"

LEMMA OwnOne ==
  ASSUME TypeOK, OwnInv, NEW w \in Workers, OnlyWorker(w), ArmingStays,
         TakesChain(w) \/ TakesRespawn(w)
  PROVE  OwnInv'
<1>1. ASSUME NEW v \in Workers \ {w}
      PROVE  /\ Owes(v, "cas")' => worker'[v].npc \in Npcs
             /\ Owes(v, "arm")' => OwnsChain(v)' /\ OwnsChain(v)
             /\ Owes(v, "bury")' => OwnsRespawn(v)' /\ OwnsRespawn(v)
  BY <1>1 DEF OwnInv, Owes, OwnsChain, OwnsRespawn, ArmingStays, OnlyWorker
<1>2. ASSUME NEW v \in Workers \ {w}, NEW u \in Workers \ {w}, u # v
      PROVE  /\ Owes(v, "arm")' /\ Owes(u, "arm")' => ~SameEvent(u, v)'
             /\ Owes(v, "bury")' /\ Owes(u, "bury")' => ~SameEvent(u, v)'
  BY <1>2 DEF OwnInv, Owes, SameEvent, OnlyWorker
<1>3. ASSUME NEW v \in Workers \ {w}
      PROVE  /\ Owes(v, "arm")' /\ Owes(w, "arm")' => ~SameEvent(v, w)' /\ ~SameEvent(w, v)'
             /\ Owes(v, "bury")' /\ Owes(w, "bury")' => ~SameEvent(v, w)' /\ ~SameEvent(w, v)'
  BY <1>1, <1>3 DEF Owes, SameEvent, OwnsChain, OwnsRespawn, OnlyWorker, TakesChain, TakesRespawn
<1>4. (Owes(w, "arm")' => OwnsChain(w)') /\ (Owes(w, "bury")' => OwnsRespawn(w)')
      /\ ~Owes(w, "cas")'
  BY DEF Owes, TakesChain, TakesRespawn
<1>5. QED
  BY <1>1, <1>2, <1>3, <1>4 DEF OwnInv

(* What a worker's step leaves in its own task, and that it touches no     *)
(* other.                                                                  *)
LEMMA TaskFrame ==
  ASSUME TypeOK, NEW w \in Workers, NEW e, worker' = [worker EXCEPT ![w] = e]
  PROVE  worker'[w] = e /\ OnlyWorker(w)
BY DEF TypeOK, OnlyWorker

LEMMA LookFields ==
  ASSUME NEW t \in Tasks, NEW todo, NEW found, NEW pc, NEW npc
  PROVE  LET e == [t EXCEPT !.todo = todo, !.found = found, !.pc = pc, !.npc = npc]
         IN  e.pc = pc /\ e.npc = npc
BY DEF Tasks

LEMMA KillFields ==
  ASSUME NEW t \in Tasks, NEW todo, NEW npc, NEW slot
  PROVE  LET e == [t EXCEPT !.todo = todo, !.pc = "bury", !.npc = npc, !.slot = slot]
         IN  e.pc = "bury" /\ e.npc = npc /\ e.slot = slot
BY DEF Tasks

LEMMA CasFields ==
  ASSUME NEW t \in Tasks, NEW slot
  PROVE  /\ [t EXCEPT !.pc = "scan", !.npc = None].pc = "scan"
         /\ LET e == [t EXCEPT !.pc = "arm", !.slot = slot]
            IN  e.pc = "arm" /\ e.npc = t.npc /\ e.slot = slot
BY DEF Tasks

LEMMA ArmFields ==
  ASSUME NEW t \in Tasks, NEW pc
  PROVE  [t EXCEPT !.pc = pc, !.npc = None, !.slot = None].pc = pc
BY DEF Tasks

LEMMA OwnWorker ==
  ASSUME TypeOK, OwnInv, NEW w \in Workers, WorkerStep(w)
  PROVE  OwnInv'
<1> DEFINE t == worker[w]
<1>t. t \in Tasks
  BY DEF TypeOK
<1>1. ASSUME NEW n \in Npcs, ScanLook(w, n) PROVE OwnInv'
  <2> DEFINE wake == n \in inSight[t.who] /\ ~invisible[n]
             pc   == IF wake THEN "cas" ELSE "scan"
             npc  == IF wake THEN n ELSE None
  <2>1. PICK todo, found :
          worker' = [worker EXCEPT ![w] =
            [t EXCEPT !.todo = todo, !.found = found, !.pc = pc, !.npc = npc]]
    BY <1>1, Zenon DEF ScanLook
  <2>2. worker'[w] = [t EXCEPT !.todo = todo, !.found = found, !.pc = pc, !.npc = npc]
        /\ OnlyWorker(w)
    BY <2>1, TaskFrame, Zenon
  <2>3. pc = "scan" \/ (pc = "cas" /\ npc = n)
    OBVIOUS
  <2> HIDE DEF pc, npc
  <2>4. worker'[w].pc = pc /\ worker'[w].npc = npc
    BY <1>t, <2>2, LookFields
  <2>5. Settled(w)
    BY <2>3, <2>4 DEF Settled
  <2>6. ArmingStays
    BY <1>1 DEF ScanLook, ArmingStays
  <2>7. QED
    BY <2>2, <2>5, <2>6, KeepArming, OwnNothing
<1>2. ASSUME NEW n \in Npcs, AttackKill(w, n) PROVE OwnInv'
  <2>1. PICK k \in Kills :
          /\ respawn[n][k].at = "none"
          /\ SetRespawn(n, k, Event("arming", 0, FALSE))
          /\ worker' = [worker EXCEPT ![w] =
                          [t EXCEPT !.todo = @ \ {n}, !.pc = "bury", !.npc = n, !.slot = k]]
    BY <1>2 DEF AttackKill
  <2>2. worker'[w] = [t EXCEPT !.todo = t.todo \ {n}, !.pc = "bury", !.npc = n, !.slot = k]
        /\ OnlyWorker(w)
    BY <2>1 DEF TypeOK, OnlyWorker
  <2>3. worker'[w].pc = "bury" /\ worker'[w].npc = n /\ worker'[w].slot = k
    BY <1>t, <2>2, KillFields
  <2>4. respawn'[n][k].at = "arming" /\ ArmingStays
    BY <1>2, <2>1, RespawnFrame DEF ArmingStays, AttackKill, Event
  <2>5. TakesRespawn(w)
    BY <2>1, <2>3, <2>4 DEF TakesRespawn, OwnsRespawn
  <2>6. QED
    BY <2>2, <2>4, <2>5, OwnOne
<1>3. CASE WakeCas(w)
  <2>1. CASE worker' = [worker EXCEPT ![w] = [t EXCEPT !.pc = "scan", !.npc = None]]
             /\ UNCHANGED <<active, chain>>
    <3>1. ArmingStays
      BY <1>3, <2>1 DEF WakeCas, ArmingStays
    <3>2. worker'[w] = [t EXCEPT !.pc = "scan", !.npc = None] /\ OnlyWorker(w)
      BY <2>1 DEF TypeOK, OnlyWorker
    <3>3. Settled(w)
      BY <1>t, <3>2, CasFields DEF Settled
    <3>4. QED
      BY <3>1, <3>2, <3>3, KeepArming, OwnNothing
  <2>2. ASSUME NEW c \in Chains, ~Live(t.npc, c),
               SetChain(t.npc, c, Event("arming", 0, FALSE)),
               worker' = [worker EXCEPT ![w] = [t EXCEPT !.pc = "arm", !.slot = c]]
        PROVE  OwnInv'
    <3>1. t.npc \in Npcs
      BY <1>3 DEF WakeCas, OwnInv, Owes
    <3>2. worker'[w] = [t EXCEPT !.pc = "arm", !.slot = c] /\ OnlyWorker(w)
      BY <2>2 DEF TypeOK, OnlyWorker
    <3>3. worker'[w].pc = "arm" /\ worker'[w].npc = t.npc /\ worker'[w].slot = c
      BY <1>t, <3>2, CasFields
    <3>4. /\ chain'[t.npc][c] = Event("arming", 0, FALSE)
          /\ \A m \in Npcs, d \in Chains : m # t.npc \/ d # c => chain'[m][d] = chain[m][d]
      BY <2>2, <3>1, ChainFrame, Zenon
    <3>5. chain'[t.npc][c].at = "arming" /\ ArmingStays
      <4>1. respawn' = respawn
        BY <1>3 DEF WakeCas
      <4>2. chain'[t.npc][c].at = "arming"
        BY <3>4 DEF Event
      <4>3. QED
        BY <3>4, <4>1, <4>2 DEF ArmingStays
    <3>6. TakesChain(w)
      BY <2>2, <3>1, <3>3, <3>5 DEF TakesChain, OwnsChain, Live
    <3>7. QED
      BY <3>2, <3>5, <3>6, OwnOne
  <2>3. QED
    BY <1>3, <2>1, <2>2 DEF WakeCas
<1>4. CASE WakeArm(w)
  <2>1. OwnsChain(w) /\ \A v \in Workers \ {w} : Owes(v, "arm") => ~SameEvent(v, w)
    BY <1>4 DEF WakeArm, OwnInv, Owes
  <2>2. worker'[w] = [t EXCEPT !.pc = "scan", !.npc = None, !.slot = None] /\ OnlyWorker(w)
    BY <1>4 DEF WakeArm, TypeOK, OnlyWorker
  <2>3. Settled(w)
    BY <1>t, <2>2, ArmFields DEF Settled
  <2>4. \A m \in Npcs, d \in Chains :
          m # t.npc \/ d # t.slot => chain'[m][d] = chain[m][d]
    BY <1>4, <2>1, ChainFrame, Zenon DEF WakeArm, OwnsChain
  <2>5. OthersKeep(w)
    BY <1>4, <2>1, <2>4 DEF WakeArm, OwnInv, OthersKeep, OwnsChain, OwnsRespawn, SameEvent
  <2>6. QED
    BY <2>2, <2>3, <2>5, OwnNothing
<1>5. CASE AttackBury(w)
  <2>1. OwnsRespawn(w) /\ \A v \in Workers \ {w} : Owes(v, "bury") => ~SameEvent(v, w)
    BY <1>5 DEF AttackBury, OwnInv, Owes
  <2>2. worker'[w] = [t EXCEPT !.pc = "attack", !.npc = None, !.slot = None] /\ OnlyWorker(w)
    BY <1>5 DEF AttackBury, TypeOK, OnlyWorker
  <2>3. Settled(w)
    BY <1>t, <2>2, ArmFields DEF Settled
  <2>4. \A m \in Npcs, d \in Kills :
          m # t.npc \/ d # t.slot => respawn'[m][d] = respawn[m][d]
    BY <1>5, <2>1, RespawnFrame, Zenon DEF AttackBury, OwnsRespawn
  <2>5. OthersKeep(w)
    BY <1>5, <2>1, <2>4 DEF AttackBury, OwnInv, OthersKeep, OwnsChain, OwnsRespawn, SameEvent
  <2>6. QED
    BY <2>2, <2>3, <2>5, OwnNothing
<1>6. CASE ScanEnd(w) \/ AttackEnd(w)
  <2>1. ArmingStays
    BY <1>6 DEF ScanEnd, AttackEnd, ArmingStays
  <2>2. worker'[w] = Idle /\ OnlyWorker(w)
    BY <1>6 DEF ScanEnd, AttackEnd, TypeOK, OnlyWorker
  <2>3. Settled(w)
    BY <2>2 DEF Idle, Task, Settled
  <2>4. QED
    BY <2>1, <2>2, <2>3, KeepArming, OwnNothing
<1>7. QED
  BY <1>1, <1>2, <1>3, <1>4, <1>5, <1>6 DEF WorkerStep

(* A packet makes an idle worker start a scan or an attack. *)
LEMMA PacketFrame ==
  ASSUME TypeOK, NEW w \in Workers, PacketStep(w)
  PROVE  /\ Settled(w) /\ OnlyWorker(w) /\ ArmingStays
         /\ UNCHANGED <<active, invisible, chain, respawn, cleared>>
BY DEF PacketStep, Login, Move, Teleport, Death, Attack, StartScan, Task, TypeOK,
       Settled, OnlyWorker, ArmingStays

(* What the workers own, they keep until they queue it. *)
LEMMA OwnStep == TypeOK /\ OwnInv /\ [Next]_vars => OwnInv'
<1> SUFFICES ASSUME TypeOK, OwnInv, [Next]_vars PROVE OwnInv'
  OBVIOUS
<1>1. ASSUME NEW w \in Workers, PacketStep(w) PROVE OwnInv'
  BY <1>1, PacketFrame, KeepArming, OwnNothing
<1>2. ASSUME NEW w \in Workers, WorkerStep(w) PROVE OwnInv'
  BY <1>2, OwnWorker
<1>3. ASSUME NEW p \in Players, Disconnect(p) PROVE OwnInv'
  BY <1>3, OwnFrame DEF Disconnect, ArmingStays
<1>4. ASSUME NEW n \in Npcs, NEW c \in Chains, ChainStep(n, c) PROVE OwnInv'
  BY <1>4, ChainArming, OwnFrame
<1>5. ASSUME NEW n \in Npcs, NEW k \in Kills, RespawnStep(n, k) PROVE OwnInv'
  BY <1>5, RespawnArming, OwnFrame
<1>6. CASE Tick
  <2>1. ArmingStays
    BY <1>6, TickPlaces DEF ArmingStays
  <2>2. QED
    BY <1>6, <2>1, OwnFrame DEF Tick
<1>7. CASE UNCHANGED vars
  BY <1>7, OwnFrame DEF vars, ArmingStays
<1>8. QED
  BY <1>1, <1>2, <1>3, <1>4, <1>5, <1>6, <1>7 DEF Next

-----------------------------------------------------------------------------
(* What a step does to the chains of a monster and to _active: a chain     *)
(* that ends clears _active, the others stay live or not as they were.     *)
SameChains == /\ active' = active /\ cleared' = cleared
              /\ \A n \in Npcs, c \in Chains : Live(n, c)' <=> Live(n, c)
StartsChain(n, c) ==
  /\ ~active[n] /\ active' = [active EXCEPT ![n] = TRUE] /\ cleared' = cleared
  /\ \A m \in Npcs, d \in Chains : Live(m, d)' <=> Live(m, d) \/ (m = n /\ d = c)
EndsChain(n, c) ==
  /\ Live(n, c) /\ active' = [active EXCEPT ![n] = FALSE]
  /\ cleared' = [cleared EXCEPT ![n] = cleared[n] /\ ~LastChain(n, c)]
  /\ \A m \in Npcs, d \in Chains : Live(m, d)' <=> Live(m, d) /\ ~(m = n /\ d = c)
ClearsActive(n) ==
  /\ active' = [active EXCEPT ![n] = FALSE]
  /\ cleared' = [cleared EXCEPT ![n] = cleared[n] \/ \E c \in Chains : Live(n, c)]
  /\ \A m \in Npcs, d \in Chains : Live(m, d)' <=> Live(m, d)

ChainEffect ==
  \/ SameChains
  \/ \E n \in Npcs : ClearsActive(n)
  \/ \E n \in Npcs, c \in Chains : StartsChain(n, c) \/ EndsChain(n, c)

LEMMA ChainStepEffect ==
  ASSUME TypeOK, NEW n \in Npcs, NEW c \in Chains, ChainStep(n, c)
  PROVE  SameChains \/ EndsChain(n, c)
<1>1. Live(n, c)
  BY DEF ChainStep, TimerPop, TimerAct, MoveCheck, MoveRun, Due, Live
<1>2. ASSUME NEW e, e.at # "none", SetChain(n, c, e), active' = active, cleared' = cleared
      PROVE  SameChains
  BY <1>1, <1>2, ChainFrame DEF SameChains, Live
<1>3. ASSUME EndChain(n, c) PROVE EndsChain(n, c)
  <2>1. /\ chain'[n][c] = NoEvent
        /\ \A m \in Npcs, d \in Chains : m # n \/ d # c => chain'[m][d] = chain[m][d]
    BY <1>3, ChainFrame, Zenon DEF EndChain
  <2>2. QED
    BY <1>1, <1>3, <2>1 DEF EndChain, EndsChain, Live, NoEvent, Event
<1>4. \A at, yes : Event(at, 0, yes).at = at
  BY DEF Event
<1>5. CASE TimerPop(n, c)
  BY <1>2, <1>4, <1>5 DEF TimerPop
<1>6. CASE TimerAct(n, c)
  BY <1>2, <1>3, <1>4, <1>6 DEF TimerAct
<1>7. CASE MoveCheck(n, c)
  BY <1>2, <1>4, <1>7 DEF MoveCheck
<1>8. CASE MoveRun(n, c)
  <2>1. Armed(MoveDelay).at = "queued"
    BY DEF Armed, Event
  <2>2. QED
    BY <1>2, <1>3, <1>8, <2>1 DEF MoveRun
<1>9. QED
  BY <1>5, <1>6, <1>7, <1>8 DEF ChainStep

LEMMA WorkerStepEffect ==
  ASSUME TypeOK, OwnInv, NEW w \in Workers, WorkerStep(w)
  PROVE  ChainEffect
<1> DEFINE t == worker[w]
<1>1. CASE UNCHANGED <<active, chain, cleared>>
  BY <1>1 DEF ChainEffect, SameChains, Live
<1>2. CASE WakeCas(w)
  <2>1. t.npc \in Npcs
    BY <1>2 DEF WakeCas, OwnInv, Owes
  <2>2. CASE UNCHANGED <<active, chain>>
    BY <1>1, <1>2, <2>2 DEF WakeCas
  <2>3. ASSUME NEW c \in Chains, ~Live(t.npc, c), ~active[t.npc],
               active' = [active EXCEPT ![t.npc] = TRUE],
               SetChain(t.npc, c, Event("arming", 0, FALSE))
        PROVE  StartsChain(t.npc, c)
    <3>1. /\ chain'[t.npc][c] = Event("arming", 0, FALSE)
          /\ \A m \in Npcs, d \in Chains : m # t.npc \/ d # c => chain'[m][d] = chain[m][d]
      BY <2>1, <2>3, ChainFrame, Zenon
    <3>2. chain'[t.npc][c].at # "none"
      BY <3>1 DEF Event
    <3>3. cleared' = cleared
      BY <1>2 DEF WakeCas
    <3>4. QED
      BY <2>3, <3>1, <3>2, <3>3 DEF StartsChain, Live
  <2>4. QED
    BY <1>2, <2>1, <2>2, <2>3 DEF WakeCas, ChainEffect
<1>3. CASE WakeArm(w)
  <2>1. OwnsChain(w)
    BY <1>3 DEF WakeArm, OwnInv, Owes
  <2>2. /\ chain'[t.npc][t.slot] = Armed(MoveDelay)
        /\ \A m \in Npcs, d \in Chains : m # t.npc \/ d # t.slot => chain'[m][d] = chain[m][d]
    BY <1>3, <2>1, ChainFrame, Zenon DEF WakeArm, OwnsChain
  <2>3. chain'[t.npc][t.slot].at # "none" /\ chain[t.npc][t.slot].at # "none"
    BY <2>1, <2>2 DEF Armed, Event, OwnsChain
  <2>4. active' = active /\ cleared' = cleared
    BY <1>3 DEF WakeArm
  <2>5. QED
    BY <2>2, <2>3, <2>4 DEF ChainEffect, SameChains, Live
<1>4. QED
  BY <1>1, <1>2, <1>3 DEF WorkerStep, ScanLook, AttackKill, AttackBury, ScanEnd, AttackEnd

LEMMA StepEffect == TypeOK /\ OwnInv /\ [Next]_vars => ChainEffect
<1> SUFFICES ASSUME TypeOK, OwnInv, [Next]_vars PROVE ChainEffect
  OBVIOUS
<1>1. CASE UNCHANGED <<active, chain, cleared>>
  BY <1>1 DEF ChainEffect, SameChains, Live
<1>2. ASSUME NEW w \in Workers, PacketStep(w) PROVE ChainEffect
  BY <1>1, <1>2, PacketFrame
<1>3. ASSUME NEW w \in Workers, WorkerStep(w) PROVE ChainEffect
  BY <1>3, WorkerStepEffect
<1>4. ASSUME NEW n \in Npcs, NEW c \in Chains, ChainStep(n, c) PROVE ChainEffect
  BY <1>4, ChainStepEffect DEF ChainEffect
<1>5. ASSUME NEW n \in Npcs, NEW k \in Kills, RespawnStep(n, k) PROVE ChainEffect
  <2>1. CASE RespawnPop(n, k) \/ Regen(n, k)
    BY <1>1, <2>1 DEF RespawnPop, Regen
  <2>2. CASE RespawnAct(n, k)
    BY <1>1, <2>2 DEF RespawnAct, ChainEffect, ClearsActive, Live
  <2>3. QED
    BY <1>5, <2>1, <2>2 DEF RespawnStep
<1>6. CASE Tick
  BY <1>6, TickPlaces DEF ChainEffect, SameChains, Live, Tick
<1>7. QED
  BY <1>1, <1>2, <1>3, <1>4, <1>5, <1>6 DEF Next, Disconnect, vars

(* NeverStuck is kept by every effect. *)
LEMMA NeverStuckStep ==
  TypeOK /\ ChainEffect /\ NeverStuck => NeverStuck'
BY DEF TypeOK, ChainEffect, SameChains, ClearsActive, StartsChain, EndsChain, NeverStuck

(* OneChainUnlessCleared is kept by every effect. *)
LEMMA OneChainStep ==
  TypeOK /\ ChainEffect /\ OneChainUnlessCleared => OneChainUnlessCleared'
<1> SUFFICES ASSUME TypeOK, ChainEffect, OneChainUnlessCleared,
                    NEW m \in Npcs, ~cleared'[m], NEW d \in Chains, Live(m, d)'
             PROVE  active'[m] /\ LastChain(m, d)'
  BY DEF OneChainUnlessCleared
<1>1. CASE SameChains
  BY <1>1 DEF SameChains, OneChainUnlessCleared, LastChain
<1>2. ASSUME NEW n \in Npcs, ClearsActive(n) PROVE active'[m] /\ LastChain(m, d)'
  BY <1>2 DEF ClearsActive, OneChainUnlessCleared, LastChain, TypeOK
<1>3. ASSUME NEW n \in Npcs, NEW c \in Chains, StartsChain(n, c)
      PROVE  active'[m] /\ LastChain(m, d)'
  BY <1>3 DEF StartsChain, OneChainUnlessCleared, LastChain, TypeOK
<1>4. ASSUME NEW n \in Npcs, NEW c \in Chains, EndsChain(n, c)
      PROVE  active'[m] /\ LastChain(m, d)'
  BY <1>4 DEF EndsChain, OneChainUnlessCleared, LastChain, TypeOK
<1>5. QED
  BY <1>1, <1>2, <1>3, <1>4 DEF ChainEffect

(* DeadWillRespawn: the pending respawns of a monster only leave "arming"  *)
(* or "queued" by queueing it or by making the monster visible.            *)
Pending(n, k) == respawn[n][k].at \in {"arming", "queued"}

LEMMA DeadFrame ==
  ASSUME DeadWillRespawn,
         \A n \in Npcs : invisible'[n] => invisible[n],
         \A n \in Npcs, k \in Kills : Pending(n, k) => Pending(n, k)'
  PROVE  DeadWillRespawn'
BY DEF DeadWillRespawn, Pending

LEMMA DeadStep == TypeOK /\ OwnInv /\ DeadWillRespawn /\ [Next]_vars => DeadWillRespawn'
<1> SUFFICES ASSUME TypeOK, OwnInv, DeadWillRespawn, [Next]_vars PROVE DeadWillRespawn'
  OBVIOUS
<1>1. CASE UNCHANGED <<invisible, respawn>>
  BY <1>1, DeadFrame DEF Pending
<1>2. ASSUME NEW w \in Workers, PacketStep(w) PROVE DeadWillRespawn'
  BY <1>1, <1>2, PacketFrame
<1>3. ASSUME NEW w \in Workers, NEW n \in Npcs, AttackKill(w, n) PROVE DeadWillRespawn'
  <2>1. PICK k \in Kills : SetRespawn(n, k, Event("arming", 0, FALSE))
    BY <1>3 DEF AttackKill
  <2>a. respawn'[n][k] = Event("arming", 0, FALSE)
    BY <2>1 DEF SetRespawn, TypeOK
  <2>2. respawn'[n][k].at = "arming"
    BY <2>a DEF Event
  <2>3. \A m \in Npcs \ {n} : respawn'[m] = respawn[m] /\ invisible'[m] = invisible[m]
    BY <1>3, <2>1 DEF AttackKill, SetRespawn, TypeOK
  <2>4. QED
    BY <2>2, <2>3 DEF DeadWillRespawn
<1>4. ASSUME NEW w \in Workers, AttackBury(w) PROVE DeadWillRespawn'
  <2> DEFINE t == worker[w]
  <2>1. OwnsRespawn(w)
    BY <1>4 DEF AttackBury, OwnInv, Owes
  <2>2. /\ respawn'[t.npc][t.slot] = Armed(RespawnDelay)
        /\ \A m \in Npcs, d \in Kills : m # t.npc \/ d # t.slot => respawn'[m][d] = respawn[m][d]
    BY <1>4, <2>1, RespawnFrame, Zenon DEF AttackBury, OwnsRespawn
  <2>3. respawn'[t.npc][t.slot].at = "queued"
    BY <2>2 DEF Armed, Event
  <2>4. invisible' = invisible
    BY <1>4 DEF AttackBury
  <2>5. QED
    BY <2>2, <2>3, <2>4, DeadFrame DEF Pending
<1>5. ASSUME NEW n \in Npcs, NEW k \in Kills, RespawnPop(n, k) PROVE DeadWillRespawn'
  <2>1. \A m \in Npcs \ {n} : respawn'[m] = respawn[m] /\ invisible'[m] = invisible[m]
    BY <1>5 DEF RespawnPop, SetRespawn, TypeOK
  <2>2. ~invisible'[n]
    BY <1>5 DEF RespawnPop, TypeOK
  <2>3. QED
    BY <2>1, <2>2 DEF DeadWillRespawn
<1>6. ASSUME NEW n \in Npcs, NEW k \in Kills, RespawnAct(n, k) \/ Regen(n, k)
      PROVE  DeadWillRespawn'
  <2>1. PICK e : SetRespawn(n, k, e)
    BY <1>6 DEF RespawnAct, Regen
  <2>2. ~Pending(n, k) /\ invisible' = invisible
    BY <1>6 DEF RespawnAct, Regen, Pending
  <2>3. \A m \in Npcs, d \in Kills : Pending(m, d) => Pending(m, d)'
    BY <2>1, <2>2, RespawnFrame DEF Pending
  <2>4. QED
    BY <2>2, <2>3, DeadFrame
<1>7. CASE Tick
  BY <1>7, TickPlaces, DeadFrame DEF Tick, Pending
<1>8. QED
  BY <1>1, <1>2, <1>3, <1>4, <1>5, <1>6, <1>7
     DEF Next, WorkerStep, ChainStep, RespawnStep, Disconnect, vars, ScanLook, WakeCas,
         WakeArm, ScanEnd, AttackEnd, TimerPop, TimerAct, MoveCheck, MoveRun

-----------------------------------------------------------------------------
(* The invariant all the parts of which support one another. *)
THEOREM Invariance == Spec => []IInv
<1>1. Init => IInv
  <2> SUFFICES ASSUME Init PROVE IInv
    OBVIOUS
  <2>1. TypeOK
    BY EventTypes DEF Init, TypeOK, Idle, Task, Tasks
  <2>2. OwnInv
    BY DEF Init, OwnInv, Owes, Idle, Task
  <2>3. NeverStuck /\ OneChainUnlessCleared /\ DeadWillRespawn
    BY DEF Init, NeverStuck, OneChainUnlessCleared, DeadWillRespawn, Live, NoEvent, Event
  <2>4. QED
    BY <2>1, <2>2, <2>3 DEF IInv
<1>2. IInv /\ [Next]_vars => IInv'
  BY StepTypes, OwnStep, StepEffect, NeverStuckStep, OneChainStep, DeadStep DEF IInv
<1>3. QED
  BY <1>1, <1>2, PTL DEF Spec

(* A monster marked _active always has a chain: no scan's skipping it      *)
(* leaves it asleep for ever, whatever the number of threads and sessions. *)
THEOREM NeverStuckHolds == Spec => []NeverStuck
BY Invariance, PTL DEF IInv

(* Only a respawn that stores _active = false under a live chain can lead  *)
(* to a second chain of a monster.                                         *)
THEOREM OneChainUnlessClearedHolds == Spec => []OneChainUnlessCleared
BY Invariance, PTL DEF IInv

(* A dead monster always has a respawn on the way. *)
THEOREM DeadWillRespawnHolds == Spec => []DeadWillRespawn
BY Invariance, PTL DEF IInv

-----------------------------------------------------------------------------
(* NpcTiming.                                                              *)

(* The moves a chain has before it, counted as ticks: it will be armed     *)
(* again only if its worker has seen the monster alive.                    *)
Slack(e) ==
  CASE e.at = "queued" -> e.left
    [] e.at = "arming" \/ (e.at = "running" /\ e.yes) -> MoveDelay
    [] OTHER -> 0

(* Some respawn of n was armed so late that s ticks from now are still     *)
(* within a move period of it.                                             *)
Covers(e, s) == e.at = "arming" \/ (e.at = "queued" /\ e.left + MoveDelay >= RespawnDelay + s)
Covered(n, s) == \E k \in Kills : Covers(respawn[n][k], s)

(* As long as the server keeps up, every chain of a dead monster, and      *)
(* every scan that is about to start one, goes back to before its last     *)
(* kill.                                                                   *)
CoverAt(n) ==
  /\ \A c \in Chains : Live(n, c) => Covered(n, Slack(chain[n][c]))
  /\ \A w \in Workers : worker[w].pc = "cas" /\ worker[w].npc = n => Covered(n, MoveDelay)

DeadCovered == \A n \in Npcs : invisible[n] => CoverAt(n)
CoverInv    == ~late => DeadCovered

-----------------------------------------------------------------------------
USE NoneAssumption, DelayAssumption

LEMMA EventFields ==
  /\ NoEvent.at = "none"
  /\ Event("arming", 0, FALSE).at = "arming" /\ Event("posted", 0, FALSE).at = "posted"
  /\ \A yes : Event("popped", 0, yes).at = "popped"
  /\ \A yes : Event("running", 0, yes).at = "running" /\ Event("running", 0, yes).yes = yes
  /\ \A d : Armed(d).at = "queued" /\ Armed(d).left = d
BY DEF Event, NoEvent, Armed

LEMMA SlackOf ==
  ASSUME NEW e
  PROVE  /\ e.at = "queued" => Slack(e) = e.left
         /\ e.at = "arming" => Slack(e) = MoveDelay
         /\ e.at = "running" /\ e.yes => Slack(e) = MoveDelay
         /\ e.at = "running" /\ ~e.yes => Slack(e) = 0
         /\ e.at \in {"none", "popped", "posted"} => Slack(e) = 0
<1>1. e.at = "queued" => Slack(e) = e.left
  BY DEF Slack
<1>2. e.at = "arming" \/ (e.at = "running" /\ e.yes) => Slack(e) = MoveDelay
  BY DEF Slack
<1>3. e.at = "running" /\ ~e.yes => Slack(e) = 0
  BY DEF Slack
<1>4. e.at \in {"none", "popped", "posted"} => Slack(e) = 0
  BY DEF Slack
<1>5. QED
  BY <1>1, <1>2, <1>3, <1>4

LEMMA SlackArmed ==
  Slack(Armed(MoveDelay)) = MoveDelay /\ Slack(Event("arming", 0, FALSE)) = MoveDelay
<1>1. Armed(MoveDelay).at = "queued" /\ Armed(MoveDelay).left = MoveDelay
  BY EventFields
<1>2. Slack(Armed(MoveDelay)) = MoveDelay
  BY <1>1, SlackOf
<1>3. Event("arming", 0, FALSE).at = "arming"
  BY EventFields
<1>4. Slack(Event("arming", 0, FALSE)) = MoveDelay
  BY <1>3, SlackOf
<1>5. QED
  BY <1>2, <1>4

LEMMA SlackType ==
  ASSUME NEW e \in Events(MoveDelay) PROVE Slack(e) \in 0..MoveDelay
BY DEF Slack, Events

LEMMA EventTypesOf ==
  ASSUME TypeOK, NEW n \in Npcs
  PROVE  /\ \A c \in Chains : chain[n][c] \in Events(MoveDelay)
         /\ \A k \in Kills : respawn[n][k] \in Events(RespawnDelay)
BY DEF TypeOK

(* The more a respawn covers, the less it covers too. *)
LEMMA CoversLess ==
  ASSUME NEW e \in Events(RespawnDelay), NEW s \in Nat, NEW r \in Nat, r <= s, Covers(e, s)
  PROVE  Covers(e, r)
BY DEF Covers, Events

(* A respawn that is on its way to be shown covers nothing, so a step that  *)
(* takes it further changes nothing.                                        *)
SameCover(n) == \A s \in 0..MoveDelay : Covered(n, s) => Covered(n, s)'

LEMMA RespawnsSame ==
  ASSUME NEW n \in Npcs, respawn' = respawn PROVE SameCover(n)
BY DEF SameCover, Covered

(* A step that keeps what covers the chains of n, starts none of them,      *)
(* gives none a longer life and has no worker win n.                        *)
LEMMA CoverKept ==
  ASSUME TypeOK, NEW n \in Npcs, CoverAt(n), SameCover(n),
         \A c \in Chains : Live(n, c)' =>
            Live(n, c) /\ Slack(chain'[n][c]) \in 0..MoveDelay /\ Slack(chain'[n][c]) <= Slack(chain[n][c]),
         \A w \in Workers : worker'[w].pc = "cas" /\ worker'[w].npc = n =>
            worker[w].pc = "cas" /\ worker[w].npc = n
  PROVE  CoverAt(n)'
<1>1. ASSUME NEW c \in Chains, Live(n, c)' PROVE Covered(n, Slack(chain[n][c]))'
  <2>1. /\ Live(n, c) /\ Slack(chain'[n][c]) \in 0..MoveDelay
        /\ Slack(chain'[n][c]) <= Slack(chain[n][c])
    BY <1>1
  <2>2. Slack(chain[n][c]) \in 0..MoveDelay
    BY EventTypesOf, SlackType
  <2>3. PICK k \in Kills : Covers(respawn[n][k], Slack(chain[n][c]))
    BY <2>1 DEF CoverAt, Covered
  <2>4. Covers(respawn[n][k], Slack(chain'[n][c]))
    BY <2>1, <2>2, <2>3, EventTypesOf, CoversLess
  <2>5. Covered(n, Slack(chain'[n][c]))
    BY <2>4 DEF Covered
  <2>6. QED
    BY <2>1, <2>5 DEF SameCover, Covered
<1>2. ASSUME NEW w \in Workers, worker'[w].pc = "cas", worker'[w].npc = n PROVE Covered(n, MoveDelay)'
  BY <1>2 DEF CoverAt, SameCover
<1>3. QED
  BY <1>1, <1>2 DEF CoverAt
(* A step after which a respawn of n is as fresh as can be. *)
LEMMA CoverAny ==
  ASSUME TypeOK', NEW n \in Npcs, \A s \in 0..MoveDelay : Covered(n, s)'
  PROVE  CoverAt(n)'
<1>1. \A c \in Chains : Slack(chain'[n][c]) \in 0..MoveDelay
  BY SlackType DEF TypeOK
<1>2. QED
  BY <1>1 DEF CoverAt, Covered

(* The steps that start no chain and touch no respawn. *)
LEMMA WorkerCover ==
  ASSUME TypeOK, DeadCovered, NEW n \in Npcs, invisible[n],
         chain' = chain, respawn' = respawn,
         \A w \in Workers : worker'[w].pc = "cas" /\ worker'[w].npc = n =>
            worker[w].pc = "cas" /\ worker[w].npc = n
  PROVE  CoverAt(n)'
<1>1. CoverAt(n)
  BY DEF DeadCovered
<1>2. \A c \in Chains : Live(n, c)' =>
         Live(n, c) /\ Slack(chain'[n][c]) \in 0..MoveDelay /\ Slack(chain'[n][c]) <= Slack(chain[n][c])
  BY EventTypesOf, SlackType DEF Live
<1>3. QED
  BY <1>1, <1>2, RespawnsSame, CoverKept

(* The steps of one chain. *)
LEMMA ChainCover ==
  ASSUME TypeOK, DeadCovered, NEW m \in Npcs, NEW c \in Chains, ChainStep(m, c),
         NEW n \in Npcs, invisible'[n]
  PROVE  CoverAt(n)'
<1>1. invisible' = invisible /\ worker' = worker /\ respawn' = respawn
  BY DEF ChainStep, TimerPop, TimerAct, MoveCheck, MoveRun
<1>2. CoverAt(n) /\ SameCover(n)
  BY <1>1, RespawnsSame DEF DeadCovered
<1>3. chain[m][c] \in Events(MoveDelay) /\ Slack(chain[m][c]) \in 0..MoveDelay
  BY EventTypesOf, SlackType
<1>4. ASSUME NEW e, SetChain(m, c, e),
             e.at = "none" \/ (m = n => Slack(e) \in 0..MoveDelay /\ Slack(e) <= Slack(chain[m][c])),
             Live(m, c)
      PROVE  CoverAt(n)'
  <2>1. /\ chain'[m][c] = e
        /\ \A a \in Npcs, d \in Chains : a # m \/ d # c => chain'[a][d] = chain[a][d]
    BY <1>4, ChainFrame
  <2>2. ASSUME NEW d \in Chains, Live(n, d)'
        PROVE  Live(n, d) /\ Slack(chain'[n][d]) \in 0..MoveDelay /\ Slack(chain'[n][d]) <= Slack(chain[n][d])
    <3>1. CASE n = m /\ d = c
      BY <1>4, <2>1, <2>2, <3>1 DEF Live
    <3>2. CASE n # m \/ d # c
      BY <2>1, <2>2, <3>2, EventTypesOf, SlackType DEF Live
    <3>3. QED
      BY <3>1, <3>2
  <2>3. QED
    BY <1>1, <1>2, <2>2, CoverKept
<1>5. ASSUME EndChain(m, c), Live(m, c) PROVE CoverAt(n)'
  <2>1. NoEvent.at = "none" /\ SetChain(m, c, NoEvent)
    BY <1>5, EventFields DEF EndChain
  <2>2. QED
    BY <1>4, <1>5, <2>1
<1>6. CASE TimerPop(m, c)
  <2> DEFINE e == Event("popped", 0, player_exist(m))
  <2>1. e.at = "popped" /\ Slack(e) = 0 /\ SetChain(m, c, e)
    BY <1>6, EventFields, SlackOf DEF TimerPop
  <2>2. Live(m, c)
    BY <1>6 DEF TimerPop, Due, Live
  <2> HIDE DEF e
  <2>3. QED
    BY <1>3, <1>4, <2>1, <2>2
<1>7. CASE TimerAct(m, c)
  <2>1. Live(m, c)
    BY <1>7 DEF TimerAct, Live
  <2> DEFINE e == Event("posted", 0, FALSE)
  <2>2. e.at = "posted"
    BY EventFields
  <2>5. Slack(e) = 0
    BY <2>2, SlackOf
  <2>3. SetChain(m, c, e) \/ EndChain(m, c)
    BY <1>7 DEF TimerAct
  <2> HIDE DEF e
  <2>4. QED
    BY <1>3, <1>4, <1>5, <2>1, <2>3, <2>5
<1>8. CASE MoveCheck(m, c)
  <2> DEFINE e == Event("running", 0, player_exist(m) /\ ~invisible[m])
  <2>1. SetChain(m, c, e) /\ Live(m, c)
    BY <1>8 DEF MoveCheck, Live
  <2>2. m = n => e.at = "running" /\ ~e.yes
    <3>1. e.at = "running" /\ e.yes = (player_exist(m) /\ ~invisible[m])
      BY EventFields, Zenon
    <3>2. QED
      BY <1>1, <3>1, Zenon
  <2> HIDE DEF e
  <2>3. m = n => Slack(e) = 0
    BY <2>2, SlackOf
  <2>4. QED
    BY <1>3, <1>4, <2>1, <2>3
<1>9. CASE MoveRun(m, c)
  <2>1. Live(m, c)
    BY <1>9 DEF MoveRun, Live
  <2>2. CASE chain[m][c].yes
    <3>1. SetChain(m, c, Armed(MoveDelay))
      BY <1>9, <2>2 DEF MoveRun
    <3>2. Slack(Armed(MoveDelay)) = MoveDelay
      BY SlackArmed
    <3>3. Slack(chain[m][c]) = MoveDelay
      BY <1>9, <2>2, SlackOf DEF MoveRun
    <3>4. QED
      BY <1>4, <2>1, <3>1, <3>2, <3>3
  <2>3. CASE ~chain[m][c].yes
    BY <1>5, <1>9, <2>1, <2>3 DEF MoveRun
  <2>4. QED
    BY <2>2, <2>3
<1>10. QED
  BY <1>6, <1>7, <1>8, <1>9 DEF ChainStep

(* The steps of one respawn: it is due, or past the queue, and covers none. *)
LEMMA RespawnCover ==
  ASSUME TypeOK, DeadCovered, NEW m \in Npcs, NEW k \in Kills, RespawnStep(m, k),
         NEW n \in Npcs, invisible'[n]
  PROVE  CoverAt(n)'
<1>1. chain' = chain /\ worker' = worker
  BY DEF RespawnStep, RespawnPop, RespawnAct, Regen
<1>2. \E e : SetRespawn(m, k, e)
  BY DEF RespawnStep, RespawnPop, RespawnAct, Regen
<1>3. \A a \in Npcs, d \in Kills : a # m \/ d # k => respawn'[a][d] = respawn[a][d]
  BY <1>2, RespawnFrame
<1>4. invisible[n] /\ (n = m => respawn[m][k].at \in {"popped", "posted"})
  <2>1. CASE RespawnPop(m, k)
    BY <2>1 DEF RespawnPop, TypeOK
  <2>2. CASE RespawnAct(m, k) \/ Regen(m, k)
    BY <2>2 DEF RespawnAct, Regen
  <2>3. QED
    BY <2>1, <2>2 DEF RespawnStep
<1>5. SameCover(n)
  BY <1>3, <1>4 DEF SameCover, Covered, Covers
<1>6. \A c \in Chains : Live(n, c)' =>
         Live(n, c) /\ Slack(chain'[n][c]) \in 0..MoveDelay /\ Slack(chain'[n][c]) <= Slack(chain[n][c])
  BY <1>1, EventTypesOf, SlackType DEF Live
<1>7. QED
  BY <1>1, <1>4, <1>5, <1>6, CoverKept DEF DeadCovered

(* Time passes for all alike, where nothing is due. *)
LEMMA TickCover ==
  ASSUME TypeOK, DeadCovered, Tick, CaughtUp, NEW n \in Npcs, invisible'[n]
  PROVE  CoverAt(n)'
<1>1. /\ \A c \in Chains : chain'[n][c] = Age(chain[n][c])
      /\ \A k \in Kills : respawn'[n][k] = Age(respawn[n][k])
      /\ invisible' = invisible /\ worker' = worker
  BY DEF Tick
<1>2. CoverAt(n)
  BY <1>1 DEF DeadCovered
<1>3. ASSUME NEW delay \in Nat, NEW e \in Events(delay), Waiting(e)
      PROVE  Age(e).at = "queued" /\ Age(e).left = e.left - 1 /\ e.at = "queued" /\ e.left \in Nat \ {0}
  BY <1>3 DEF Age, Waiting, Events
<1>4. ASSUME NEW c \in Chains, Live(n, c)' PROVE Covered(n, Slack(chain[n][c]))'
  <2>1. Live(n, c)
    BY <1>1, <1>4, EventTypesOf DEF Live, Age, Waiting
  <2>2. Waiting(chain[n][c])
    BY <2>1 DEF CaughtUp
  <2>3. /\ Slack(chain[n][c]) = chain[n][c].left /\ Slack(chain'[n][c]) = chain[n][c].left - 1
        /\ chain[n][c].left \in Nat \ {0}
    BY <1>1, <1>3, <2>2, EventTypesOf, SlackOf
  <2>4. PICK k \in Kills : Covers(respawn[n][k], chain[n][c].left)
    BY <1>2, <2>1, <2>3 DEF CoverAt, Covered
  <2>5. Waiting(respawn[n][k])
    BY <2>4 DEF Covers, CaughtUp
  <2>6. Covers(respawn'[n][k], chain[n][c].left - 1)
    BY <1>1, <1>3, <2>3, <2>4, <2>5, EventTypesOf DEF Covers
  <2>7. QED
    BY <2>3, <2>6 DEF Covered
<1>5. \A w \in Workers : worker'[w].pc # "cas"
  BY <1>1 DEF CaughtUp
<1>6. QED
  BY <1>4, <1>5 DEF CoverAt

(* The steps of a worker that handles a player. *)
LEMMA StepCover ==
  ASSUME TypeOK, TypeOK', OwnInv, DeadCovered, NEW w \in Workers, WorkerStep(w),
         NEW n \in Npcs, invisible'[n]
  PROVE  CoverAt(n)'
<1> DEFINE t == worker[w]
<1>t. t \in Tasks
  BY DEF TypeOK
<1>f. ASSUME NEW e, worker' = [worker EXCEPT ![w] = e], e.pc = "cas" => e.npc # n
      PROVE  \A v \in Workers : worker'[v].pc = "cas" /\ worker'[v].npc = n =>
                worker[v].pc = "cas" /\ worker[v].npc = n
  BY <1>f DEF TypeOK
<1>1. ASSUME NEW m \in Npcs, ScanLook(w, m) PROVE CoverAt(n)'
  <2> DEFINE wake == m \in inSight[t.who] /\ ~invisible[m]
             pc   == IF wake THEN "cas" ELSE "scan"
             npc  == IF wake THEN m ELSE None
  <2>1. PICK todo, found :
          worker' = [worker EXCEPT ![w] =
             [t EXCEPT !.todo = todo, !.found = found, !.pc = pc, !.npc = npc]]
    BY <1>1, Zenon DEF ScanLook
  <2> DEFINE e == [t EXCEPT !.todo = todo, !.found = found, !.pc = pc, !.npc = npc]
  <2>2. e.pc = pc /\ e.npc = npc
    BY <1>t, LookFields
  <2>3. invisible[n] /\ chain' = chain /\ respawn' = respawn
    BY <1>1 DEF ScanLook
  <2>4. e.pc = "cas" => e.npc # n
    BY <2>2, <2>3
  <2> HIDE DEF e
  <2>5. worker' = [worker EXCEPT ![w] = e]
    BY <2>1 DEF e
  <2>6. QED
    BY <1>f, <2>3, <2>4, <2>5, WorkerCover
<1>2. ASSUME NEW m \in Npcs, AttackKill(w, m) PROVE CoverAt(n)'
  <2>1. PICK k \in Kills :
          /\ SetRespawn(m, k, Event("arming", 0, FALSE))
          /\ worker' = [worker EXCEPT ![w] =
               [t EXCEPT !.todo = t.todo \ {m}, !.pc = "bury", !.npc = m, !.slot = k]]
    BY <1>2, Zenon DEF AttackKill
  <2>2. /\ respawn'[m][k].at = "arming"
        /\ \A a \in Npcs, d \in Kills : a # m \/ d # k => respawn'[a][d] = respawn[a][d]
    <3>1. /\ respawn'[m][k] = Event("arming", 0, FALSE)
          /\ \A a \in Npcs, d \in Kills : a # m \/ d # k => respawn'[a][d] = respawn[a][d]
      BY <2>1, RespawnFrame
    <3>2. QED
      BY <3>1, EventFields
  <2>3. CASE n = m
    <3>1. \A s \in 0..MoveDelay : Covered(n, s)'
      BY <2>2, <2>3 DEF Covered, Covers
    <3>2. QED
      BY <3>1, CoverAny
  <2>4. CASE n # m
    <3>1. invisible[n] /\ chain' = chain
      BY <1>2, <2>4 DEF AttackKill, TypeOK
    <3>2. SameCover(n)
      BY <2>2, <2>4 DEF SameCover, Covered
    <3> DEFINE e == [t EXCEPT !.todo = t.todo \ {m}, !.pc = "bury", !.npc = m, !.slot = k]
    <3>3. e.pc = "bury"
      BY <1>t, KillFields
    <3> HIDE DEF e
    <3>4. worker' = [worker EXCEPT ![w] = e]
      BY <2>1 DEF e
    <3>5. \A v \in Workers : worker'[v].pc = "cas" /\ worker'[v].npc = n =>
             worker[v].pc = "cas" /\ worker[v].npc = n
      BY <1>f, <3>3, <3>4
    <3>6. \A c \in Chains : Live(n, c)' =>
             Live(n, c) /\ Slack(chain'[n][c]) \in 0..MoveDelay /\ Slack(chain'[n][c]) <= Slack(chain[n][c])
      BY <3>1, EventTypesOf, SlackType DEF Live
    <3>7. CoverAt(n)
      BY <3>1 DEF DeadCovered
    <3>8. QED
      BY <3>2, <3>5, <3>6, <3>7, CoverKept
  <2>5. QED
    BY <2>3, <2>4
<1>3. CASE WakeCas(w)
  <2>1. invisible[n] /\ respawn' = respawn /\ t.npc \in Npcs
    BY <1>3 DEF WakeCas, OwnInv, Owes
  <2>2. CASE worker' = [worker EXCEPT ![w] = [t EXCEPT !.pc = "scan", !.npc = None]] /\ chain' = chain
    <3> DEFINE e == [t EXCEPT !.pc = "scan", !.npc = None]
    <3>1. e.pc = "scan"
      BY <1>t, CasFields
    <3> HIDE DEF e
    <3>2. worker' = [worker EXCEPT ![w] = e]
      BY <2>2 DEF e
    <3>3. QED
      BY <1>f, <2>1, <2>2, <3>1, <3>2, WorkerCover
  <2>3. ASSUME NEW c \in Chains, SetChain(t.npc, c, Event("arming", 0, FALSE)),
               worker' = [worker EXCEPT ![w] = [t EXCEPT !.pc = "arm", !.slot = c]]
        PROVE  CoverAt(n)'
    <3>1. /\ chain'[t.npc][c] = Event("arming", 0, FALSE)
          /\ \A a \in Npcs, d \in Chains : a # t.npc \/ d # c => chain'[a][d] = chain[a][d]
      BY <2>1, <2>3, ChainFrame, Zenon
    <3>2. CoverAt(n) /\ SameCover(n)
      BY <2>1, RespawnsSame DEF DeadCovered
    <3>3. ASSUME NEW d \in Chains, Live(n, d)' PROVE Covered(n, Slack(chain[n][d]))'
      <4>1. CASE n = t.npc /\ d = c
        <5>1. Slack(chain'[n][d]) = MoveDelay
          BY <3>1, <4>1, SlackArmed
        <5>2. Covered(n, MoveDelay)
          BY <1>3, <3>2, <4>1 DEF CoverAt, WakeCas
        <5>3. QED
          BY <2>1, <5>1, <5>2 DEF Covered
      <4>2. CASE n # t.npc \/ d # c
        <5>1. chain'[n][d] = chain[n][d] /\ Live(n, d)
          BY <3>1, <3>3, <4>2 DEF Live
        <5>2. QED
          BY <2>1, <3>2, <5>1 DEF CoverAt, Covered
      <4>3. QED
        BY <4>1, <4>2
    <3> DEFINE e == [t EXCEPT !.pc = "arm", !.slot = c]
    <3>4. e.pc = "arm"
      BY <1>t, CasFields
    <3> HIDE DEF e
    <3>5. worker' = [worker EXCEPT ![w] = e]
      BY <2>3 DEF e
    <3>6. \A v \in Workers : worker'[v].pc = "cas" /\ worker'[v].npc = n =>
             worker[v].pc = "cas" /\ worker[v].npc = n
      BY <1>f, <3>4, <3>5
    <3>7. QED
      BY <2>1, <3>2, <3>3, <3>6 DEF CoverAt, Covered
  <2>4. QED
    BY <1>3, <2>2, <2>3 DEF WakeCas
<1>4. CASE WakeArm(w)
  <2>1. invisible[n] /\ respawn' = respawn /\ OwnsChain(w)
    BY <1>4 DEF WakeArm, OwnInv, Owes
  <2>2. /\ chain'[t.npc][t.slot] = Armed(MoveDelay)
        /\ \A a \in Npcs, d \in Chains : a # t.npc \/ d # t.slot => chain'[a][d] = chain[a][d]
    BY <1>4, <2>1, ChainFrame, Zenon DEF WakeArm, OwnsChain
  <2>3. ASSUME NEW d \in Chains, Live(n, d)'
        PROVE  Live(n, d) /\ Slack(chain'[n][d]) \in 0..MoveDelay /\ Slack(chain'[n][d]) <= Slack(chain[n][d])
    <3>1. CASE n = t.npc /\ d = t.slot
      <4>1. Slack(chain'[n][d]) = MoveDelay
        BY <2>2, <3>1, SlackArmed
      <4>2. chain[n][d].at = "arming" /\ Slack(chain[n][d]) = MoveDelay
        BY <2>1, <3>1, SlackOf DEF OwnsChain
      <4>3. QED
        BY <4>1, <4>2 DEF Live
    <3>2. CASE n # t.npc \/ d # t.slot
      BY <2>2, <2>3, <3>2, EventTypesOf, SlackType DEF Live
    <3>3. QED
      BY <3>1, <3>2
  <2> DEFINE e == [t EXCEPT !.pc = "scan", !.npc = None, !.slot = None]
  <2>4. e.pc = "scan"
    BY <1>t, ArmFields
  <2> HIDE DEF e
  <2>5. worker' = [worker EXCEPT ![w] = e]
    BY <1>4 DEF e, WakeArm
  <2>6. \A v \in Workers : worker'[v].pc = "cas" /\ worker'[v].npc = n =>
           worker[v].pc = "cas" /\ worker[v].npc = n
    BY <1>f, <2>4, <2>5
  <2>7. CoverAt(n) /\ SameCover(n)
    BY <2>1, RespawnsSame DEF DeadCovered
  <2>8. QED
    BY <2>3, <2>6, <2>7, CoverKept
<1>5. CASE AttackBury(w)
  <2>1. invisible[n] /\ chain' = chain /\ OwnsRespawn(w)
    BY <1>5 DEF AttackBury, OwnInv, Owes
  <2>2. /\ respawn'[t.npc][t.slot] = Armed(RespawnDelay)
        /\ \A a \in Npcs, d \in Kills : a # t.npc \/ d # t.slot => respawn'[a][d] = respawn[a][d]
    BY <1>5, <2>1, RespawnFrame, Zenon DEF AttackBury, OwnsRespawn
  <2>3. \A s \in 0..MoveDelay : Covers(Armed(RespawnDelay), s)
    BY EventFields DEF Covers
  <2>4. SameCover(n)
    <3> SUFFICES ASSUME NEW s \in 0..MoveDelay, Covered(n, s) PROVE Covered(n, s)'
      BY DEF SameCover
    <3>1. PICK k \in Kills : Covers(respawn[n][k], s)
      BY DEF Covered
    <3>2. Covers(respawn'[n][k], s)
      BY <2>2, <2>3, <3>1
    <3>3. QED
      BY <3>2 DEF Covered
  <2> DEFINE e == [t EXCEPT !.pc = "attack", !.npc = None, !.slot = None]
  <2>5. e.pc = "attack"
    BY <1>t, ArmFields
  <2> HIDE DEF e
  <2>6. worker' = [worker EXCEPT ![w] = e]
    BY <1>5 DEF e, AttackBury
  <2>7. \A v \in Workers : worker'[v].pc = "cas" /\ worker'[v].npc = n =>
           worker[v].pc = "cas" /\ worker[v].npc = n
    BY <1>f, <2>5, <2>6
  <2>8. \A c \in Chains : Live(n, c)' =>
           Live(n, c) /\ Slack(chain'[n][c]) \in 0..MoveDelay /\ Slack(chain'[n][c]) <= Slack(chain[n][c])
    BY <2>1, EventTypesOf, SlackType DEF Live
  <2>9. QED
    BY <2>1, <2>4, <2>7, <2>8, CoverKept DEF DeadCovered
<1>6. CASE ScanEnd(w) \/ AttackEnd(w)
  <2>1. invisible[n] /\ chain' = chain /\ respawn' = respawn /\ worker' = [worker EXCEPT ![w] = Idle]
    BY <1>6 DEF ScanEnd, AttackEnd
  <2>2. Idle.pc = "idle"
    BY DEF Idle, Task
  <2>3. QED
    BY <1>f, <2>1, <2>2, WorkerCover
<1>7. QED
  BY <1>1, <1>2, <1>3, <1>4, <1>5, <1>6 DEF WorkerStep

LEMMA PacketCover ==
  ASSUME TypeOK, DeadCovered, NEW w \in Workers, PacketStep(w), NEW n \in Npcs, invisible'[n]
  PROVE  CoverAt(n)'
<1>1. invisible[n] /\ chain' = chain /\ respawn' = respawn
  BY DEF PacketStep, Login, Move, Teleport, Death, Attack, StartScan
<1>2. PICK e : worker' = [worker EXCEPT ![w] = e] /\ e.pc # "cas"
  <2>1. \A p, kind : Task("scan", p, kind, Npcs, {}, viewList[p], None, None).pc # "cas"
    BY DEF Task
  <2>2. \A p : Task("attack", p, "attack", viewList[p], {}, {}, None, None).pc # "cas"
    BY DEF Task
  <2>3. ASSUME NEW p \in Players, NEW kind, NEW sight, StartScan(w, p, kind, sight)
        PROVE  worker' = [worker EXCEPT ![w] =
                            Task("scan", p, kind, Npcs, {}, viewList[p], None, None)]
    BY <2>3, Zenon DEF StartScan
  <2>4. PICK p \in Players : Login(w, p) \/ Move(w, p) \/ Teleport(w, p) \/ Death(w, p) \/ Attack(w, p)
    BY DEF PacketStep
  <2>5. CASE Attack(w, p)
    BY <2>2, <2>5, Zenon DEF Attack
  <2>6. CASE Login(w, p) \/ Move(w, p) \/ Teleport(w, p) \/ Death(w, p)
    <3>1. \E kind, sight : StartScan(w, p, kind, sight)
      BY <2>6, Zenon DEF Login, Move, Teleport, Death
    <3>2. QED
      BY <2>1, <2>3, <3>1, Zenon
  <2>7. QED
    BY <2>4, <2>5, <2>6
<1>3. \A v \in Workers : worker'[v].pc = "cas" /\ worker'[v].npc = n =>
         worker[v].pc = "cas" /\ worker[v].npc = n
  BY <1>2 DEF TypeOK
<1>4. QED
  BY <1>1, <1>3, WorkerCover

LEMMA CoverStep ==
  ASSUME IInv, CoverInv, [TimedNext]_<<vars, late>>
  PROVE  CoverInv'
<1> SUFFICES ASSUME ~late', NEW n \in Npcs, invisible'[n] PROVE CoverAt(n)'
  BY DEF CoverInv, DeadCovered
<1>1. TypeOK /\ OwnInv /\ [Next]_vars
  BY DEF IInv, TimedNext, vars
<1>2. TypeOK' /\ ~late /\ DeadCovered /\ (Tick => CaughtUp \/ UNCHANGED vars)
  <2>1. ~late /\ (Tick => CaughtUp \/ UNCHANGED vars)
    <3>1. CASE TimedNext
      BY <3>1, Zenon DEF TimedNext
    <3>2. CASE UNCHANGED <<vars, late>>
      <4>1. vars' = vars /\ late' = late
        BY <3>2
      <4>2. QED
        BY <4>1, Zenon
    <3>3. QED
      BY <3>1, <3>2
  <2>2. QED
    BY <1>1, <2>1, StepTypes DEF CoverInv
<1>3. CASE UNCHANGED vars
  BY <1>1, <1>2, <1>3, WorkerCover DEF vars
<1>4. ASSUME NEW w \in Workers, PacketStep(w) PROVE CoverAt(n)'
  BY <1>1, <1>2, <1>4, PacketCover
<1>5. ASSUME NEW w \in Workers, WorkerStep(w) PROVE CoverAt(n)'
  BY <1>1, <1>2, <1>5, StepCover
<1>6. ASSUME NEW p \in Players, Disconnect(p) PROVE CoverAt(n)'
  BY <1>1, <1>2, <1>6, WorkerCover DEF Disconnect
<1>7. ASSUME NEW m \in Npcs, NEW c \in Chains, ChainStep(m, c) PROVE CoverAt(n)'
  BY <1>1, <1>2, <1>7, ChainCover
<1>8. ASSUME NEW m \in Npcs, NEW k \in Kills, RespawnStep(m, k) PROVE CoverAt(n)'
  BY <1>1, <1>2, <1>8, RespawnCover
<1>9. CASE Tick
  BY <1>1, <1>2, <1>3, <1>9, TickCover
<1>10. QED
  BY <1>1, <1>3, <1>4, <1>5, <1>6, <1>7, <1>8, <1>9 DEF Next

\* DeadChainStops: for any move period and respawn delay, and however often a
\* monster is killed and killed again, no scan and no move in flight leaves a
\* chain to one that has been dead for a move period (OP_RANDOM_MOVE's test of
\* invisible, the scans' test before the exchange), where the server keeps up.
THEOREM DeadChainStopsHolds == TimedSpec => []DeadChainStops
<1>1. TimedSpec => []IInv
  <2>1. TimedInit => Init
    BY DEF TimedInit
  <2>2. [TimedNext]_<<vars, late>> => [Next]_vars
    BY DEF TimedNext, vars
  <2>3. TimedSpec => Spec
    BY <2>1, <2>2, PTL DEF TimedSpec, Spec
  <2>4. QED
    BY <2>3, Invariance, PTL
<1>2. TimedInit => CoverInv
  BY DEF TimedInit, Init, CoverInv, DeadCovered
<1>3. IInv /\ CoverInv /\ [TimedNext]_<<vars, late>> => CoverInv'
  BY CoverStep
<1>4. IInv /\ CoverInv => DeadChainStops
  <2> SUFFICES ASSUME IInv, CoverInv, ~late, CaughtUp, NEW n \in Npcs, NEW c \in Chains, invisible[n],
                      \A k \in Kills : respawn[n][k].at = "queued"
                                         => respawn[n][k].left < RespawnDelay - MoveDelay,
                      Live(n, c)
               PROVE  FALSE
    BY DEF DeadChainStops
  <2>1. TypeOK /\ chain[n][c] \in Events(MoveDelay)
    BY EventTypesOf DEF IInv
  <2>2. Waiting(chain[n][c]) /\ Slack(chain[n][c]) = chain[n][c].left /\ chain[n][c].left \in Nat
    BY <2>1, SlackOf DEF CaughtUp, Waiting, Events
  <2>3. PICK k \in Kills : Covers(respawn[n][k], chain[n][c].left)
    BY <2>2 DEF CoverInv, DeadCovered, CoverAt, Covered
  <2>4. respawn[n][k].at = "queued" /\ respawn[n][k].left \in Nat
    BY <2>1, <2>3, EventTypesOf DEF Covers, CaughtUp, Waiting, Events
  <2>5. respawn[n][k].left + MoveDelay >= RespawnDelay + chain[n][c].left
    BY <2>3, <2>4 DEF Covers
  <2>6. QED
    BY <2>2, <2>4, <2>5
<1>5. QED
  BY <1>1, <1>2, <1>3, <1>4, PTL DEF TimedSpec
=============================================================================
