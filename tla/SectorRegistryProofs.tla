------------------------ MODULE SectorRegistryProofs ------------------------
(***************************************************************************)
(* For every map, sector size, view range no larger than a sector, and     *)
(* number of objects: SectorRegistry keeps its types, no object is lost,   *)
(* an object handled by one thread at a time is registered where it is,    *)
(* and a scan of 3 x 3 sectors finds everything in view.                   *)
(***************************************************************************)
EXTENDS SectorRegistry, TLAPS

USE SizeAssumption, KindAssumption

(* The arithmetic of the grid. *)
LEMMA DivLemma ==
  ASSUME NEW a \in Nat
  PROVE  /\ a \div S \in Nat /\ a % S \in 0..S-1
         /\ a = S * (a \div S) + (a % S)
OBVIOUS

LEMMA DivMonotone ==
  ASSUME NEW a \in Nat, NEW b \in Nat, a <= b
  PROVE  a \div S <= b \div S
<1> DEFINE p == a \div S
           q == b \div S
<1>1. p \in Nat /\ q \in Nat /\ a >= S * p /\ b <= S * q + S - 1
  BY DivLemma
<1> HIDE DEF p, q
<1>2. ASSUME q + 1 <= p PROVE FALSE
  <2>1. S * (q + 1) <= S * p
    BY <1>1, <1>2
  <2>2. QED
    BY <1>1, <2>1
<1>3. p <= q
  BY <1>1, <1>2
<1>4. QED
  BY <1>3 DEF p, q

LEMMA DivNear ==
  ASSUME NEW a \in Nat, NEW b \in Nat, a <= b + S
  PROVE  a \div S <= b \div S + 1
<1> DEFINE p == a \div S
           q == b \div S
<1>1. p \in Nat /\ q \in Nat /\ a >= S * p /\ b <= S * q + S - 1
  BY DivLemma
<1> HIDE DEF p, q
<1>2. ASSUME q + 2 <= p PROVE FALSE
  <2>1. S * (q + 2) <= S * p
    BY <1>1, <1>2
  <2>2. QED
    BY <1>1, <2>1
<1>3. p <= q + 1
  BY <1>1, <1>2
<1>4. QED
  BY <1>3 DEF p, q

(* Every cell lies in a sector of the grid. *)
LEMMA SectorInGrid == ASSUME NEW c \in Cells PROVE SectorOf(c) \in Grid
<1>1. c[1] \in 0..W-1 /\ c[2] \in 0..W-1
  BY DEF Cells, Coords
<1>2. c[1] \div S <= (W-1) \div S /\ c[2] \div S <= (W-1) \div S
  BY <1>1, DivMonotone
<1>3. QED
  BY <1>1, <1>2, DivLemma DEF SectorOf, Grid

(* If the square of a distance is at most the square of V, the distance is *)
(* at most V.                                                              *)
LEMMA SquareBound ==
  ASSUME NEW d \in Int, NEW e \in Int, d * d + e * e <= V * V
  PROVE  d <= V /\ -d <= V
<1>1. e * e >= 0
  OBVIOUS
<1>2. ASSUME d >= V + 1 PROVE FALSE
  <2>1. d * d >= (V + 1) * (V + 1)
    BY <1>2
  <2>2. QED
    BY <1>1, <2>1
<1>3. ASSUME -d >= V + 1 PROVE FALSE
  <2>1. d * d >= (V + 1) * (V + 1)
    BY <1>3
  <2>2. QED
    BY <1>1, <2>1
<1>4. QED
  BY <1>2, <1>3

-----------------------------------------------------------------------------
(* Types. *)
LEMMA TaskTypes ==
  /\ Idle \in Tasks
  /\ \A pc \in {"compare", "erase", "index"}, kind \in {"login", "move", "jump", "death"},
       cell \in Cells : Task(pc, kind, cell) \in Tasks
  /\ \A k \in Tasks, pc \in {"erase", "write", "stay", "index", "insert"} :
       [k EXCEPT !.pc = pc] \in Tasks
BY DEF Idle, Task, Tasks, Cells, Coords

LEMMA InsideMap == Spawn \in Cells /\ <<0, 0>> \in Cells /\ \A c \in Cells : Steps(c) \subseteq Cells
BY DEF Spawn, Cells, Coords, Steps

LEMMA StepTypes == TypeOK /\ [Next]_vars => TypeOK'
<1> SUFFICES ASSUME TypeOK, [Next]_vars PROVE TypeOK'
  OBVIOUS
<1>1. ASSUME NEW o \in Objects, NEW t \in Threads, NEW k \in Tasks, SetTask(o, t, k)
      PROVE  task' \in [Objects -> [Threads -> Tasks]]
  BY <1>1 DEF TypeOK, SetTask
<1>2. ASSUME NEW o \in Objects, Begin(o) PROVE TypeOK'
  <2>1. CASE Accept(o)
    BY <1>2, <2>1, InsideMap DEF Accept, TypeOK
  <2>2. CASE Login(o)
    BY <1>1, <2>2, InsideMap, TaskTypes DEF Login, TypeOK, Threads
  <2>3. CASE Move(o)
    BY <1>1, <2>3, InsideMap, TaskTypes DEF Move, TypeOK, Threads
  <2>4. CASE Teleport(o)
    BY <1>1, <2>4, TaskTypes DEF Teleport, TypeOK, Threads
  <2>5. CASE do_random_move(o)
    BY <1>1, <2>5, InsideMap, TaskTypes DEF do_random_move, TypeOK, Threads
  <2>6. CASE Death(o)
    BY <1>1, <2>6, InsideMap, TaskTypes DEF Death, TypeOK, Threads
  <2>7. CASE Disconnect(o)
    BY <2>7 DEF Disconnect, TypeOK
  <2>8. QED
    BY <1>2, <2>1, <2>2, <2>3, <2>4, <2>5, <2>6, <2>7 DEF Begin
<1>3. ASSUME NEW o \in Objects, NEW t \in Threads, Step(o, t) PROVE TypeOK'
  <2>t. task[o][t] \in Tasks /\ task[o][t].cell \in Cells /\ index[o] \in Grid
    BY DEF TypeOK, Tasks
  <2>1. CASE Compare(o, t)
    BY <1>1, <2>1, <2>t, TaskTypes DEF Compare, Goto, TypeOK
  <2>2. CASE Erase(o, t)
    BY <1>1, <2>2, <2>t, TaskTypes DEF Erase, Goto, TypeOK
  <2>3. CASE Write(o, t)
    BY <1>1, <2>3, <2>t, TaskTypes DEF Write, Goto, TypeOK
  <2>4. CASE Index(o, t)
    BY <1>1, <2>4, <2>t, TaskTypes, SectorInGrid DEF Index, Goto, TypeOK
  <2>5. CASE Insert(o, t)
    <3>1. sectors' \in [Grid -> SUBSET Objects]
      BY <2>5, <2>t DEF Insert, TypeOK
    <3>2. QED
      BY <1>1, <2>5, <2>t, <3>1, TaskTypes DEF Insert, TypeOK
  <2>6. QED
    BY <1>3, <2>1, <2>2, <2>3, <2>4, <2>5 DEF Step
<1>4. CASE UNCHANGED vars
  BY <1>4 DEF vars, TypeOK
<1>5. QED
  BY <1>2, <1>3, <1>4 DEF Next

LEMMA InitTypes == Init => TypeOK
<1> SUFFICES ASSUME Init PROVE TypeOK
  OBVIOUS
<1>1. pos \in [Objects -> Cells]
  BY InsideMap DEF Init, Objects
<1>2. index \in [Objects -> Grid]
  BY <1>1, SectorInGrid DEF Init
<1>3. QED
  BY <1>1, <1>2, TaskTypes DEF Init, TypeOK, Objects

(* TypeOK of SectorRegistry: no sector index ever leaves the grid. *)
THEOREM TypeCorrect == Spec => []TypeOK
BY InitTypes, StepTypes, PTL DEF Spec

-----------------------------------------------------------------------------
(* NeverLost needs only this: whoever took an object out of its list, or   *)
(* is logging it in, still has its insert to do.                           *)
WillInsert(o) == \E t \in Threads : task[o][t].pc \in {"write", "index", "insert"}
KeptInv == \A o \in Objects : state[o] = "ingame" => Registered(o) \/ WillInsert(o)

LEMMA KeptStep == TypeOK /\ KeptInv /\ [Next]_vars => KeptInv'
<1> SUFFICES ASSUME TypeOK, KeptInv, [Next]_vars PROVE KeptInv'
  OBVIOUS
<1>f. ASSUME NEW o \in Objects, NEW t \in Threads, NEW k, SetTask(o, t, k)
      PROVE  /\ task'[o][t] = k
             /\ \A u \in Threads \ {t} : task'[o][u] = task[o][u]
             /\ \A p \in Objects \ {o} : task'[p] = task[p]
  BY <1>f DEF SetTask, TypeOK
<1>p. ASSUME NEW o \in Objects, NEW t \in Threads, NEW pc, Goto(o, t, pc)
      PROVE  task'[o][t].pc = pc
  <2>1. task'[o][t] = [task[o][t] EXCEPT !.pc = pc] /\ task[o][t] \in Tasks
    BY <1>p DEF Goto, SetTask, TypeOK
  <2>2. QED
    BY <2>1 DEF Tasks
<1>1. ASSUME NEW o \in Objects, Begin(o) PROVE KeptInv'
  <2>1. \A p \in Objects : state'[p] = "ingame" => state[p] = "ingame"
    BY <1>1 DEF Begin, Accept, Login, Move, Teleport, do_random_move, Death, Disconnect, TypeOK
  <2>2. sectors' = sectors
    BY <1>1 DEF Begin, Accept, Login, Move, Teleport, do_random_move, Death, Disconnect
  <2>3. task' = task \/ \E t \in Threads : \E k : task[o][t] = Idle /\ SetTask(o, t, k)
    BY <1>1 DEF Begin, Accept, Login, Move, Teleport, do_random_move, Death, Disconnect,
                Free, Threads
  <2>4. \A p \in Objects : WillInsert(p) => WillInsert(p)'
    BY <1>f, <2>3 DEF WillInsert, Idle, Task
  <2>5. QED
    BY <2>1, <2>2, <2>4 DEF KeptInv, Registered
<1>2. ASSUME NEW o \in Objects, NEW t \in Threads, Step(o, t) PROVE KeptInv'
  <2>t. task[o][t] \in Tasks /\ index[o] \in Grid
    BY DEF TypeOK
  <2>1. CASE Compare(o, t)
    <3>1. PICK k : SetTask(o, t, k)
      BY <2>1 DEF Compare, Goto
    <3>2. \A p \in Objects : WillInsert(p) => WillInsert(p)'
      BY <1>f, <2>1, <3>1 DEF WillInsert, Compare
    <3>3. QED
      BY <2>1, <3>2 DEF Compare, KeptInv, Registered
  <2>2. CASE Erase(o, t)
    <3>1. PICK pc \in {"index", "write"} : Goto(o, t, pc)
      BY <2>2 DEF Erase
    <3>2. task'[o][t].pc = pc
      BY <1>p, <3>1
    <3>3. \A p \in Objects \ {o} : /\ WillInsert(p) => WillInsert(p)'
                                   /\ Registered(p) => Registered(p)'
      BY <1>f, <2>2, <2>t, <3>1 DEF WillInsert, Erase, Goto, Registered, TypeOK
    <3>4. WillInsert(o)'
      BY <3>2 DEF WillInsert
    <3>5. state' = state
      BY <2>2 DEF Erase
    <3>6. ASSUME NEW p \in Objects, state'[p] = "ingame" PROVE Registered(p)' \/ WillInsert(p)'
      <4>1. CASE p = o
        BY <3>4, <4>1 DEF WillInsert
      <4>2. CASE p # o
        <5>1. Registered(p) \/ WillInsert(p)
          BY <3>5, <3>6 DEF KeptInv
        <5>2. QED
          BY <3>3, <4>2, <5>1
      <4>3. QED
        BY <4>1, <4>2
    <3>7. QED
      BY <3>6 DEF KeptInv
  <2>3. CASE Write(o, t)
    <3>1. CASE task[o][t].pc = "write"
      <4>1. Goto(o, t, "index")
        BY <2>3, <3>1 DEF Write
      <4>2. task'[o][t].pc = "index"
        BY <1>p, <4>1
      <4>3. QED
        BY <1>f, <2>3, <4>1, <4>2 DEF Write, Goto, KeptInv, WillInsert, Registered
    <3>2. CASE task[o][t].pc = "stay"
      <4>1. SetTask(o, t, Idle)
        BY <2>3, <3>2 DEF Write
      <4>2. \A p \in Objects : WillInsert(p) => WillInsert(p)'
        BY <1>f, <3>2, <4>1 DEF WillInsert
      <4>3. QED
        BY <2>3, <4>2 DEF Write, KeptInv, Registered
    <3>3. QED
      BY <2>3, <3>1, <3>2 DEF Write
  <2>4. CASE Index(o, t)
    <3>1. Goto(o, t, "insert")
      BY <2>4 DEF Index
    <3>2. task'[o][t].pc = "insert"
      BY <1>p, <3>1
    <3>3. QED
      BY <1>f, <2>4, <3>1, <3>2 DEF Index, Goto, KeptInv, WillInsert, Registered
  <2>5. CASE Insert(o, t)
    <3>1. o \in sectors'[index[o]] /\ \A p \in Objects : Registered(p) => Registered(p)'
      BY <2>5, <2>t DEF Insert, Registered, TypeOK
    <3>2. \A p \in Objects \ {o} : (WillInsert(p) => WillInsert(p)') /\ state'[p] = state[p]
      BY <1>f, <2>5 DEF Insert, WillInsert, TypeOK
    <3>3. QED
      BY <2>t, <3>1, <3>2 DEF KeptInv, Registered
  <2>6. QED
    BY <1>2, <2>1, <2>2, <2>3, <2>4, <2>5 DEF Step
<1>3. CASE UNCHANGED vars
  BY <1>3 DEF vars, KeptInv, Registered, WillInsert
<1>4. QED
  BY <1>1, <1>2, <1>3 DEF Next

(* No interleaving of the handlers of an object loses it: when all are     *)
(* done and it is in the game, some list has it.                           *)
THEOREM NeverLostHolds == Spec => []NeverLost
<1>1. Init => KeptInv
  <2> SUFFICES ASSUME Init, NEW o \in Npcs PROVE Registered(o)
    BY DEF Init, KeptInv, Objects
  <2>1. index[o] \in Grid
    BY InitTypes DEF TypeOK, Objects
  <2>2. QED
    BY <2>1 DEF Init, Registered
<1>2. KeptInv => NeverLost
  BY DEF KeptInv, NeverLost, WillInsert, Settled, Quiet, Idle, Task
<1>3. QED
  BY <1>1, <1>2, InitTypes, StepTypes, KeptStep, PTL DEF Spec

-----------------------------------------------------------------------------
(* An object handled by one thread at a time.  Home(o) holds between two   *)
(* handlers; TaskHome says what a handler knows at each of its steps, and  *)
(* FreshTask where the object stands in the lists of a slot not reused.    *)
Home(o)     == index[o] = SectorOf(pos[o]) /\ o \in sectors[index[o]]
OnlyHome(o) == \A g \in Grid : o \in sectors[g] => g = index[o]
Nowhere(o)  == \A g \in Grid : o \notin sectors[g]

TaskHome(o, k) ==
  /\ k.pc = "idle" => k = Idle
  /\ k.pc = "compare" /\ k.kind = "move" => Home(o)
  /\ k.pc = "compare" /\ k.kind # "move" =>
       k.kind = "jump" /\ index[o] = SectorOf(k.cell) /\ o \in sectors[index[o]]
  /\ k.pc = "stay" => Home(o) /\ SectorOf(k.cell) = SectorOf(pos[o])
  /\ k.pc = "insert" => index[o] = SectorOf(pos[o])

FreshTask(o, k) ==
  ~reused[o] =>
    /\ k.pc \in {"compare", "erase", "stay"} => OnlyHome(o)
    /\ k.pc \in {"write", "index", "insert"} => Nowhere(o)
    /\ k.pc # "idle" => (k.kind = "login" \/ state[o] = "ingame")
    /\ k.kind = "login" => k.pc \in {"index", "insert"}

AtRest(o) ==
  /\ state[o] = "ingame" => Home(o)
  /\ ~reused[o] => IF state[o] = "ingame" THEN OnlyHome(o) ELSE Nowhere(o)

OneThread(o) == \A t, u \in Threads : task[o][t] # Idle /\ task[o][u] # Idle => t = u

ExclusiveInv(o) ==
  /\ OneThread(o)
  /\ Quiet(o) => AtRest(o)
  /\ \A t \in Threads : TaskHome(o, task[o][t]) /\ FreshTask(o, task[o][t])
  /\ o \in Npcs => state[o] = "ingame"

(* Steps on other objects do not concern it. *)
LEMMA OthersSteps ==
  ASSUME TypeOK, NEW o \in Objects, NEW p \in Objects \ {o},
         Begin(p) \/ \E t \in Threads : Step(p, t)
  PROVE  /\ state'[o] = state[o] /\ pos'[o] = pos[o] /\ index'[o] = index[o]
         /\ task'[o] = task[o] /\ reused'[o] = reused[o]
         /\ \A g \in Grid : o \in sectors'[g] <=> o \in sectors[g]
<1>1. CASE Begin(p)
  BY <1>1 DEF Begin, Accept, Login, Move, Teleport, do_random_move, Death, Disconnect,
              SetTask, TypeOK
<1>2. ASSUME NEW t \in Threads, Step(p, t)
      PROVE  /\ state'[o] = state[o] /\ pos'[o] = pos[o] /\ index'[o] = index[o]
             /\ task'[o] = task[o] /\ reused'[o] = reused[o]
  BY <1>2 DEF Step, Compare, Erase, Write, Index, Insert, Goto, SetTask, TypeOK
<1>3. ASSUME NEW t \in Threads, Step(p, t), NEW g \in Grid
      PROVE  o \in sectors'[g] <=> o \in sectors[g]
  <2>1. CASE sectors' = sectors
    BY <2>1
  <2>2. CASE Erase(p, t) \/ Insert(p, t)
    <3>1. index[p] \in Grid
      BY DEF TypeOK
    <3>2. QED
      BY <2>2, <3>1 DEF Erase, Insert, TypeOK
  <2>3. QED
    BY <1>3, <2>1, <2>2 DEF Step, Compare, Write, Index
<1>4. QED
  BY <1>1, <1>2, <1>3

LEMMA SameExclusive ==
  ASSUME TypeOK, NEW o \in Objects, ExclusiveInv(o),
         state'[o] = state[o], pos'[o] = pos[o], index'[o] = index[o],
         task'[o] = task[o], reused'[o] = reused[o],
         \A g \in Grid : o \in sectors'[g] <=> o \in sectors[g]
  PROVE  ExclusiveInv(o)'
<1>1. index[o] \in Grid
  BY DEF TypeOK
<1>2. (Home(o)' <=> Home(o)) /\ (OnlyHome(o)' <=> OnlyHome(o)) /\ (Nowhere(o)' <=> Nowhere(o))
  BY <1>1 DEF Home, OnlyHome, Nowhere
<1>3. \A t \in Threads : TaskHome(o, task[o][t])' /\ FreshTask(o, task[o][t])'
  BY <1>1, <1>2 DEF ExclusiveInv, TaskHome, FreshTask
<1>4. QED
  BY <1>2, <1>3 DEF ExclusiveInv, AtRest, OneThread, Quiet

(* A step of its handler gives the handler a new task. *)
LEMMA NewTask ==
  ASSUME TypeOK, NEW o \in Objects, NEW t \in Threads, NEW k,
         SetTask(o, t, k), \A u \in Threads \ {t} : task[o][u] = Idle,
         o \in Npcs => state'[o] = "ingame",
         k = Idle => AtRest(o)', TaskHome(o, k)', FreshTask(o, k)'
  PROVE  ExclusiveInv(o)'
<1>1. task'[o][t] = k /\ \A u \in Threads \ {t} : task'[o][u] = Idle
  BY DEF SetTask, TypeOK
<1>2. TaskHome(o, Idle)' /\ FreshTask(o, Idle)'
  BY DEF TaskHome, FreshTask, Idle, Task
<1>3. OneThread(o)' /\ (Quiet(o)' => AtRest(o)')
  BY <1>1 DEF OneThread, Quiet
<1>4. \A u \in Threads : TaskHome(o, task[o][u])' /\ FreshTask(o, task[o][u])'
  <2>1. ASSUME NEW u \in Threads PROVE TaskHome(o, task[o][u])' /\ FreshTask(o, task[o][u])'
    <3>1. CASE u = t
      BY <1>1, <3>1 DEF TaskHome, FreshTask
    <3>2. CASE u # t
      BY <1>1, <1>2, <3>2 DEF TaskHome, FreshTask
    <3>3. QED
      BY <3>1, <3>2
  <2>2. QED
    BY <2>1
<1>5. QED
  BY <1>3, <1>4 DEF ExclusiveInv

LEMMA BeginExclusive ==
  ASSUME TypeOK, NEW o \in Objects \ Overlap, ExclusiveInv(o), Begin(o)
  PROVE  ExclusiveInv(o)'
<1>0. Quiet(o) /\ AtRest(o) /\ (o \in Npcs => state[o] = "ingame")
  BY DEF Begin, Accept, Login, Move, Teleport, do_random_move, Death, Disconnect, Free,
         ExclusiveInv
<1>n. /\ index[o] \in Grid /\ pos[o] \in Cells
      /\ \A t \in Threads : task[o][t] = Idle
  BY <1>0 DEF TypeOK, Quiet
<1>1. CASE Accept(o) \/ Disconnect(o)
  <2>1. task' = task /\ sectors' = sectors /\ index' = index /\ state'[o] # "ingame"
        /\ o \notin Npcs
    BY <1>1, KindAssumption DEF Accept, Disconnect, TypeOK
  <2>2. ~reused'[o] => ~reused[o] /\ state[o] # "ingame"
    BY <1>1 DEF Accept, Disconnect, TypeOK
  <2>3. AtRest(o)'
    BY <1>0, <2>1, <2>2 DEF AtRest, Nowhere
  <2>4. \A t \in Threads : TaskHome(o, task[o][t])' /\ FreshTask(o, task[o][t])'
    BY <1>n, <2>1 DEF TaskHome, FreshTask, Idle, Task
  <2>5. QED
    BY <2>1, <2>3, <2>4, <1>n DEF ExclusiveInv, OneThread
<1>2. CASE Login(o)
  <2> DEFINE k == Task("index", "login", <<0, 0>>)
  <2>1. SetTask(o, "own", k) /\ UNCHANGED <<state, index, sectors, reused>> /\ state[o] = "alloc"
        /\ o \in Users
    BY <1>2 DEF Login
  <2>2. k # Idle /\ TaskHome(o, k)'
    BY DEF TaskHome, Idle, Task
  <2>3. FreshTask(o, k)'
    BY <1>0, <2>1 DEF FreshTask, Task, AtRest, Nowhere
  <2>4. QED
    BY <1>n, <2>1, <2>2, <2>3, NewTask, KindAssumption DEF Threads
<1>3. CASE Move(o)
  <2>1. PICK c \in Steps(pos[o]) : SetTask(o, "own", Task("compare", "move", c))
    BY <1>3 DEF Move
  <2> DEFINE k == Task("compare", "move", c)
  <2>2. UNCHANGED <<state, pos, index, sectors, reused>> /\ state[o] = "ingame"
    BY <1>3 DEF Move
  <2>3. k # Idle /\ TaskHome(o, k)'
    BY <1>0, <2>2 DEF TaskHome, Idle, Task, AtRest, Home
  <2>4. FreshTask(o, k)'
    BY <1>0, <2>2 DEF FreshTask, Task, AtRest, OnlyHome
  <2>5. QED
    BY <1>n, <2>1, <2>2, <2>3, <2>4, NewTask DEF Threads
<1>4. CASE Teleport(o) \/ do_random_move(o)
  <2>1. /\ SetTask(o, "own", Task("compare", "jump", pos[o]))
        /\ UNCHANGED <<state, index, sectors, reused>> /\ state[o] = "ingame"
    BY <1>0, <1>4 DEF Teleport, do_random_move
  <2>2. PICK c : c = pos[o] /\ SetTask(o, "own", Task("compare", "jump", c))
    BY <2>1
  <2> DEFINE k == Task("compare", "jump", c)
  <2>3. k # Idle /\ TaskHome(o, k)'
    BY <1>0, <2>1, <2>2 DEF TaskHome, Idle, Task, AtRest, Home
  <2>4. FreshTask(o, k)'
    BY <1>0, <2>1 DEF FreshTask, Task, AtRest, OnlyHome
  <2>5. QED
    BY <1>n, <2>1, <2>2, <2>3, <2>4, NewTask DEF Threads
<1>5. CASE Death(o)
  <2> DEFINE k == Task("erase", "death", Spawn)
  <2>1. /\ SetTask(o, "other", k) /\ UNCHANGED <<state, pos, index, sectors, reused>>
        /\ state[o] = "ingame" \/ reused[o]
    BY <1>5 DEF Death
  <2>2. k # Idle /\ TaskHome(o, k)'
    BY DEF TaskHome, Idle, Task
  <2>3. FreshTask(o, k)'
    BY <1>0, <2>1 DEF FreshTask, Task, AtRest, OnlyHome
  <2>4. QED
    BY <1>0, <1>n, <2>1, <2>2, <2>3, NewTask DEF Threads
<1>6. QED
  BY <1>1, <1>2, <1>3, <1>4, <1>5 DEF Begin

LEMMA StepExclusive ==
  ASSUME TypeOK, NEW o \in Objects, ExclusiveInv(o), NEW t \in Threads, Step(o, t)
  PROVE  ExclusiveInv(o)'
<1>t. PICK k \in Tasks : k = task[o][t]
  BY DEF TypeOK
<1>0. /\ \A u \in Threads \ {t} : task[o][u] = Idle
      /\ TaskHome(o, k) /\ FreshTask(o, k) /\ index[o] \in Grid
      /\ o \in Npcs => state[o] = "ingame"
  <2>1. task[o][t] # Idle
    BY DEF Step, Compare, Erase, Write, Index, Insert, Idle, Task
  <2>2. QED
    BY <1>t, <2>1 DEF ExclusiveInv, OneThread, TypeOK
<1>g. ASSUME NEW pc, Goto(o, t, pc), pc # "idle", pc # "compare"
      PROVE  \E j : /\ SetTask(o, t, j) /\ j # Idle
                    /\ j.pc = pc /\ j.kind = k.kind /\ j.cell = k.cell
  <2> DEFINE j == [k EXCEPT !.pc = pc]
  <2>1. SetTask(o, t, j)
    BY <1>t, <1>g DEF Goto
  <2>2. j.pc = pc /\ j.kind = k.kind /\ j.cell = k.cell
    BY DEF Tasks
  <2>3. j # Idle
    BY <1>g, <2>2 DEF Idle, Task
  <2>4. QED
    BY <2>1, <2>2, <2>3
<1>i. TaskHome(o, Idle)' /\ FreshTask(o, Idle)'
  BY DEF TaskHome, FreshTask, Idle, Task
<1>1. CASE Compare(o, t)
  <2>1. k.pc = "compare" /\ UNCHANGED <<state, pos, index, sectors, reused>>
    BY <1>t, <1>1 DEF Compare
  <2>2. CASE Goto(o, t, "erase")
    <3>1. PICK j : SetTask(o, t, j) /\ j # Idle /\ j.pc = "erase" /\ j.kind = k.kind
      BY <1>g, <2>2
    <3>2. TaskHome(o, j)' /\ FreshTask(o, j)'
      BY <1>0, <2>1, <3>1 DEF TaskHome, FreshTask, OnlyHome
    <3>3. QED
      BY <1>0, <2>1, <3>1, <3>2, NewTask
  <2>3. CASE Goto(o, t, "stay") /\ k.kind = "move" /\ SectorOf(pos[o]) = SectorOf(k.cell)
    <3>1. PICK j : SetTask(o, t, j) /\ j # Idle /\ j.pc = "stay" /\ j.kind = k.kind /\ j.cell = k.cell
      BY <1>g, <2>3
    <3>2. TaskHome(o, j)' /\ FreshTask(o, j)'
      BY <1>0, <2>1, <2>3, <3>1 DEF TaskHome, FreshTask, OnlyHome, Home
    <3>3. QED
      BY <1>0, <2>1, <3>1, <3>2, NewTask
  <2>4. CASE SetTask(o, t, Idle) /\ k.kind # "move" /\ SectorOf(pos[o]) = SectorOf(k.cell)
    <3>1. AtRest(o)'
      BY <1>0, <2>1, <2>4 DEF TaskHome, FreshTask, AtRest, Home, OnlyHome
    <3>2. QED
      BY <1>0, <1>i, <2>1, <2>4, <3>1, NewTask
  <2>5. QED
    BY <1>t, <1>1, <2>2, <2>3, <2>4 DEF Compare
<1>2. CASE Erase(o, t)
  <2>1. /\ k.pc = "erase" /\ UNCHANGED <<state, pos, index, reused>>
        /\ sectors' = [sectors EXCEPT ![index[o]] = @ \ {o}]
    BY <1>t, <1>2 DEF Erase
  <2>2. OnlyHome(o) => Nowhere(o)'
    BY <1>0, <2>1 DEF OnlyHome, Nowhere, TypeOK
  <2>3. PICK pc \in {"index", "write"} : Goto(o, t, pc)
    BY <1>2 DEF Erase
  <2>4. PICK j : SetTask(o, t, j) /\ j # Idle /\ j.pc = pc /\ j.kind = k.kind
    BY <1>g, <2>3
  <2>5. TaskHome(o, j)'
    BY <2>3, <2>4 DEF TaskHome
  <2>6. FreshTask(o, j)'
    BY <1>0, <2>1, <2>2, <2>3, <2>4 DEF FreshTask
  <2>7. QED
    BY <1>0, <2>1, <2>4, <2>5, <2>6, NewTask
<1>3. CASE Write(o, t)
  <2>1. /\ UNCHANGED <<state, index, sectors, reused>>
        /\ pos'[o] = k.cell
    BY <1>t, <1>3 DEF Write, TypeOK
  <2>2. CASE k.pc = "write"
    <3>1. Goto(o, t, "index")
      BY <1>t, <1>3, <2>2 DEF Write
    <3>2. PICK j : SetTask(o, t, j) /\ j # Idle /\ j.pc = "index" /\ j.kind = k.kind
      BY <1>g, <3>1
    <3>3. TaskHome(o, j)' /\ FreshTask(o, j)'
      BY <1>0, <2>1, <2>2, <3>2 DEF TaskHome, FreshTask, Nowhere
    <3>4. QED
      BY <1>0, <2>1, <3>2, <3>3, NewTask
  <2>3. CASE k.pc = "stay"
    <3>1. SetTask(o, t, Idle)
      BY <1>t, <1>3, <2>3 DEF Write
    <3>2. AtRest(o)'
      BY <1>0, <2>1, <2>3 DEF TaskHome, FreshTask, AtRest, Home, OnlyHome
    <3>3. QED
      BY <1>0, <1>i, <2>1, <3>1, <3>2, NewTask
  <2>4. QED
    BY <1>t, <1>3, <2>2, <2>3 DEF Write
<1>4. CASE Index(o, t)
  <2>1. /\ k.pc = "index" /\ UNCHANGED <<state, pos, sectors, reused>>
        /\ index'[o] = SectorOf(pos[o]) /\ Goto(o, t, "insert")
    BY <1>t, <1>4 DEF Index, TypeOK
  <2>2. PICK j : SetTask(o, t, j) /\ j # Idle /\ j.pc = "insert" /\ j.kind = k.kind
    BY <1>g, <2>1
  <2>3. TaskHome(o, j)' /\ FreshTask(o, j)'
    BY <1>0, <2>1, <2>2 DEF TaskHome, FreshTask, Nowhere
  <2>4. QED
    BY <1>0, <2>1, <2>2, <2>3, NewTask
<1>5. CASE Insert(o, t)
  <2>1. /\ k.pc = "insert" /\ UNCHANGED <<pos, index, reused>> /\ SetTask(o, t, Idle)
        /\ sectors' = [sectors EXCEPT ![index[o]] = @ \cup {o}]
        /\ state'[o] = IF k.kind = "login" THEN "ingame" ELSE state[o]
    BY <1>t, <1>5 DEF Insert, TypeOK
  <2>2. Home(o)' /\ (Nowhere(o) => OnlyHome(o)')
    BY <1>0, <2>1 DEF Home, TaskHome, OnlyHome, Nowhere, TypeOK
  <2>3. AtRest(o)'
    BY <1>0, <2>1, <2>2 DEF AtRest, FreshTask
  <2>4. QED
    BY <1>0, <1>i, <2>1, <2>3, NewTask
<1>6. QED
  BY <1>1, <1>2, <1>3, <1>4, <1>5 DEF Step

AllExclusive == \A o \in Objects \ Overlap : ExclusiveInv(o)

LEMMA ExclusiveStep == TypeOK /\ AllExclusive /\ [Next]_vars => AllExclusive'
<1> SUFFICES ASSUME TypeOK, AllExclusive, [Next]_vars, NEW o \in Objects \ Overlap
             PROVE  ExclusiveInv(o)'
  BY DEF AllExclusive
<1>0. ExclusiveInv(o)
  BY DEF AllExclusive
<1>1. CASE Begin(o) \/ \E t \in Threads : Step(o, t)
  BY <1>0, <1>1, BeginExclusive, StepExclusive
<1>2. ASSUME NEW p \in Objects \ {o}, Begin(p) \/ \E t \in Threads : Step(p, t)
      PROVE  ExclusiveInv(o)'
  BY <1>0, <1>2, OthersSteps, SameExclusive
<1>3. CASE UNCHANGED vars
  BY <1>0, <1>3, SameExclusive DEF vars
<1>4. QED
  BY <1>1, <1>2, <1>3 DEF Next

LEMMA InitExclusive == Init => AllExclusive
<1> SUFFICES ASSUME Init, NEW o \in Objects PROVE ExclusiveInv(o)
  BY DEF AllExclusive
<1>1. \A t \in Threads : task[o][t] = Idle
  BY DEF Init
<1>2. AtRest(o)
  <2>1. index[o] \in Grid
    BY InitTypes DEF TypeOK
  <2>2. QED
    BY <2>1 DEF Init, AtRest, Home, OnlyHome, Nowhere
<1>3. \A t \in Threads : TaskHome(o, task[o][t]) /\ FreshTask(o, task[o][t])
  BY <1>1 DEF TaskHome, FreshTask, Idle, Task
<1>4. QED
  BY <1>1, <1>2, <1>3 DEF ExclusiveInv, OneThread, Init

THEOREM ExclusiveInvariance == Spec => [](TypeOK /\ AllExclusive)
BY InitTypes, StepTypes, InitExclusive, ExclusiveStep, PTL DEF Spec

(* An object that one thread at a time handles is registered in the sector *)
(* of its cell whenever no handler runs on it.                             *)
THEOREM ExclusiveAtHomeHolds == Spec => []ExclusiveAtHome
<1>1. AllExclusive => ExclusiveAtHome
  BY DEF AllExclusive, ExclusiveInv, AtRest, ExclusiveAtHome, RegisteredAtHome, Settled, Home
<1>2. QED
  BY <1>1, ExclusiveInvariance, PTL

(* ... and in no second sector, at any step, until its slot is reused.     *)
THEOREM OneSectorHolds == Spec => []OneSector
<1>1. TypeOK /\ AllExclusive => OneSector
  <2> SUFFICES ASSUME TypeOK, AllExclusive, NEW o \in Objects \ Overlap, ~reused[o],
                      NEW g \in Grid, NEW h \in Grid, o \in sectors[g], o \in sectors[h]
               PROVE  g = h
    BY DEF OneSector
  <2>1. ExclusiveInv(o)
    BY DEF AllExclusive
  <2>2. CASE Quiet(o)
    BY <2>1, <2>2 DEF ExclusiveInv, AtRest, OnlyHome, Nowhere
  <2>3. ASSUME NEW t \in Threads, task[o][t] # Idle PROVE g = h
    <3>1. task[o][t].pc \in {"compare", "erase", "stay", "write", "index", "insert"}
      BY <2>1, <2>3 DEF ExclusiveInv, TaskHome, TypeOK, Tasks
    <3>2. QED
      BY <2>1, <3>1 DEF ExclusiveInv, FreshTask, OnlyHome, Nowhere
  <2>4. QED
    BY <2>2, <2>3 DEF Quiet
<1>2. QED
  BY <1>1, ExclusiveInvariance, PTL

(* Two cells within VIEW_RANGE lie in neighbouring sectors or in the same. *)
LEMMA ViewWithinSectors ==
  ASSUME NEW c \in Cells, NEW d \in Cells,
         (c[1] - d[1]) * (c[1] - d[1]) + (c[2] - d[2]) * (c[2] - d[2]) <= V * V
  PROVE  \A i \in {1, 2} :
           SectorOf(d)[i] \in SectorOf(c)[i] - 1 .. SectorOf(c)[i] + 1
<1>1. /\ c[1] \in Nat /\ c[2] \in Nat /\ d[1] \in Nat /\ d[2] \in Nat
  BY DEF Cells, Coords
<1>2. c[1] - d[1] <= V /\ d[1] - c[1] <= V
  BY <1>1, SquareBound
<1>3. (c[2] - d[2]) * (c[2] - d[2]) + (c[1] - d[1]) * (c[1] - d[1]) <= V * V
  BY <1>1
<1>4. c[2] - d[2] <= V /\ d[2] - c[2] <= V
  BY <1>1, <1>3, SquareBound
<1>5. /\ c[1] <= d[1] + S /\ d[1] <= c[1] + S
      /\ c[2] <= d[2] + S /\ d[2] <= c[2] + S
  BY <1>1, <1>2, <1>4
<1>6. /\ c[1] \div S <= d[1] \div S + 1 /\ d[1] \div S <= c[1] \div S + 1
      /\ c[2] \div S <= d[2] \div S + 1 /\ d[2] \div S <= c[2] \div S + 1
  BY <1>1, <1>5, DivNear
<1>7. /\ c[1] \div S \in Nat /\ d[1] \div S \in Nat
      /\ c[2] \div S \in Nat /\ d[2] \div S \in Nat
  BY <1>1, DivLemma
<1>8. QED
  BY <1>6, <1>7 DEF SectorOf

(* Scanning 3 x 3 sectors misses nothing in view, for every map and every  *)
(* view range that is no larger than a sector.                             *)
THEOREM ScanCompleteHolds == Spec => []ScanComplete
<1>1. TypeOK /\ AllExclusive => ScanComplete
  <2> SUFFICES ASSUME TypeOK, AllExclusive,
                      NEW a \in Objects \ Overlap, NEW b \in Objects \ Overlap,
                      a # b, Settled(a), Settled(b), can_see(a, b)
               PROVE  b \in Scanned(a)
    BY DEF ScanComplete
  <2>1. Home(a) /\ Home(b)
    BY DEF AllExclusive, ExclusiveInv, Settled, AtRest
  <2>2. pos[a] \in Cells /\ pos[b] \in Cells /\ index[b] \in Grid
    BY DEF TypeOK
  <2>3. \A i \in {1, 2} : index[b][i] \in index[a][i] - 1 .. index[a][i] + 1
    BY <2>1, <2>2, ViewWithinSectors DEF can_see, Home
  <2>4. index[b] \in Around(a)
    BY <2>2, <2>3 DEF Around
  <2>5. QED
    BY <2>1, <2>4 DEF Scanned, Home
<1>2. QED
  BY <1>1, ExclusiveInvariance, PTL
=============================================================================
