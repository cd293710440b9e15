--------------------------- MODULE SectorRegistry ---------------------------
(***************************************************************************)
(* Which sector lists an object stands in while it logs in, moves,         *)
(* teleports, dies and leaves: SESSION::set_sector and the code around its *)
(* calls in multi_iocp_server.cpp and SESSION.cpp.                         *)
(*                                                                         *)
(* The map is a grid of W x W cells cut into sectors of S x S cells.  A    *)
(* session keeps its cell (x, y) and the sector it thinks it is registered *)
(* in (_sector_x, _sector_y); every sector keeps a list under a mutex of   *)
(* its own.  No lock covers the cell, the index and the lists together, so *)
(* a handler is a sequence of steps, and a handler that another thread     *)
(* runs on the same object may come between any two.  That happens to the  *)
(* objects in Overlap: API_ChangeStat kills a user in the worker of the    *)
(* monster while that user's own packet is handled, and a failed send      *)
(* disconnects a session while its packet is handled.                      *)
(***************************************************************************)
EXTENDS Integers

CONSTANTS
  Users,    \* session slots
  Npcs,     \* roaming monsters
  W,        \* W_WIDTH = W_HEIGHT
  S,        \* SECTOR_SIZE
  V,        \* VIEW_RANGE
  Overlap   \* the objects two threads may handle at a time

Objects == Users \cup Npcs
Threads == {"own", "other"}

ASSUME SizeAssumption == W \in Nat \ {0, 1} /\ S \in Nat \ {0} /\ V \in 0..S
ASSUME KindAssumption == Users \cap Npcs = {}

VARIABLES
  state,    \* _state of each object
  pos,      \* x, y
  index,    \* _sector_x, _sector_y
  sectors,  \* the objects list of each sector
  task,     \* what each thread is doing with each object
  reused    \* history: the slot has been left by a session before

vars == <<state, pos, index, sectors, task, reused>>

-----------------------------------------------------------------------------
Coords == 0..W-1
Cells  == Coords \X Coords
Grid   == (0..(W-1) \div S) \X (0..(W-1) \div S)
Spawn  == <<1, 1>>    \* where API_ChangeStat puts the dead

SectorOf(c) == <<c[1] \div S, c[2] \div S>>

\* The cells of do_random_move and CS_MOVE: one step inside the map, or none
\* when a block or the edge is in the way.
Steps(c) == {c} \cup {d \in Cells : \/ d[1] = c[1] /\ d[2] \in {c[2] - 1, c[2] + 1}
                                    \/ d[2] = c[2] /\ d[1] \in {c[1] - 1, c[1] + 1}}

can_see(a, b) == (pos[a][1] - pos[b][1]) * (pos[a][1] - pos[b][1])
               + (pos[a][2] - pos[b][2]) * (pos[a][2] - pos[b][2]) <= V * V

\* Mutation of Around: i < _sector_x + 1 where the code has <=.
AroundBelow(a) == {g \in Grid : /\ g[1] \in index[a][1] - 1 .. index[a][1]
                                /\ g[2] \in index[a][2] - 1 .. index[a][2] + 1}

\* The sectors every scan walks over: the object's own and those around it.
Around(a) == {g \in Grid : /\ g[1] \in index[a][1] - 1 .. index[a][1] + 1
                           /\ g[2] \in index[a][2] - 1 .. index[a][2] + 1}
Scanned(a) == {b \in Objects \ {a} : \E g \in Around(a) : b \in sectors[g] /\ can_see(a, b)}

Task(pc, kind, cell) == [pc |-> pc, kind |-> kind, cell |-> cell]
Idle == Task("idle", "none", <<0, 0>>)
Quiet(o) == \A t \in Threads : task[o][t] = Idle
SetTask(o, t, k) == task' = [task EXCEPT ![o][t] = k]
Goto(o, t, pc) == SetTask(o, t, [task[o][t] EXCEPT !.pc = pc])

\* A thread may begin to handle an object: its own is free, and nobody else
\* handles it unless handlers overlap.
Free(o, t) == task[o][t] = Idle /\ (o \in Overlap \/ Quiet(o))

-----------------------------------------------------------------------------
(* The handlers begin. *)

\* OP_ACCEPT takes a free slot; the sector fields stay as they were.
Accept(o) ==
  /\ o \in Users /\ state[o] = "free" /\ Free(o, "own")
  /\ state' = [state EXCEPT ![o] = "alloc"]
  /\ pos'   = [pos EXCEPT ![o] = <<0, 0>>]
  /\ UNCHANGED <<index, sectors, task, reused>>

\* CS_LOGIN: the cell comes from the database.
Login(o) ==
  /\ o \in Users /\ state[o] = "alloc" /\ Free(o, "own")
  /\ \E c \in Cells : pos' = [pos EXCEPT ![o] = c]
  /\ SetTask(o, "own", Task("index", "login", <<0, 0>>))
  /\ UNCHANGED <<state, index, sectors, reused>>

\* CS_MOVE works out the new cell before it writes it.
Move(o) ==
  /\ o \in Users /\ state[o] = "ingame" /\ Free(o, "own")
  /\ \E c \in Steps(pos[o]) : SetTask(o, "own", Task("compare", "move", c))
  /\ UNCHANGED <<state, pos, index, sectors, reused>>

\* CS_TELEPORT writes the new cell at once and remembers the old one.
Teleport(o) ==
  /\ o \in Users /\ state[o] = "ingame" /\ Free(o, "own")
  /\ \E c \in Cells : pos' = [pos EXCEPT ![o] = c]
  /\ SetTask(o, "own", Task("compare", "jump", pos[o]))
  /\ UNCHANGED <<state, index, sectors, reused>>

\* do_random_move: so does a monster, one cell further.
do_random_move(o) ==
  /\ o \in Npcs /\ Free(o, "own")
  /\ \E c \in Steps(pos[o]) : pos' = [pos EXCEPT ![o] = c]
  /\ SetTask(o, "own", Task("compare", "jump", pos[o]))
  /\ UNCHANGED <<state, index, sectors, reused>>

\* API_ChangeStat, fatal branch, in the worker that runs the monster's script.
\* The script only has the slot's number: whoever was in the game once can be
\* hit, gone or not.
Death(o) ==
  /\ o \in Users /\ (state[o] = "ingame" \/ reused[o]) /\ Free(o, "other")
  /\ SetTask(o, "other", Task("erase", "death", Spawn))
  /\ UNCHANGED <<state, pos, index, sectors, reused>>

\* disconnect: the slot is free again.  Nothing leaves the sector list.
Disconnect(o) ==
  /\ o \in Users /\ state[o] # "free" /\ (o \in Overlap \/ Quiet(o))
  /\ state'  = [state EXCEPT ![o] = "free"]
  /\ reused' = [reused EXCEPT ![o] = TRUE]
  /\ UNCHANGED <<pos, index, sectors, task>>

-----------------------------------------------------------------------------
(* Their steps. *)

\* Mutation of Compare: only the column of sectors is compared.
CompareColumn(o, t) ==
  LET k == task[o][t]
      crossed == SectorOf(pos[o])[1] # SectorOf(k.cell)[1]
  IN  /\ k.pc = "compare"
      /\ IF crossed THEN Goto(o, t, "erase")
         ELSE IF k.kind = "move" THEN Goto(o, t, "stay")
         ELSE SetTask(o, t, Idle)
      /\ UNCHANGED <<state, pos, index, sectors, reused>>

\* Is the new cell in another sector than the old one?  A jump has written
\* the new cell, a move has not.
Compare(o, t) ==
  LET k == task[o][t]
      crossed == SectorOf(pos[o]) # SectorOf(k.cell)
  IN  /\ k.pc = "compare"
      /\ IF crossed THEN Goto(o, t, "erase")
         ELSE IF k.kind = "move" THEN Goto(o, t, "stay")
         ELSE SetTask(o, t, Idle)
      /\ UNCHANGED <<state, pos, index, sectors, reused>>

\* Mutation of Erase: the sector of the cell, not the one of the index.
EraseByCell(o, t) ==
  LET k == task[o][t] IN
  /\ k.pc = "erase"
  /\ sectors' = [sectors EXCEPT ![SectorOf(pos[o])] = @ \ {o}]
  /\ Goto(o, t, IF k.kind = "jump" THEN "index" ELSE "write")
  /\ UNCHANGED <<state, pos, index, reused>>

\* erase(this) from the sector the index names, under its mutex.
Erase(o, t) ==
  LET k == task[o][t] IN
  /\ k.pc = "erase"
  /\ sectors' = [sectors EXCEPT ![index[o]] = @ \ {o}]
  /\ Goto(o, t, IF k.kind = "jump" THEN "index" ELSE "write")
  /\ UNCHANGED <<state, pos, index, reused>>

\* A move and a death write the new cell now, with or without a new sector.
Write(o, t) ==
  LET k == task[o][t] IN
  /\ k.pc \in {"write", "stay"}
  /\ pos' = [pos EXCEPT ![o] = k.cell]
  /\ IF k.pc = "write" THEN Goto(o, t, "index") ELSE SetTask(o, t, Idle)
  /\ UNCHANGED <<state, index, sectors, reused>>

\* Mutation of Index: set_sector inserts nothing when the index is the same.
IndexIfNew(o, t) ==
  /\ task[o][t].pc = "index"
  /\ index' = [index EXCEPT ![o] = SectorOf(pos[o])]
  /\ IF index'[o] = index[o] /\ task[o][t].kind # "login"
     THEN SetTask(o, t, Idle) ELSE Goto(o, t, "insert")
  /\ UNCHANGED <<state, pos, sectors, reused>>

\* set_sector computes the index from the cell ...
Index(o, t) ==
  /\ task[o][t].pc = "index"
  /\ index' = [index EXCEPT ![o] = SectorOf(pos[o])]
  /\ Goto(o, t, "insert")
  /\ UNCHANGED <<state, pos, sectors, reused>>

\* ... and inserts the object there; CS_LOGIN then marks it ST_INGAME.
Insert(o, t) ==
  LET k == task[o][t] IN
  /\ k.pc = "insert"
  /\ sectors' = [sectors EXCEPT ![index[o]] = @ \cup {o}]
  /\ state'   = IF k.kind = "login" THEN [state EXCEPT ![o] = "ingame"] ELSE state
  /\ SetTask(o, t, Idle)
  /\ UNCHANGED <<pos, index, reused>>

-----------------------------------------------------------------------------
\* The monsters are placed by Initialize_npc, wherever rand() says.
Init ==
  /\ state = [o \in Objects |-> IF o \in Npcs THEN "ingame" ELSE "free"]
  /\ \E cell \in [Npcs -> Cells] :
       pos = [o \in Objects |-> IF o \in Npcs THEN cell[o] ELSE <<0, 0>>]
  /\ index   = [o \in Objects |-> SectorOf(pos[o])]
  /\ sectors = [g \in Grid |-> {o \in Npcs : index[o] = g}]
  /\ task    = [o \in Objects |-> [t \in Threads |-> Idle]]
  /\ reused  = [o \in Objects |-> FALSE]

Begin(o) == \/ Accept(o) \/ Login(o) \/ Move(o) \/ Teleport(o)
            \/ do_random_move(o) \/ Death(o) \/ Disconnect(o)

Step(o, t) == Compare(o, t) \/ Erase(o, t) \/ Write(o, t) \/ Index(o, t) \/ Insert(o, t)

Next == \E o \in Objects : Begin(o) \/ \E t \in Threads : Step(o, t)

Spec == Init /\ [][Next]_vars

-----------------------------------------------------------------------------
Tasks == [pc : {"idle", "compare", "erase", "write", "stay", "index", "insert"},
          kind : {"none", "login", "move", "jump", "death"}, cell : Cells]

\* Types of the variables; no index leaves the grid.
TypeOK ==
  /\ state \in [Objects -> {"free", "alloc", "ingame"}]
  /\ pos \in [Objects -> Cells] /\ index \in [Objects -> Grid]
  /\ sectors \in [Grid -> SUBSET Objects]
  /\ task \in [Objects -> [Threads -> Tasks]]
  /\ reused \in [Objects -> BOOLEAN]

Settled(o) == state[o] = "ingame" /\ Quiet(o)
Registered(o) == \E g \in Grid : o \in sectors[g]

\* README.md, sectors: an object whose sector changes is registered anew.
\* In the game and between two handlers it stands in the list of the sector
\* of its cell, and the index names that sector.
RegisteredAtHome(o) ==
  Settled(o) => index[o] = SectorOf(pos[o]) /\ o \in sectors[index[o]]

\* This holds for the objects whose handlers do not overlap.
ExclusiveAtHome == \A o \in Objects \ Overlap : RegisteredAtHome(o)

\* An object handled by one thread at a time stands in one list at most, in
\* every step of every handler, as long as its slot has not been reused.
OneSector ==
  \A o \in Objects \ Overlap : ~reused[o] =>
    \A g, h \in Grid : o \in sectors[g] /\ o \in sectors[h] => g = h

\* However the handlers of an object overlap, when all of them are done the
\* object is in some list: no scan order loses it for good.
NeverLost == \A o \in Objects : Settled(o) => Registered(o)

\* Scanning the 3 x 3 sectors around an object finds every object within
\* VIEW_RANGE of it: comparing with everybody would find no more.
ScanComplete ==
  \A a, b \in Objects \ Overlap :
    /\ a # b /\ Settled(a) /\ Settled(b)
    /\ can_see(a, b)
    => b \in Scanned(a)
=============================================================================
