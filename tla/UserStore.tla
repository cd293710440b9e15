----------------------------- MODULE UserStore ------------------------------
(***************************************************************************)
(* What becomes of an account's record (x, y, hp, max_hp, level, exp): it  *)
(* is loaded by CS_LOGIN, changed by the handlers, queued in g_db_queue by *)
(* API_ChangeStat, and written to the table by db_update, which drains the *)
(* queue and sweeps over the ST_INGAME slots every 5 seconds.              *)
(*                                                                         *)
(* A record is abstracted to [of, ver]: the account it was loaded for and  *)
(* a version.  made numbers the versions of an account in the order they   *)
(* came about, so a smaller version is an older one.  A record is copied   *)
(* and written in one step.                                                *)
(*                                                                         *)
(* The check for a second login (pl._name == p->name) compares the address *)
(* of two arrays and is never true: LoginFind has no such guard.           *)
(*                                                                         *)
(* The table and its stored procedure are external: user_id is a key, so a *)
(* second INSERT fails, and storeUserData changes a row that is there.     *)
(***************************************************************************)
EXTENDS Integers, Sequences

CONSTANTS
  Slots,      \* session slots of users
  Names,      \* accounts
  MaxMade,    \* bound: versions of an account
  MaxQueue,   \* bound: tasks in g_db_queue
  Sessions,   \* bound: connections accepted in all
  None

ASSUME NoneAssumption  == None \notin Slots \cup Names
ASSUME BoundAssumption == MaxMade \in Nat /\ MaxQueue \in Nat /\ Sessions \in Nat

VARIABLES
  state,    \* _state of each slot
  name,     \* _name
  rec,      \* the record in the slot
  row,      \* table: the row of each account
  queue,    \* g_db_queue
  db,       \* db_update: where it is, slots to sweep, the copy to write
  login,    \* CS_LOGIN of each slot: where it is, whose, the record fetched
  hit,      \* the worker in API_ChangeStat: where it is, the slot, the name
  made,     \* versions of each account so far
  served,   \* history: the accounts each slot has carried
  accepted  \* for the bound: connections accepted so far

vars == <<state, name, rec, row, queue, db, login, hit, made, served, accepted>>

-----------------------------------------------------------------------------
Record(of, ver) == [of |-> of, ver |-> ver]
NoRecord == Record(None, 0)   \* no row; a slot no account has been loaded in

Login(pc, who, data) == [pc |-> pc, who |-> who, data |-> data]
NoLogin == Login("idle", None, NoRecord)
Hit(pc, slot, who) == [pc |-> pc, slot |-> slot, who |-> who]
NoHit == Hit("idle", None, None)
Db(pc, todo, slot, data) == [pc |-> pc, todo |-> todo, slot |-> slot, data |-> data]
Draining == Db("drain", {}, None, NoRecord)

InGame(s) == state[s] = "ingame"

\* UpdateUserData: EXEC storeUserData with the name and the values given.
Stored(who, data) == [n \in Names |-> IF n = who /\ row[n] # NoRecord THEN data ELSE row[n]]

\* The record of slot s changes.
Changed(s) ==
  LET a == rec[s].of IN
  /\ a \in Names /\ made[a] < MaxMade
  /\ made' = [made EXCEPT ![a] = @ + 1]
  /\ rec'  = [rec EXCEPT ![s] = Record(a, made[a] + 1)]

-----------------------------------------------------------------------------
(* Sessions. *)

\* OP_ACCEPT: the first free slot, its name emptied, its record left.
Accept(s) ==
  /\ state[s] = "free" /\ login[s] = NoLogin
  /\ accepted < Sessions /\ accepted' = accepted + 1
  /\ state' = [state EXCEPT ![s] = "alloc"]
  /\ name'  = [name EXCEPT ![s] = None]
  /\ \E n \in Names : login' = [login EXCEPT ![s] = Login("find", n, NoRecord)]
  /\ UNCHANGED <<rec, row, queue, db, hit, made, served>>

LoginGoto(s, pc) == login' = [login EXCEPT ![s].pc = pc]

\* CS_LOGIN: FindUserData
LoginFind(s) ==
  /\ login[s].pc = "find"
  /\ LoginGoto(s, IF row[login[s].who] = NoRecord THEN "create" ELSE "name")
  /\ UNCHANGED <<state, name, rec, row, queue, db, hit, made, served, accepted>>

\* CreateUserData: level 1 at (1, 1); nothing if somebody else has created it.
LoginCreate(s) ==
  LET n == login[s].who IN
  /\ login[s].pc = "create"
  /\ row' = [row EXCEPT ![n] = IF @ = NoRecord THEN Record(n, 0) ELSE @]
  /\ LoginGoto(s, "name")
  /\ UNCHANGED <<state, name, rec, queue, db, hit, made, served, accepted>>

\* strcpy_s(objects[c_id]._name, p->name): the record is still the old one.
LoginName(s) ==
  LET n == login[s].who IN
  /\ login[s].pc = "name"
  /\ name'   = [name EXCEPT ![s] = n]
  /\ served' = [served EXCEPT ![s] = @ \cup {n}]
  /\ LoginGoto(s, "get")
  /\ UNCHANGED <<state, rec, row, queue, db, hit, made, accepted>>

\* GetUserData
LoginGet(s) ==
  /\ login[s].pc = "get"
  /\ login' = [login EXCEPT ![s].pc = "assign", ![s].data = row[login[s].who]]
  /\ UNCHANGED <<state, name, rec, row, queue, db, hit, made, served, accepted>>

\* The record becomes the account's own.
LoginAssign(s) ==
  /\ login[s].pc = "assign"
  /\ rec' = [rec EXCEPT ![s] = Record(login[s].who, login[s].data.ver)]
  /\ LoginGoto(s, "enter")
  /\ UNCHANGED <<state, name, row, queue, db, hit, made, served, accepted>>

\* _state = ST_INGAME, whatever has happened to the session meanwhile.
LoginEnter(s) ==
  /\ login[s].pc = "enter"
  /\ state' = [state EXCEPT ![s] = "ingame"]
  /\ login' = [login EXCEPT ![s] = NoLogin]
  /\ UNCHANGED <<name, rec, row, queue, db, hit, made, served, accepted>>

\* disconnect: nothing is saved.  It can come before ST_INGAME, when the
\* login packet cannot be sent.
Disconnect(s) ==
  /\ state[s] # "free" /\ login[s].pc \in {"idle", "enter"}
  /\ state' = [state EXCEPT ![s] = "free"]
  /\ UNCHANGED <<name, rec, row, queue, db, login, hit, made, served, accepted>>

\* CS_MOVE, CS_TELEPORT, EV_HEAL and CS_ATTACK change the record without
\* queueing it: after a kill the UpdateUserData of the killer is commented out.
Change(s) ==
  /\ InGame(s) /\ Changed(s)
  /\ UNCHANGED <<state, name, row, queue, db, login, hit, served, accepted>>

-----------------------------------------------------------------------------
(* API_ChangeStat: a monster's script hits or kills the user of a slot.  It *)
(* only has the slot's number, so a slot that has been left can be hit.     *)

HitBegin(s) ==
  /\ hit = NoHit /\ (InGame(s) \/ rec[s].of # None)
  /\ Changed(s)
  /\ hit' = Hit("name", s, None)
  /\ UNCHANGED <<state, name, row, queue, db, login, served, accepted>>

\* strcpy_s(task.name, objects[user_id]._name)
HitName ==
  /\ hit.pc = "name"
  /\ hit' = Hit("push", hit.slot, name[hit.slot])
  /\ UNCHANGED <<state, name, rec, row, queue, db, login, made, served, accepted>>

\* The values are copied and the task is pushed.
HitPush ==
  /\ hit.pc = "push" /\ Len(queue) < MaxQueue
  /\ queue' = Append(queue, [who |-> hit.who, data |-> rec[hit.slot]])
  /\ hit' = NoHit
  /\ UNCHANGED <<state, name, rec, row, db, login, made, served, accepted>>

-----------------------------------------------------------------------------
(* db_update. *)

\* while (g_db_queue.try_pop(task)) db.UpdateUserData(...)
Drain ==
  /\ db.pc = "drain" /\ queue # <<>>
  /\ row' = Stored(Head(queue).who, Head(queue).data)
  /\ queue' = Tail(queue)
  /\ UNCHANGED <<state, name, rec, db, login, hit, made, served, accepted>>

\* The queue is empty and 5 seconds have passed.
SweepBegin ==
  /\ db.pc = "drain" /\ queue = <<>>
  /\ db' = Db("sweep", Slots, None, NoRecord)
  /\ UNCHANGED <<state, name, rec, row, queue, login, hit, made, served, accepted>>

\* Mutation of SweepLook: break where the code has continue.
SweepLookBreak(s) ==
  /\ db.pc = "sweep" /\ s \in db.todo
  /\ db' = IF InGame(s) THEN Db("write", db.todo \ {s}, s, rec[s])
                        ELSE Db("sweep", {}, None, NoRecord)
  /\ UNCHANGED <<state, name, rec, row, queue, login, hit, made, served, accepted>>

\* A slot in the game: its record is copied, its name is not.
SweepLook(s) ==
  /\ db.pc = "sweep" /\ s \in db.todo
  /\ db' = IF InGame(s) THEN Db("write", db.todo \ {s}, s, rec[s])
                        ELSE Db("sweep", db.todo \ {s}, None, NoRecord)
  /\ UNCHANGED <<state, name, rec, row, queue, login, hit, made, served, accepted>>

\* Mutation of SweepWrite: the next slot's name goes with the record.
SweepWriteOther ==
  /\ db.pc = "write"
  /\ row' = Stored(name[CHOOSE s \in Slots : s # db.slot], db.data)
  /\ db' = Db("sweep", db.todo, None, NoRecord)
  /\ UNCHANGED <<state, name, rec, queue, login, hit, made, served, accepted>>

\* UpdateUserData reads the name when it has the mutex of the database.
SweepWrite ==
  /\ db.pc = "write"
  /\ row' = Stored(name[db.slot], db.data)
  /\ db' = Db("sweep", db.todo, None, NoRecord)
  /\ UNCHANGED <<state, name, rec, queue, login, hit, made, served, accepted>>

SweepEnd ==
  /\ db.pc = "sweep" /\ db.todo = {}
  /\ db' = Draining
  /\ UNCHANGED <<state, name, rec, row, queue, login, hit, made, served, accepted>>

-----------------------------------------------------------------------------
Init ==
  /\ state = [s \in Slots |-> "free"] /\ name = [s \in Slots |-> None]
  /\ rec   = [s \in Slots |-> NoRecord]
  /\ row   = [n \in Names |-> NoRecord] /\ queue = <<>>
  /\ db    = Draining /\ hit = NoHit
  /\ login = [s \in Slots |-> NoLogin]
  /\ made  = [n \in Names |-> 0]
  /\ served = [s \in Slots |-> {}] /\ accepted = 0

LoginStep(s) == \/ LoginFind(s) \/ LoginCreate(s) \/ LoginName(s)
                \/ LoginGet(s) \/ LoginAssign(s) \/ LoginEnter(s)
HitStep == HitName \/ HitPush
DbStep  == Drain \/ SweepBegin \/ (\E s \in Slots : SweepLook(s)) \/ SweepWrite \/ SweepEnd

Next ==
  \/ \E s \in Slots : \/ Accept(s) \/ LoginStep(s) \/ Disconnect(s)
                      \/ Change(s) \/ HitBegin(s)
  \/ HitStep \/ DbStep

Spec == Init /\ [][Next]_vars

\* Threads run what they have begun; db_update never stops.
Fairness == WF_vars(HitStep) /\ WF_vars(DbStep) /\ \A s \in Slots : WF_vars(LoginStep(s))
FairSpec == Spec /\ Fairness

-----------------------------------------------------------------------------
Records == [of : Names \cup {None}, ver : 0..MaxMade]

\* Types of the variables.
TypeOK ==
  /\ state \in [Slots -> {"free", "alloc", "ingame"}]
  /\ name \in [Slots -> Names \cup {None}]
  /\ rec \in [Slots -> Records] /\ row \in [Names -> Records]
  /\ queue \in Seq([who : Names \cup {None}, data : Records])
  /\ db \in [pc : {"drain", "sweep", "write"}, todo : SUBSET Slots,
             slot : Slots \cup {None}, data : Records]
  /\ login \in [Slots -> [pc : {"idle", "find", "create", "name", "get", "assign", "enter"},
                          who : Names \cup {None}, data : Records]]
  /\ hit \in [pc : {"idle", "name", "push"}, slot : Slots \cup {None},
              who : Names \cup {None}]
  /\ made \in [Names -> 0..MaxMade]
  /\ served \in [Slots -> SUBSET Names] /\ accepted \in 0..Sessions

\* The record of one account gets into the row of another only through a slot
\* that has carried both: by the sweep or a hit that crosses a login there.
Crossed(m, n) == m # n /\ \E s \in Slots : {m, n} \subseteq served[s]
OwnRow == \A n \in Names :
            row[n] = NoRecord \/ row[n].of = n \/ Crossed(row[n].of, n)

\* A session that stays in the game, the only one of its account, is saved:
\* when its record has stopped changing the row holds it for good, whatever
\* older tasks and older sessions of the account were still under way.
Alone(s) == \A t \in Slots \ {s} : ~(InGame(t) /\ name[t] = name[s])
StayerIsSaved ==
  \A s \in Slots : \A n \in Names :
    <>[](InGame(s) /\ name[s] = n /\ login[s] = NoLogin /\ Alone(s))
      => <>[](row[n] = rec[s])

\* README.md, on saving: a second login of an account fails.
NoDoubleLogin ==
  \A s, t \in Slots : InGame(s) /\ InGame(t) /\ name[s] = name[t] => s = t
=============================================================================
