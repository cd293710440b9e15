-------------------------- MODULE UserStoreProofs ---------------------------
(***************************************************************************)
(* Proofs about UserStore: its types, and that a record gets into a row of *)
(* another account only through a slot that has carried both.              *)
(***************************************************************************)
EXTENDS UserStore, SequenceTheorems, TLAPS

LoginPcs == {"idle", "find", "create", "name", "get", "assign", "enter"}
Logins == [pc : LoginPcs, who : Names \cup {None}, data : Records]
Tasks  == [who : Names \cup {None}, data : Records]

\* Records that come about in the steps are records.
LEMMA RecordType ==
  ASSUME NEW of \in Names \cup {None}, NEW ver \in 0..MaxMade
  PROVE  /\ Record(of, ver) \in Records
         /\ Record(of, ver).of = of /\ Record(of, ver).ver = ver
  BY DEF Record, Records

LEMMA NoRecordType == NoRecord \in Records /\ NoRecord.of = None
  BY BoundAssumption DEF NoRecord, Record, Records

\* A login that goes on to another of its places.
LEMMA GotoType ==
  ASSUME login \in [Slots -> Logins], NEW s \in Slots, NEW pc \in LoginPcs, LoginGoto(s, pc)
  PROVE  /\ login' \in [Slots -> Logins]
         /\ login'[s].pc = pc /\ login'[s].who = login[s].who
         /\ \A t \in Slots \ {s} : login'[t] = login[t]
<1>1. login[s] \in Logins
  OBVIOUS
<1>2. [login[s] EXCEPT !.pc = pc] \in Logins
  BY <1>1 DEF Logins
<1>3. login' = [login EXCEPT ![s] = [login[s] EXCEPT !.pc = pc]]
  BY DEF LoginGoto
<1>4. login'[s] = [login[s] EXCEPT !.pc = pc]
  BY <1>3
<1>5. [login[s] EXCEPT !.pc = pc].pc = pc /\ [login[s] EXCEPT !.pc = pc].who = login[s].who
  BY <1>1 DEF Logins
<1>6. login' \in [Slots -> Logins]
  BY <1>2, <1>3
<1>7. \A t \in Slots \ {s} : login'[t] = login[t]
  BY <1>3
<1> QED
  BY <1>4, <1>5, <1>6, <1>7

\* What storeUserData leaves in the table.
LEMMA StoredType ==
  ASSUME row \in [Names -> Records], NEW who, NEW data \in Records
  PROVE  Stored(who, data) \in [Names -> Records]
  BY DEF Stored

\* A change of a slot's record.
LEMMA ChangedType ==
  ASSUME TypeOK, NEW s \in Slots, Changed(s)
  PROVE  /\ made' \in [Names -> 0..MaxMade] /\ rec' \in [Slots -> Records]
         /\ rec[s].of \in Names /\ \A t \in Slots : rec'[t].of = rec[t].of
<1> DEFINE a == rec[s].of
<1>1. a \in Names /\ made[a] \in 0..MaxMade /\ made[a] < MaxMade
  BY DEF Changed, TypeOK
<1>2. made[a] + 1 \in 0..MaxMade
  BY <1>1, BoundAssumption
<1>3. made' = [made EXCEPT ![a] = made[a] + 1]
  BY DEF Changed
<1>4. rec' = [rec EXCEPT ![s] = Record(a, made[a] + 1)]
  BY DEF Changed
<1>5. Record(a, made[a] + 1) \in Records /\ Record(a, made[a] + 1).of = a
  BY <1>1, <1>2, RecordType
<1>6. made' \in [Names -> 0..MaxMade]
  BY <1>2, <1>3 DEF TypeOK
<1>7. rec' \in [Slots -> Records] /\ \A t \in Slots : rec'[t].of = rec[t].of
  BY <1>4, <1>5 DEF TypeOK
<1> QED
  BY <1>1, <1>6, <1>7

(***************************************************************************)
(* Types.  A login under way has an account and a hit under way a slot;    *)
(* without that the values they look up could be anything.                 *)
(***************************************************************************)
LoginHasName == \A s \in Slots : login[s].pc # "idle" => login[s].who \in Names
HitHasSlot   == hit.pc # "idle" => hit.slot \in Slots
TypeInv == TypeOK /\ LoginHasName /\ HitHasSlot

LEMMA InitTypeInv == Init => TypeInv
<1> SUFFICES ASSUME Init PROVE TypeInv
  OBVIOUS
<1>1. NoRecord \in Records
  BY NoRecordType
<1>2. NoLogin \in Logins /\ NoLogin.pc = "idle"
  BY <1>1 DEF NoLogin, Login, Logins, LoginPcs
<1>3. login \in [Slots -> Logins] /\ LoginHasName
  BY <1>2 DEF Init, LoginHasName
<1>4. db \in [pc : {"drain", "sweep", "write"}, todo : SUBSET Slots,
              slot : Slots \cup {None}, data : Records]
  BY <1>1 DEF Init, Draining, Db
<1>5. /\ hit \in [pc : {"idle", "name", "push"}, slot : Slots \cup {None},
                  who : Names \cup {None}]
      /\ HitHasSlot
  BY DEF Init, NoHit, Hit, HitHasSlot
<1>6. queue \in Seq(Tasks)
  BY DEF Init
<1> QED
  BY <1>1, <1>3, <1>4, <1>5, <1>6, BoundAssumption
  DEF Init, TypeInv, TypeOK, Logins, LoginPcs, Tasks

\* A step of CS_LOGIN keeps the types of what it changes.
LEMMA LoginTypes ==
  ASSUME TypeInv, NEW s \in Slots, LoginStep(s)
  PROVE  TypeInv'
<1>t. login \in [Slots -> Logins] /\ login[s] \in Logins
  BY DEF TypeInv, TypeOK, Logins, LoginPcs
<1>w. login[s].pc # "idle" => login[s].who \in Names
  BY DEF TypeInv, LoginHasName
<1>g. ASSUME NEW pc \in LoginPcs, login[s].pc # "idle", LoginGoto(s, pc)
      PROVE  login' \in [Slots -> Logins] /\ LoginHasName'
  BY <1>g, <1>t, GotoType DEF TypeInv, LoginHasName
<1>n. NoRecord \in Records /\ NoLogin \in Logins /\ NoLogin.pc = "idle"
  BY NoRecordType DEF NoLogin, Login, Logins, LoginPcs
<1>1. CASE LoginFind(s)
  <2>1. /\ login[s].pc # "idle"
        /\ LoginGoto(s, "create") \/ LoginGoto(s, "name")
    BY <1>1 DEF LoginFind
  <2>2. login' \in [Slots -> Logins] /\ LoginHasName'
    BY <2>1, <1>g DEF LoginPcs
  <2> QED
    BY <1>1, <2>2 DEF LoginFind, TypeInv, TypeOK, Logins, LoginPcs, HitHasSlot
<1>2. CASE LoginCreate(s)
  <2>1. login' \in [Slots -> Logins] /\ LoginHasName'
    BY <1>2, <1>g DEF LoginCreate, LoginPcs
  <2>2. row' \in [Names -> Records]
    <3>1. Record(login[s].who, 0) \in Records
      BY <1>2, <1>w, RecordType, BoundAssumption DEF LoginCreate
    <3> QED
      BY <3>1, <1>2 DEF LoginCreate, TypeInv, TypeOK
  <2> QED
    BY <1>2, <2>1, <2>2 DEF LoginCreate, TypeInv, TypeOK, Logins, LoginPcs, HitHasSlot
<1>3. CASE LoginName(s)
  <2>1. login' \in [Slots -> Logins] /\ LoginHasName'
    BY <1>3, <1>g DEF LoginName, LoginPcs
  <2>2. login[s].who \in Names
    BY <1>3, <1>w DEF LoginName
  <2>3. name' \in [Slots -> Names \cup {None}] /\ served' \in [Slots -> SUBSET Names]
    BY <1>3, <2>2 DEF LoginName, TypeInv, TypeOK
  <2> QED
    BY <1>3, <2>1, <2>3 DEF LoginName, TypeInv, TypeOK, Logins, LoginPcs, HitHasSlot
<1>4. CASE LoginGet(s)
  <2>1. login[s].who \in Names /\ row[login[s].who] \in Records
    BY <1>4, <1>w DEF LoginGet, TypeInv, TypeOK
  <2> DEFINE l == [[login[s] EXCEPT !.pc = "assign"] EXCEPT !.data = row[login[s].who]]
  <2>2. login' = [login EXCEPT ![s] = l]
    BY <1>4 DEF LoginGet
  <2>3. l \in Logins /\ l.who = login[s].who
    BY <1>t, <2>1 DEF Logins, LoginPcs
  <2> HIDE DEF l
  <2>4. login' \in [Slots -> Logins] /\ LoginHasName'
    BY <1>t, <2>1, <2>2, <2>3 DEF TypeInv, LoginHasName
  <2> QED
    BY <1>4, <2>4 DEF LoginGet, TypeInv, TypeOK, Logins, LoginPcs, HitHasSlot
<1>5. CASE LoginAssign(s)
  <2>1. login' \in [Slots -> Logins] /\ LoginHasName'
    BY <1>5, <1>g DEF LoginAssign, LoginPcs
  <2>2. login[s].who \in Names /\ login[s].data.ver \in 0..MaxMade
    BY <1>5, <1>w, <1>t DEF LoginAssign, Logins, Records
  <2>3. rec' \in [Slots -> Records]
    BY <1>5, <2>2, RecordType DEF LoginAssign, TypeInv, TypeOK
  <2> QED
    BY <1>5, <2>1, <2>3 DEF LoginAssign, TypeInv, TypeOK, Logins, LoginPcs, HitHasSlot
<1>6. CASE LoginEnter(s)
  <2>1. login' \in [Slots -> Logins] /\ LoginHasName'
    BY <1>6, <1>t, <1>n DEF LoginEnter, TypeInv, LoginHasName
  <2>2. state' \in [Slots -> {"free", "alloc", "ingame"}]
    BY <1>6 DEF LoginEnter, TypeInv, TypeOK
  <2> QED
    BY <1>6, <2>1, <2>2 DEF LoginEnter, TypeInv, TypeOK, Logins, LoginPcs, HitHasSlot
<1> QED
  BY <1>1, <1>2, <1>3, <1>4, <1>5, <1>6 DEF LoginStep

\* A step of API_ChangeStat.
LEMMA HitTypes ==
  ASSUME TypeInv, HitStep
  PROVE  TypeInv'
<1>s. hit.slot \in Slots
  BY DEF HitStep, HitName, HitPush, TypeInv, HitHasSlot
<1>1. CASE HitName
  <2>1. /\ hit' \in [pc : {"idle", "name", "push"}, slot : Slots \cup {None},
                     who : Names \cup {None}]
        /\ HitHasSlot'
    BY <1>1, <1>s DEF HitName, Hit, HitHasSlot, TypeInv, TypeOK
  <2> QED
    BY <1>1, <2>1 DEF HitName, TypeInv, TypeOK, LoginHasName
<1>2. CASE HitPush
  <2>1. /\ hit' \in [pc : {"idle", "name", "push"}, slot : Slots \cup {None},
                     who : Names \cup {None}]
        /\ HitHasSlot'
    BY <1>2 DEF HitPush, NoHit, Hit, HitHasSlot
  <2>2. [who |-> hit.who, data |-> rec[hit.slot]] \in Tasks
    BY <1>s DEF TypeInv, TypeOK, Tasks
  <2>3. queue' \in Seq(Tasks)
    BY <1>2, <2>2 DEF HitPush, TypeInv, TypeOK, Tasks
  <2> QED
    BY <1>2, <2>1, <2>3 DEF HitPush, TypeInv, TypeOK, LoginHasName, Tasks
<1> QED
  BY <1>1, <1>2 DEF HitStep

\* A step of db_update.
LEMMA DbTypes ==
  ASSUME TypeInv, DbStep
  PROVE  TypeInv'
<1> DEFINE Dbs == [pc : {"drain", "sweep", "write"}, todo : SUBSET Slots,
                   slot : Slots \cup {None}, data : Records]
<1>t. db \in Dbs /\ NoRecord \in Records
  BY NoRecordType DEF TypeInv, TypeOK
<1>1. CASE Drain
  <2>1. queue \in Seq(Tasks) /\ queue # <<>>
    BY <1>1 DEF Drain, TypeInv, TypeOK, Tasks
  <2>2. Head(queue) \in Tasks /\ Tail(queue) \in Seq(Tasks)
    BY <2>1, HeadTailProperties
  <2>3. row' \in [Names -> Records]
    BY <1>1, <2>2, StoredType DEF Drain, Tasks, TypeInv, TypeOK
  <2> QED
    BY <1>1, <2>2, <2>3 DEF Drain, TypeInv, TypeOK, Tasks, LoginHasName, HitHasSlot
<1>2. CASE SweepBegin
  <2>1. db' \in Dbs
    BY <1>2, <1>t DEF SweepBegin, Db
  <2> QED
    BY <1>2, <2>1 DEF SweepBegin, TypeInv, TypeOK, LoginHasName, HitHasSlot
<1>3. ASSUME NEW s \in Slots, SweepLook(s) PROVE TypeInv'
  <2>1. db' \in Dbs
    BY <1>3, <1>t DEF SweepLook, Db, TypeInv, TypeOK
  <2> QED
    BY <1>3, <2>1 DEF SweepLook, TypeInv, TypeOK, LoginHasName, HitHasSlot
<1>4. CASE SweepWrite
  <2>1. db' \in Dbs
    BY <1>4, <1>t DEF SweepWrite, Db
  <2>2. row' \in [Names -> Records]
    BY <1>4, <1>t, StoredType DEF SweepWrite, TypeInv, TypeOK
  <2> QED
    BY <1>4, <2>1, <2>2 DEF SweepWrite, TypeInv, TypeOK, LoginHasName, HitHasSlot
<1>5. CASE SweepEnd
  <2>1. db' \in Dbs
    BY <1>5, <1>t DEF SweepEnd, Draining, Db
  <2> QED
    BY <1>5, <2>1 DEF SweepEnd, TypeInv, TypeOK, LoginHasName, HitHasSlot
<1> QED
  BY <1>1, <1>2, <1>3, <1>4, <1>5 DEF DbStep

LEMMA NextTypeInv == TypeInv /\ [Next]_vars => TypeInv'
<1> SUFFICES ASSUME TypeInv, [Next]_vars PROVE TypeInv'
  OBVIOUS
<1>1. ASSUME NEW s \in Slots, Accept(s) PROVE TypeInv'
  <2>1. PICK n \in Names : login' = [login EXCEPT ![s] = Login("find", n, NoRecord)]
    BY <1>1 DEF Accept
  <2>2. Login("find", n, NoRecord) \in Logins /\ Login("find", n, NoRecord).who = n
    BY NoRecordType DEF Login, Logins, LoginPcs
  <2>3. login' \in [Slots -> Logins] /\ LoginHasName'
    BY <2>1, <2>2 DEF TypeInv, TypeOK, LoginHasName, Logins, LoginPcs
  <2>4. /\ state' \in [Slots -> {"free", "alloc", "ingame"}]
        /\ name' \in [Slots -> Names \cup {None}]
    BY <1>1 DEF Accept, TypeInv, TypeOK
  <2>5. accepted' \in 0..Sessions
    BY <1>1, BoundAssumption DEF Accept, TypeInv, TypeOK
  <2> QED
    BY <1>1, <2>3, <2>4, <2>5 DEF Accept, TypeInv, TypeOK, Logins, LoginPcs, HitHasSlot
<1>2. ASSUME NEW s \in Slots, Disconnect(s) PROVE TypeInv'
  <2>1. state' \in [Slots -> {"free", "alloc", "ingame"}]
    BY <1>2 DEF Disconnect, TypeInv, TypeOK
  <2> QED
    BY <1>2, <2>1 DEF Disconnect, TypeInv, TypeOK, LoginHasName, HitHasSlot
<1>3. ASSUME NEW s \in Slots, Change(s) PROVE TypeInv'
  <2>1. made' \in [Names -> 0..MaxMade] /\ rec' \in [Slots -> Records]
    BY <1>3, ChangedType DEF Change, TypeInv
  <2> QED
    BY <1>3, <2>1 DEF Change, TypeInv, TypeOK, LoginHasName, HitHasSlot
<1>4. ASSUME NEW s \in Slots, HitBegin(s) PROVE TypeInv'
  <2>1. made' \in [Names -> 0..MaxMade] /\ rec' \in [Slots -> Records]
    BY <1>4, ChangedType DEF HitBegin, TypeInv
  <2>2. /\ hit' \in [pc : {"idle", "name", "push"}, slot : Slots \cup {None},
                     who : Names \cup {None}]
        /\ HitHasSlot'
    BY <1>4 DEF HitBegin, Hit, HitHasSlot
  <2> QED
    BY <1>4, <2>1, <2>2 DEF HitBegin, TypeInv, TypeOK, LoginHasName
<1>5. CASE UNCHANGED vars
  BY <1>5 DEF vars, TypeInv, TypeOK, LoginHasName, HitHasSlot
<1> QED
  BY <1>1, <1>2, <1>3, <1>4, <1>5, LoginTypes, HitTypes, DbTypes DEF Next

\* TypeOK for every number of slots and accounts.
THEOREM TypesHold == Spec => []TypeOK
<1>1. TypeInv => TypeOK
  BY DEF TypeInv
<1> QED
  BY <1>1, InitTypeInv, NextTypeInv, PTL DEF Spec

(***************************************************************************)
(* OwnRow.  A name and a record that go to the table together come from    *)
(* one slot, though not from one moment; so it is enough that everything   *)
(* under way goes by what its slot has carried.                            *)
(***************************************************************************)
From(s, n) == n \in served[s] \cup {None}

NameServed  == \A s \in Slots : From(s, name[s])
RecServed   == \A s \in Slots : From(s, rec[s].of)
LoginServed == \A s \in Slots :
                 login[s].pc \in {"get", "assign", "enter"} => login[s].who \in served[s]
Loaded      == \A s \in Slots : InGame(s) \/ login[s].pc = "enter" => rec[s].of \in Names
SlotsServed == NameServed /\ RecServed /\ LoginServed /\ Loaded

HitServed   == hit.pc # "idle" => rec[hit.slot].of \in Names /\ From(hit.slot, hit.who)
WriteServed == db.pc = "write" => db.slot \in Slots /\ db.data.of \in served[db.slot]
TaskServed(t) == \E s \in Slots : t.data.of \in served[s] /\ From(s, t.who)
TasksServed == \A i \in 1..Len(queue) : TaskServed(queue[i])

OwnInv == SlotsServed /\ HitServed /\ WriteServed /\ TasksServed /\ OwnRow

LEMMA InitOwnInv == Init => OwnInv
<1> SUFFICES ASSUME Init PROVE OwnInv
  OBVIOUS
<1>1. SlotsServed
  BY NoRecordType DEF Init, SlotsServed, NameServed, RecServed, LoginServed, Loaded, From,
     InGame, NoLogin, Login
<1>2. HitServed /\ WriteServed /\ TasksServed /\ OwnRow
  BY DEF Init, HitServed, WriteServed, TasksServed, OwnRow, NoHit, Hit, Draining, Db
<1> QED
  BY <1>1, <1>2 DEF OwnInv

\* A record of a slot's account, stored under a name of the same slot.
LEMMA StoredOwn ==
  ASSUME TypeInv, OwnRow, NEW s \in Slots, NEW who, From(s, who),
         NEW data \in Records, data.of \in served[s],
         row' = Stored(who, data), served' = served
  PROVE  OwnRow'
<1> SUFFICES ASSUME NEW n \in Names
             PROVE  (row[n] = NoRecord \/ row[n].of = n \/ Crossed(row[n].of, n))'
  BY DEF OwnRow
<1>1. row'[n] = IF n = who /\ row[n] # NoRecord THEN data ELSE row[n]
  BY DEF Stored
<1>2. CASE row'[n] = row[n]
  <2>1. row[n] = NoRecord \/ row[n].of = n \/ Crossed(row[n].of, n)
    BY DEF OwnRow
  <2>2. Crossed(row[n].of, n) => Crossed(row[n].of, n)'
    BY <1>2 DEF Crossed
  <2>3. NoRecord' = NoRecord
    BY DEF NoRecord, Record
  <2> QED
    BY <1>2, <2>1, <2>2, <2>3
<1>3. CASE row'[n] = data /\ n = who
  <2>1. n \in served[s]
    BY <1>3, NoneAssumption DEF From
  <2>2. {data.of, n} \subseteq served'[s]
    BY <2>1
  <2>3. data.of = n \/ Crossed(row[n].of, n)'
    BY <1>3, <2>2 DEF Crossed
  <2> QED
    BY <1>3, <2>3
<1> QED
  BY <1>1, <1>2, <1>3

\* A slot does not lose an account, nor a record; what is under way goes by that.
Grown == \A s \in Slots : /\ served[s] \subseteq served'[s]
                          /\ rec[s].of \in Names => rec'[s].of \in Names
LEMMA GrownKeeps ==
  ASSUME TypeInv, OwnInv, Grown
  PROVE  /\ UNCHANGED hit   => HitServed'
         /\ UNCHANGED db    => WriteServed'
         /\ UNCHANGED queue => TasksServed'
         /\ UNCHANGED row   => OwnRow'
<1>1. ASSUME UNCHANGED hit PROVE HitServed'
  <2>1. SUFFICES ASSUME hit.pc # "idle"
                 PROVE  rec'[hit.slot].of \in Names
                        /\ hit.who \in served'[hit.slot] \cup {None}
    BY <1>1 DEF HitServed, From
  <2>2. hit.slot \in Slots
    BY <2>1 DEF TypeInv, HitHasSlot
  <2> QED
    BY <2>1, <2>2 DEF OwnInv, HitServed, From, Grown
<1>2. UNCHANGED db => WriteServed'
  BY DEF OwnInv, WriteServed, Grown
<1>3. ASSUME UNCHANGED queue PROVE TasksServed'
  <2>1. \A i \in 1..Len(queue) : \E s \in Slots :
          queue[i].data.of \in served[s] /\ queue[i].who \in served[s] \cup {None}
    BY DEF OwnInv, TasksServed, TaskServed, From
  <2>2. \A i \in 1..Len(queue) : \E s \in Slots :
          queue[i].data.of \in served'[s] /\ queue[i].who \in served'[s] \cup {None}
    BY <2>1 DEF Grown
  <2> QED
    BY <1>3, <2>2 DEF TasksServed, TaskServed, From
<1>4. ASSUME UNCHANGED row PROVE OwnRow'
  <2>1. \A m, n : Crossed(m, n) => m # n /\ \E s \in Slots : {m, n} \subseteq served'[s]
    BY DEF Crossed, Grown
  <2>2. \A n \in Names : \/ row[n] = NoRecord \/ row[n].of = n
                         \/ row[n].of # n /\ \E s \in Slots : {row[n].of, n} \subseteq served'[s]
    BY <2>1 DEF OwnInv, OwnRow
  <2> QED
    BY <1>4, <2>2 DEF OwnRow, Crossed, NoRecord, Record
<1> QED
  BY <1>1, <1>2, <1>3, <1>4

LEMMA LoginOwn ==
  ASSUME TypeInv, OwnInv, NEW s \in Slots, LoginStep(s)
  PROVE  OwnInv'
<1>t. login \in [Slots -> Logins] /\ served \in [Slots -> SUBSET Names]
  BY DEF TypeInv, TypeOK, Logins, LoginPcs
<1>w. login[s].pc # "idle" => login[s].who \in Names
  BY DEF TypeInv, LoginHasName
<1>s. SlotsServed /\ HitServed /\ WriteServed /\ TasksServed /\ OwnRow
  BY DEF OwnInv
<1>1. CASE LoginFind(s)
  <2>1. PICK pc \in {"create", "name"} : LoginGoto(s, pc)
    BY <1>1 DEF LoginFind
  <2>2. login'[s].pc = pc /\ \A t \in Slots \ {s} : login'[t] = login[t]
    BY <2>1, <1>t, GotoType DEF LoginPcs
  <2>3. SlotsServed'
    BY <1>1, <1>s, <2>2
    DEF LoginFind, SlotsServed, NameServed, RecServed, LoginServed, Loaded, From, InGame
  <2>4. Grown
    BY <1>1 DEF LoginFind, Grown
  <2> QED
    BY <1>1, <2>3, <2>4, GrownKeeps DEF LoginFind, OwnInv
<1>2. CASE LoginCreate(s)
  <2>1. login'[s].pc = "name" /\ \A t \in Slots \ {s} : login'[t] = login[t]
    BY <1>2, <1>t, GotoType DEF LoginCreate, LoginPcs
  <2>2. SlotsServed'
    BY <1>2, <1>s, <2>1
    DEF LoginCreate, SlotsServed, NameServed, RecServed, LoginServed, Loaded, From, InGame
  <2>3. Grown
    BY <1>2 DEF LoginCreate, Grown
  <2>4. OwnRow'
    <3> DEFINE n == login[s].who
    <3>1. n \in Names /\ Record(n, 0).of = n
      BY <1>2, <1>w DEF LoginCreate, Record
    <3>2. row' = [row EXCEPT ![n] = IF row[n] = NoRecord THEN Record(n, 0) ELSE row[n]]
      BY <1>2 DEF LoginCreate
    <3>3. \A m \in Names : row'[m] = row[m] \/ row'[m].of = m
      BY <3>1, <3>2 DEF TypeInv, TypeOK
    <3>4. \A m \in Names : row[m] = NoRecord \/ row[m].of = m
                            \/ (row[m].of # m /\ \E t \in Slots : {row[m].of, m} \subseteq served'[t])
      <4>1. served' = served
        BY <1>2 DEF LoginCreate
      <4>2. \A k, m : Crossed(k, m) => k # m /\ \E t \in Slots : {k, m} \subseteq served'[t]
        BY <4>1 DEF Crossed
      <4> QED
        BY <1>s, <4>2 DEF OwnRow
    <3> QED
      BY <3>3, <3>4 DEF OwnRow, Crossed, NoRecord, Record
  <2> QED
    BY <1>2, <2>2, <2>3, <2>4, GrownKeeps DEF LoginCreate, OwnInv
<1>3. CASE LoginName(s)
  <2>1. login'[s].who = login[s].who /\ \A t \in Slots \ {s} : login'[t] = login[t]
    BY <1>3, <1>t, GotoType DEF LoginName, LoginPcs
  <2>2. /\ name'[s] = login[s].who /\ login[s].who \in served'[s]
        /\ \A t \in Slots : served[t] \subseteq served'[t]
        /\ \A t \in Slots \ {s} : name'[t] = name[t]
    BY <1>3, <1>t DEF LoginName, TypeInv, TypeOK
  <2>3. /\ NameServed' /\ RecServed' /\ LoginServed'
    BY <1>3, <1>s, <2>1, <2>2
    DEF LoginName, SlotsServed, NameServed, RecServed, LoginServed, From
  <2>4. Loaded'
    <3>1. login'[s].pc = "get"
      BY <1>3, <1>t, GotoType DEF LoginName, LoginPcs
    <3> QED
      BY <1>3, <1>s, <2>1, <3>1 DEF LoginName, SlotsServed, Loaded, InGame
  <2>5. Grown
    BY <1>3, <2>2 DEF LoginName, Grown
  <2> QED
    BY <1>3, <2>3, <2>4, <2>5, GrownKeeps DEF LoginName, OwnInv, SlotsServed
<1>4. CASE LoginGet(s)
  <2> DEFINE l == [[login[s] EXCEPT !.pc = "assign"] EXCEPT !.data = row[login[s].who]]
  <2>1. login' = [login EXCEPT ![s] = l] /\ login[s] \in Logins
    BY <1>4, <1>t DEF LoginGet
  <2>2. l.pc = "assign" /\ l.who = login[s].who
    BY <2>1 DEF Logins
  <2> HIDE DEF l
  <2>3. /\ login'[s].pc = "assign" /\ login'[s].who = login[s].who
        /\ \A t \in Slots \ {s} : login'[t] = login[t]
    BY <2>1, <2>2, <1>t
  <2>4. SlotsServed'
    BY <1>4, <1>s, <2>3
    DEF LoginGet, SlotsServed, NameServed, RecServed, LoginServed, Loaded, From, InGame
  <2>5. Grown
    BY <1>4 DEF LoginGet, Grown
  <2> QED
    BY <1>4, <2>4, <2>5, GrownKeeps DEF LoginGet, OwnInv
<1>5. CASE LoginAssign(s)
  <2>1. /\ login'[s].pc = "enter" /\ login'[s].who = login[s].who
        /\ \A t \in Slots \ {s} : login'[t] = login[t]
    BY <1>5, <1>t, GotoType DEF LoginAssign, LoginPcs
  <2>2. login[s].who \in Names /\ login[s].who \in served[s]
    BY <1>5, <1>s, <1>w DEF LoginAssign, SlotsServed, LoginServed
  <2>3. /\ rec'[s].of = login[s].who
        /\ \A t \in Slots \ {s} : rec'[t] = rec[t]
    BY <1>5 DEF LoginAssign, Record, TypeInv, TypeOK
  <2>4. SlotsServed'
    BY <1>5, <1>s, <2>1, <2>2, <2>3
    DEF LoginAssign, SlotsServed, NameServed, RecServed, LoginServed, Loaded, From, InGame
  <2>5. Grown
    BY <1>5, <2>2, <2>3 DEF LoginAssign, Grown
  <2> QED
    BY <1>5, <2>4, <2>5, GrownKeeps DEF LoginAssign, OwnInv
<1>6. CASE LoginEnter(s)
  <2>1. login'[s].pc = "idle" /\ \A t \in Slots \ {s} : login'[t] = login[t]
    BY <1>6, <1>t DEF LoginEnter, NoLogin, Login
  <2>2. \A t \in Slots \ {s} : state'[t] = state[t]
    BY <1>6 DEF LoginEnter, TypeInv, TypeOK
  <2>3. rec[s].of \in Names
    BY <1>6, <1>s DEF LoginEnter, SlotsServed, Loaded
  <2>4. SlotsServed'
    BY <1>6, <1>s, <2>1, <2>2, <2>3
    DEF LoginEnter, SlotsServed, NameServed, RecServed, LoginServed, Loaded, From, InGame
  <2>5. Grown
    BY <1>6 DEF LoginEnter, Grown
  <2> QED
    BY <1>6, <2>4, <2>5, GrownKeeps DEF LoginEnter, OwnInv
<1> QED
  BY <1>1, <1>2, <1>3, <1>4, <1>5, <1>6 DEF LoginStep

\* A step that leaves the sessions alone leaves what is known of them.
LEMMA SlotsFrame ==
  ASSUME OwnInv, UNCHANGED <<state, name, login, served>>,
         \A s \in Slots : rec'[s].of = rec[s].of
  PROVE  SlotsServed'
BY DEF OwnInv, SlotsServed, NameServed, RecServed, LoginServed, Loaded, From, InGame

LEMMA HitOwn ==
  ASSUME TypeInv, OwnInv, HitStep
  PROVE  OwnInv'
<1>s. /\ hit.slot \in Slots /\ rec[hit.slot].of \in Names
      /\ From(hit.slot, hit.who)
  BY DEF HitStep, HitName, HitPush, TypeInv, HitHasSlot, OwnInv, HitServed
<1>f. SlotsServed' /\ Grown
  BY SlotsFrame DEF HitStep, HitName, HitPush, Grown
<1>1. CASE HitName
  <2>1. From(hit.slot, name[hit.slot])
    BY <1>s DEF OwnInv, SlotsServed, NameServed
  <2>2. HitServed'
    BY <1>1, <1>s, <2>1 DEF HitName, Hit, HitServed, From
  <2> QED
    BY <1>1, <1>f, <2>2, GrownKeeps DEF HitName, OwnInv
<1>2. CASE HitPush
  <2> DEFINE t == [who |-> hit.who, data |-> rec[hit.slot]]
  <2>1. HitServed'
    BY <1>2 DEF HitPush, NoHit, Hit, HitServed
  <2>2. rec[hit.slot].of \in served[hit.slot]
    BY <1>s, NoneAssumption DEF OwnInv, SlotsServed, RecServed, From
  <2>3. TaskServed(t)
    BY <1>s, <2>2 DEF TaskServed
  <2>4. queue \in Seq(Tasks) /\ queue' = Append(queue, t)
    BY <1>2 DEF HitPush, TypeInv, TypeOK, Tasks
  <2>5. t \in Tasks
    BY <1>s DEF TypeInv, TypeOK, Tasks
  <2> HIDE DEF t
  <2>6. \A i \in 1..Len(queue') : queue'[i] = t \/ (i \in 1..Len(queue) /\ queue'[i] = queue[i])
    <3>1. /\ Len(queue) \in Nat /\ Len(queue') = Len(queue) + 1
          /\ queue'[Len(queue) + 1] = t
          /\ \A i \in 1..Len(queue) : queue'[i] = queue[i]
      BY <2>4, <2>5, AppendProperties, LenProperties
    <3>2. \A i \in 1..Len(queue') : i = Len(queue) + 1 \/ i \in 1..Len(queue)
      BY <3>1
    <3> QED
      BY <3>1, <3>2
  <2>7. \A i \in 1..Len(queue') : TaskServed(queue'[i])
    BY <2>3, <2>6 DEF OwnInv, TasksServed
  <2>8. TasksServed'
    BY <1>2, <2>7 DEF TasksServed, TaskServed, From, HitPush
  <2> QED
    BY <1>2, <1>f, <2>1, <2>8, GrownKeeps DEF HitPush, OwnInv
<1> QED
  BY <1>1, <1>2 DEF HitStep

LEMMA DbOwn ==
  ASSUME TypeInv, OwnInv, DbStep
  PROVE  OwnInv'
<1>f. SlotsServed' /\ Grown /\ UNCHANGED <<hit, served>>
  BY SlotsFrame DEF DbStep, Drain, SweepBegin, SweepLook, SweepWrite, SweepEnd, Grown
<1>t. db.data \in Records
  BY DEF TypeInv, TypeOK
<1>1. CASE Drain
  <2>1. queue \in Seq(Tasks) /\ queue # <<>>
    BY <1>1 DEF Drain, TypeInv, TypeOK, Tasks
  <2>2. /\ Head(queue) = queue[1] /\ 1 \in 1..Len(queue) /\ queue[1] \in Tasks
        /\ \A i \in 1..Len(Tail(queue)) : i+1 \in 1..Len(queue) /\ Tail(queue)[i] = queue[i+1]
    BY <2>1
  <2>3. PICK s \in Slots : queue[1].data.of \in served[s] /\ From(s, queue[1].who)
    BY <2>2 DEF OwnInv, TasksServed, TaskServed
  <2>4. OwnRow'
    BY <1>1, <1>f, <2>2, <2>3, StoredOwn DEF Drain, OwnInv, Tasks
  <2>5. \A i \in 1..Len(queue') : TaskServed(queue'[i])
    BY <1>1, <2>2 DEF Drain, OwnInv, TasksServed
  <2>6. TasksServed'
    BY <1>f, <2>5 DEF TasksServed, TaskServed, From
  <2> QED
    BY <1>1, <1>f, <2>4, <2>6, GrownKeeps DEF Drain, OwnInv
<1>2. CASE SweepBegin
  <2>1. WriteServed'
    BY <1>2 DEF SweepBegin, Db, WriteServed
  <2> QED
    BY <1>2, <1>f, <2>1, GrownKeeps DEF SweepBegin, OwnInv
<1>3. ASSUME NEW s \in Slots, SweepLook(s) PROVE OwnInv'
  <2>1. InGame(s) => rec[s].of \in served[s]
    BY NoneAssumption DEF OwnInv, SlotsServed, RecServed, Loaded, From
  <2>2. WriteServed'
    BY <1>3, <2>1 DEF SweepLook, Db, WriteServed
  <2> QED
    BY <1>3, <1>f, <2>2, GrownKeeps DEF SweepLook, OwnInv
<1>4. CASE SweepWrite
  <2>1. db.slot \in Slots /\ db.data.of \in served[db.slot]
    BY <1>4 DEF SweepWrite, OwnInv, WriteServed
  <2>2. From(db.slot, name[db.slot])
    BY <2>1 DEF OwnInv, SlotsServed, NameServed
  <2>3. OwnRow'
    BY <1>4, <1>f, <1>t, <2>1, <2>2, StoredOwn DEF SweepWrite, OwnInv
  <2>4. WriteServed'
    BY <1>4 DEF SweepWrite, Db, WriteServed
  <2> QED
    BY <1>4, <1>f, <2>3, <2>4, GrownKeeps DEF SweepWrite, OwnInv
<1>5. CASE SweepEnd
  <2>1. WriteServed'
    BY <1>5 DEF SweepEnd, Draining, Db, WriteServed
  <2> QED
    BY <1>5, <1>f, <2>1, GrownKeeps DEF SweepEnd, OwnInv
<1> QED
  BY <1>1, <1>2, <1>3, <1>4, <1>5 DEF DbStep

LEMMA NextOwnInv == TypeInv /\ OwnInv /\ [Next]_vars => OwnInv'
<1> SUFFICES ASSUME TypeInv, OwnInv, [Next]_vars PROVE OwnInv'
  OBVIOUS
<1>s. SlotsServed
  BY DEF OwnInv
<1>1. ASSUME NEW s \in Slots, Accept(s) PROVE OwnInv'
  <2>1. PICK n \in Names : login' = [login EXCEPT ![s] = Login("find", n, NoRecord)]
    BY <1>1 DEF Accept
  <2>2. login'[s].pc = "find" /\ \A t \in Slots \ {s} : login'[t] = login[t]
    BY <2>1 DEF Login, TypeInv, TypeOK
  <2>3. /\ name'[s] = None /\ state'[s] = "alloc"
        /\ \A t \in Slots \ {s} : name'[t] = name[t] /\ state'[t] = state[t]
    BY <1>1 DEF Accept, TypeInv, TypeOK
  <2>4. SlotsServed'
    BY <1>1, <1>s, <2>2, <2>3
    DEF Accept, SlotsServed, NameServed, RecServed, LoginServed, Loaded, From, InGame
  <2>5. Grown
    BY <1>1 DEF Accept, Grown
  <2> QED
    BY <1>1, <2>4, <2>5, GrownKeeps DEF Accept, OwnInv
<1>2. ASSUME NEW s \in Slots, Disconnect(s) PROVE OwnInv'
  <2>1. state'[s] = "free" /\ \A t \in Slots \ {s} : state'[t] = state[t]
    BY <1>2 DEF Disconnect, TypeInv, TypeOK
  <2>2. SlotsServed'
    BY <1>2, <1>s, <2>1
    DEF Disconnect, SlotsServed, NameServed, RecServed, LoginServed, Loaded, From, InGame
  <2>3. Grown
    BY <1>2 DEF Disconnect, Grown
  <2> QED
    BY <1>2, <2>2, <2>3, GrownKeeps DEF Disconnect, OwnInv
<1>3. ASSUME NEW s \in Slots, Change(s) PROVE OwnInv'
  <2>1. \A t \in Slots : rec'[t].of = rec[t].of
    BY <1>3, ChangedType DEF Change, TypeInv
  <2>2. SlotsServed' /\ Grown
    BY <1>3, <2>1, SlotsFrame DEF Change, Grown
  <2> QED
    BY <1>3, <2>2, GrownKeeps DEF Change, OwnInv
<1>4. ASSUME NEW s \in Slots, HitBegin(s) PROVE OwnInv'
  <2>1. rec[s].of \in Names /\ \A t \in Slots : rec'[t].of = rec[t].of
    BY <1>4, ChangedType DEF HitBegin, TypeInv
  <2>2. SlotsServed' /\ Grown
    BY <1>4, <2>1, SlotsFrame DEF HitBegin, Grown
  <2>3. HitServed'
    BY <1>4, <2>1 DEF HitBegin, Hit, HitServed, From
  <2> QED
    BY <1>4, <2>2, <2>3, GrownKeeps DEF HitBegin, OwnInv
<1>5. CASE UNCHANGED vars
  <2>1. SlotsServed' /\ Grown
    BY <1>5, SlotsFrame DEF vars, Grown
  <2> QED
    BY <1>5, <2>1, GrownKeeps DEF vars, OwnInv
<1> QED
  BY <1>1, <1>2, <1>3, <1>4, <1>5, LoginOwn, HitOwn, DbOwn DEF Next

\* The sweep and API_ChangeStat copy a record and read a name at different
\* moments.  However many slots, accounts and tasks there are, a record gets
\* into the row of another account only through a slot that has carried both.
THEOREM OwnRowHolds == Spec => []OwnRow
<1>1. Init => TypeInv /\ OwnInv
  BY InitTypeInv, InitOwnInv
<1>2. TypeInv /\ OwnInv /\ [Next]_vars => (TypeInv /\ OwnInv)'
  BY NextTypeInv, NextOwnInv
<1>3. TypeInv /\ OwnInv => OwnRow
  BY DEF OwnInv
<1> QED
  BY <1>1, <1>2, <1>3, PTL DEF Spec
=============================================================================
