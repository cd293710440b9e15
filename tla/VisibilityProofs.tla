-------------------------- MODULE VisibilityProofs --------------------------
(***************************************************************************)
(* Visibility's promises hold for any users, monsters, cells and workers.  *)
(*                                                                         *)
(* The promises are about pairs at rest; a handler on its way breaks them. *)
(* So the invariant follows a handler: Types says what it can hold, Marks  *)
(* that two handlers that met have made their pairs dirty, hence a clean   *)
(* pair <<u, o>> is followed by one handler at a time, and PairOK how far  *)
(* that one is.  Before its scan (Looking) the copied list, or the one it  *)
(* will copy, still agrees with u's list and client; after it (Telling)    *)
(* every packet for u about o is the right one, and a pair for which no    *)
(* packet is left is Sound.  A slot without a past is unknown to everybody *)
(* (Fresh), which is what makes its first login start from an empty list.  *)
(***************************************************************************)
EXTENDS HeartbeatServer, FiniteSetTheorems, TLAPS

-----------------------------------------------------------------------------
(* The tasks. *)

\* What one worker sends about one object: a packet to each side, or one.
Msgs == {s \in Seq(Packets) : Len(s) <= 2}

Ops    == {"add", "move", "remove"}
Stages == {"idle", "copy", "step", "scan", "build", "send", "store"}
Kinds  == {"none", "login", "move", "npc", "kill", "regen", "leave", "bye"}
Tasks  == [pc : Stages, kind : Kinds, who : Threads, old : SUBSET Objects,
           todo : SUBSET Msgs, now : Msgs, out : SUBSET [p : Packets, x : Cells]]
Screens == [how : {"none", "hidden", "shown"}, x : Cells]

\* Packet p is still to be built, or built and still to be sent.
Due(k, p)  == \E s \in k.todo \cup {k.now} : p \in Elements(s)
Sent(k, p) == \E m \in k.out : m.p = p

\* Which handlers there are, and how far each may be.
KindOK(k) ==
  /\ k.pc # "idle" => k.who \in Objects
  /\ k.pc = "copy" => k.kind = "move"
  /\ k.pc = "step" => k.kind = "npc"
  /\ k.pc = "scan" => k.kind \in {"login", "move", "npc", "regen"}
  /\ k.pc \in {"build", "send"} => k.kind \in {"login", "move", "npc", "regen", "kill", "leave", "bye"}
  /\ k.pc = "store" => k.kind = "move"
  /\ k.kind \in {"login", "move", "kill", "leave", "bye"} => k.who \in Users
  /\ k.kind = "npc" => k.who \in Npcs

TaskOK(k) ==
  /\ k.pc = "idle" => k = Idle
  /\ KindOK(k)
  /\ k.pc \in {"copy", "step", "scan", "store"} => k.todo = {} /\ k.now = <<>>
  /\ <<>> \notin k.todo
  /\ k.pc # "send" => k.out = {}
  /\ \A m, n \in k.out : m = n
  /\ k.pc = "build" => k.now # <<>> \/ k.todo # {} \/ k.kind = "leave"
  /\ \A p \in Packets : Due(k, p) \/ Sent(k, p) => k.who \in {p.to, p.of}

Types ==
  /\ ingame \subseteq Users /\ registered \subseteq Objects
  /\ invisible \subseteq Objects /\ graves \in [Objects -> Nat]
  /\ pos \in [Objects -> Cells]
  /\ view_list \in [Users -> SUBSET Objects]
  /\ screen \in [Users -> [Objects -> Screens]]
  /\ task \in [Threads -> Tasks]
  /\ \A t \in Threads : TaskOK(task[t])
  /\ deeds \in 0..MaxDeeds /\ \A o \in Objects : graves[o] <= deeds
  /\ used \subseteq Users /\ dirty \subseteq Objects \X Objects /\ alone \subseteq Threads

-----------------------------------------------------------------------------
(* Packets and tasks. *)

LEMMA TellMsg ==
  ASSUME NEW op \in Ops, NEW a \in Objects, NEW b \in Objects
  PROVE  /\ Tell(op, a, b) \in Msgs
         /\ \A p : p \in Elements(Tell(op, a, b)) <=> a \in Users /\ p = Packet(op, a, b)
         /\ a \in Users => Tell(op, a, b) # <<>> /\ Packet(op, a, b) \in Packets
<1>1. CASE a \in Users
  <2>1. Packet(op, a, b) \in Packets
    BY <1>1 DEF Packet, Packets, Ops
  <2>2. Tell(op, a, b) = <<Packet(op, a, b)>>
    BY <1>1 DEF Tell
  <2>3. /\ <<Packet(op, a, b)>> \in Seq(Packets) /\ Len(<<Packet(op, a, b)>>) = 1
        /\ DOMAIN <<Packet(op, a, b)>> = {1} /\ <<Packet(op, a, b)>>[1] = Packet(op, a, b)
        /\ <<Packet(op, a, b)>> # <<>>
    BY <2>1
  <2>4. \A p : p \in Elements(<<Packet(op, a, b)>>) <=> p = Packet(op, a, b)
    BY <2>3, Zenon DEF Elements
  <2> QED  BY <1>1, <2>1, <2>2, <2>3, <2>4 DEF Msgs
<1>2. CASE a \notin Users
  BY <1>2 DEF Tell, Msgs, Elements
<1> QED  BY <1>1, <1>2

LEMMA PairMsg ==
  ASSUME NEW op \in Ops, NEW a \in Objects, NEW b \in Objects
  PROVE  /\ Pair(op, a, b) \in Msgs
         /\ \A p : p \in Elements(Pair(op, a, b)) <=>
                     \/ a \in Users /\ p = Packet(op, a, b)
                     \/ b \in Users /\ p = Packet(op, b, a)
<1>1. /\ Tell(op, a, b) \in Msgs /\ Tell(op, b, a) \in Msgs
      /\ \A p : p \in Elements(Tell(op, a, b)) <=> a \in Users /\ p = Packet(op, a, b)
      /\ \A p : p \in Elements(Tell(op, b, a)) <=> b \in Users /\ p = Packet(op, b, a)
  BY TellMsg
<1>2. \A c, d \in Objects : Len(Tell(op, c, d)) <= 1
  BY DEF Tell
<1>3. Pair(op, a, b) \in Msgs
  BY <1>1, <1>2 DEF Pair, Msgs
<1>4. ASSUME NEW s \in Seq(Packets), NEW r \in Seq(Packets), NEW p
      PROVE  p \in Elements(s \o r) <=> p \in Elements(s) \/ p \in Elements(r)
  <2>1. /\ s \o r \in Seq(Packets) /\ Len(s \o r) = Len(s) + Len(r)
        /\ DOMAIN (s \o r) = 1..Len(s) + Len(r) /\ DOMAIN s = 1..Len(s) /\ DOMAIN r = 1..Len(r)
        /\ Len(s) \in Nat /\ Len(r) \in Nat
    OBVIOUS
  <2>2. \A i \in 1..Len(s) + Len(r) : (s \o r)[i] = IF i <= Len(s) THEN s[i] ELSE r[i - Len(s)]
    OBVIOUS
  <2>3. \A i \in 1..Len(s) : i \in 1..Len(s) + Len(r) /\ (s \o r)[i] = s[i]
    BY <2>1, <2>2
  <2>4. \A i \in 1..Len(r) : i + Len(s) \in 1..Len(s) + Len(r) /\ (s \o r)[i + Len(s)] = r[i]
    BY <2>1, <2>2
  <2>5. ASSUME NEW i \in 1..Len(s) + Len(r)
        PROVE  (\E j \in 1..Len(s) : (s \o r)[i] = s[j]) \/ (\E j \in 1..Len(r) : (s \o r)[i] = r[j])
    <3>1. CASE i <= Len(s)
      BY <3>1, <2>1, <2>2
    <3>2. CASE ~(i <= Len(s))
      <4>1. i - Len(s) \in 1..Len(r)  BY <3>2, <2>1
      <4> QED  BY <3>2, <4>1, <2>2
    <3> QED  BY <3>1, <3>2
  <2>6. /\ p \in Elements(s) <=> \E i \in 1..Len(s) : p = s[i]
        /\ p \in Elements(r) <=> \E i \in 1..Len(r) : p = r[i]
        /\ p \in Elements(s \o r) <=> \E i \in 1..Len(s) + Len(r) : p = (s \o r)[i]
    BY <2>1 DEF Elements
  <2>7. p \in Elements(s \o r) => p \in Elements(s) \/ p \in Elements(r)
    BY <2>5, <2>6
  <2>8. p \in Elements(s) => p \in Elements(s \o r)
    BY <2>3, <2>6
  <2>9. p \in Elements(r) => p \in Elements(s \o r)
    BY <2>4, <2>6
  <2> QED  BY <2>7, <2>8, <2>9
<1>5. Tell(op, a, b) \in Seq(Packets) /\ Tell(op, b, a) \in Seq(Packets)
  BY <1>1 DEF Msgs
<1> QED  BY <1>1, <1>3, <1>4, <1>5, Zenon DEF Pair

LEMMA HeadTail ==
  ASSUME NEW s \in Msgs, s # <<>>
  PROVE  /\ Head(s) \in Packets /\ Tail(s) \in Msgs
         /\ \A q : q \in Elements(s) <=> q = Head(s) \/ q \in Elements(Tail(s))
<1>1. /\ s \in Seq(Packets) /\ Len(s) \in Nat /\ Len(s) <= 2 /\ Len(s) > 0
      /\ DOMAIN s = 1..Len(s) /\ Head(s) = s[1] /\ Head(s) \in Packets
      /\ Tail(s) \in Seq(Packets) /\ Len(Tail(s)) = Len(s) - 1 /\ DOMAIN Tail(s) = 1..Len(s)-1
      /\ \A i \in 1..Len(s)-1 : Tail(s)[i] = s[i+1]
  BY DEF Msgs
<1>2. \A i \in 1..Len(s) : i = 1 \/ (i - 1 \in 1..Len(s)-1 /\ s[i] = Tail(s)[i-1])
  BY <1>1
<1>3. \A i \in 1..Len(s)-1 : i + 1 \in 1..Len(s) /\ s[i+1] = Tail(s)[i]
  BY <1>1
<1>4. 1 \in 1..Len(s)
  BY <1>1
<1>5. /\ Elements(s) = {s[i] : i \in 1..Len(s)}
      /\ Elements(Tail(s)) = {Tail(s)[i] : i \in 1..Len(s)-1}
  BY <1>1 DEF Elements
<1>6. ASSUME NEW q, q \in Elements(s)
      PROVE  q = Head(s) \/ q \in Elements(Tail(s))
  <2>1. PICK i \in 1..Len(s) : q = s[i]  BY <1>5, <1>6
  <2>2. CASE i = 1  BY <2>1, <2>2, <1>1
  <2>3. CASE i # 1
    <3>1. i - 1 \in 1..Len(s)-1 /\ q = Tail(s)[i-1]  BY <2>1, <2>3, <1>2
    <3> QED  BY <3>1, <1>5
  <2> QED  BY <2>2, <2>3
<1>7. ASSUME NEW q, q = Head(s) \/ q \in Elements(Tail(s))
      PROVE  q \in Elements(s)
  <2>1. CASE q = Head(s)  BY <2>1, <1>1, <1>4, <1>5
  <2>2. CASE q \in Elements(Tail(s))
    <3>1. PICK i \in 1..Len(s)-1 : q = Tail(s)[i]  BY <1>5, <2>2
    <3>2. i + 1 \in 1..Len(s) /\ q = s[i+1]  BY <3>1, <1>3
    <3> QED  BY <3>2, <1>5
  <2> QED  BY <1>7, <2>1, <2>2
<1> QED  BY <1>1, <1>6, <1>7 DEF Msgs

LEMMA Empty ==
  /\ <<>> \in Msgs /\ \A p : p \notin Elements(<<>>)
BY DEF Msgs, Elements

LEMMA SeeSym ==
  ASSUME Types, NEW a \in Objects, NEW b \in Objects
  PROVE  can_see(a, b) <=> can_see(b, a)
<1>1. pos[a] \in Int /\ pos[b] \in Int
  BY SizeAssumption DEF Types, Cells
<1> QED  BY <1>1 DEF can_see, Dist

LEMMA IdleOK == Idle \in Tasks /\ TaskOK(Idle)
<1>1. Idle = [pc |-> "idle", kind |-> "none", who |-> Other, old |-> {}, todo |-> {},
              now |-> <<>>, out |-> {}]
  BY DEF Idle, Task
<1>2. Idle \in Tasks
  BY <1>1, Empty DEF Tasks, Stages, Kinds, Threads
<1>3. \A p : ~Due(Idle, p) /\ ~Sent(Idle, p)
  BY <1>1, Empty DEF Due, Sent
<1> QED  BY <1>1, <1>2, <1>3 DEF TaskOK, KindOK

\* A handler that is about w sends packets to w and about w only.
LEMMA UpdatesMsg ==
  ASSUME NEW kind, NEW w \in Objects, NEW old \in SUBSET Objects, NEW new \in SUBSET Objects
  PROVE  /\ Updates(kind, w, old, new) \subseteq Msgs
         /\ \A s \in Updates(kind, w, old, new) : \A p \in Elements(s) : w \in {p.to, p.of}
<1>1. ASSUME NEW op \in Ops, NEW b \in Objects
      PROVE  /\ Pair(op, w, b) \in Msgs /\ Pair(op, b, w) \in Msgs /\ Tell(op, b, w) \in Msgs
             /\ \A p \in Elements(Pair(op, w, b)) \cup Elements(Pair(op, b, w)) \cup Elements(Tell(op, b, w)) :
                  w \in {p.to, p.of}
  <2>1. /\ Packet(op, w, b).to = w /\ Packet(op, b, w).of = w
    BY DEF Packet
  <2>2. /\ Pair(op, w, b) \in Msgs /\ Pair(op, b, w) \in Msgs /\ Tell(op, b, w) \in Msgs
    BY PairMsg, TellMsg
  <2>3. \A p \in Elements(Pair(op, w, b)) : p \in {Packet(op, w, b), Packet(op, b, w)}
    BY PairMsg
  <2>4. \A p \in Elements(Pair(op, b, w)) : p \in {Packet(op, w, b), Packet(op, b, w)}
    BY PairMsg
  <2>5. \A p \in Elements(Tell(op, b, w)) : p \in {Packet(op, w, b), Packet(op, b, w)}
    BY TellMsg
  <2> QED  BY <2>1, <2>2, <2>3, <2>4, <2>5
<1>2. "add" \in Ops /\ "move" \in Ops /\ "remove" \in Ops
  BY DEF Ops
<1>3. CASE kind = "login"
  BY <1>1, <1>2, <1>3 DEF Updates
<1>4. CASE kind = "regen"
  BY <1>1, <1>2, <1>4 DEF Updates
<1>5. CASE kind # "login" /\ kind # "regen"
  <2>1. Updates(kind, w, old, new) = {Appear(w, b) : b \in new \ old} \cup {Stay(w, b) : b \in new \cap old}
                                     \cup {Vanish(w, b) : b \in old \ new}
    BY <1>5 DEF Updates
  <2>2. \A s \in Updates(kind, w, old, new) : \E b \in Objects :
          s = Pair("add", w, b) \/ s = Tell("move", b, w) \/ s = Pair("remove", w, b)
    BY <2>1 DEF Appear, Stay, Vanish
  <2> QED  BY <2>2, <1>1, <1>2
<1> QED  BY <1>3, <1>4, <1>5

\* Workers in a handler, and the pairs an overlap makes dirty.
LEMMA BesideIs ==
  ASSUME Types, NEW t \in Threads
  PROVE  /\ Beside(t) = {x \in Threads \ {t} : task[x].pc # "idle"}
         /\ \A x \in Beside(t) : x \in Threads /\ x # t /\ task[x].who \in Objects
<1>1. Idle.pc = "idle"
  BY DEF Idle, Task
<1>2. \A x \in Threads : task[x] # Idle <=> task[x].pc # "idle"
  BY <1>1 DEF Types, TaskOK
<1>3. \A x \in Threads : task[x].pc # "idle" => task[x].who \in Objects
  BY DEF Types, TaskOK, KindOK
<1> QED  BY <1>2, <1>3 DEF Beside

LEMMA MetIs ==
  ASSUME Types, NEW t \in Threads, NEW o \in Objects
  PROVE  /\ Met(t, o) \subseteq Objects \X Objects
         /\ \A a, b : <<a, b>> \in Met(t, o) => <<b, a>> \in Met(t, o)
         /\ \A x \in Threads \ {t} : task[x].pc # "idle" =>
              IF task[x].who = o THEN Pairs(o) \subseteq Met(t, o)
              ELSE <<o, task[x].who>> \in Met(t, o) /\ <<task[x].who, o>> \in Met(t, o)
<1>1. /\ Beside(t) = {x \in Threads \ {t} : task[x].pc # "idle"}
      /\ \A x \in Beside(t) : x \in Threads /\ x # t /\ task[x].who \in Objects
  BY BesideIs
<1>2. Pairs(o) \subseteq Objects \X Objects /\ \A a, b : <<a, b>> \in Pairs(o) => <<b, a>> \in Pairs(o)
  BY DEF Pairs
<1>3. \A p : p \in Met(t, o) <=> \E x \in Beside(t) :
        IF task[x].who = o THEN p \in Pairs(o)
        ELSE p = <<o, task[x].who>> \/ p = <<task[x].who, o>>
  BY DEF Met
<1>4. Met(t, o) \subseteq Objects \X Objects
  BY <1>1, <1>2, <1>3
<1>5. ASSUME NEW a, NEW b, <<a, b>> \in Met(t, o)
      PROVE  <<b, a>> \in Met(t, o)
  <2>1. PICK x \in Beside(t) : IF task[x].who = o THEN <<a, b>> \in Pairs(o)
                               ELSE <<a, b>> = <<o, task[x].who>> \/ <<a, b>> = <<task[x].who, o>>
    BY <1>3, <1>5
  <2>2. IF task[x].who = o THEN <<b, a>> \in Pairs(o)
        ELSE <<b, a>> = <<o, task[x].who>> \/ <<b, a>> = <<task[x].who, o>>
    BY <2>1, <1>2
  <2> QED  BY <2>2, <1>3
<1>6. ASSUME NEW x \in Threads \ {t}, task[x].pc # "idle"
      PROVE  IF task[x].who = o THEN Pairs(o) \subseteq Met(t, o)
             ELSE <<o, task[x].who>> \in Met(t, o) /\ <<task[x].who, o>> \in Met(t, o)
  BY <1>1, <1>3, <1>6
<1> QED  BY <1>4, <1>5, <1>6

LEMMA BeginTypes ==
  ASSUME Types, NEW t \in Threads, NEW k \in Tasks, TaskOK(k), Begin(t, k)
  PROVE  /\ task' \in [Threads -> Tasks] /\ \A x \in Threads : TaskOK(task'[x])
         /\ \A x \in Threads \ {t} : task'[x] = task[x]
         /\ task'[t] = k /\ task[t] = Idle
         /\ deeds' \in 0..MaxDeeds /\ deeds' = deeds + 1 /\ alone' \subseteq Threads
<1>1. task' = [task EXCEPT ![t] = k] /\ task[t] = Idle
  BY DEF Begin
<1>2. task \in [Threads -> Tasks] /\ \A x \in Threads : TaskOK(task[x])
  BY DEF Types
<1>3. /\ task' \in [Threads -> Tasks] /\ task'[t] = k
      /\ \A x \in Threads \ {t} : task'[x] = task[x]
  BY <1>1, <1>2
<1>4. \A x \in Threads : TaskOK(task'[x])
  BY <1>2, <1>3, Zenon
<1>5. deeds' \in 0..MaxDeeds /\ deeds' = deeds + 1
  BY SizeAssumption DEF Begin, Types
<1>6. alone' \subseteq Threads
  BY DEF Begin, Types
<1> QED  BY <1>1, <1>3, <1>4, <1>5, <1>6

LEMMA SetTypes ==
  ASSUME Types, NEW t \in Threads, NEW k \in Tasks, TaskOK(k), Set(t, k)
  PROVE  /\ task' \in [Threads -> Tasks] /\ \A x \in Threads : TaskOK(task'[x])
         /\ \A x \in Threads \ {t} : task'[x] = task[x]
         /\ task'[t] = k
<1>1. task' = [task EXCEPT ![t] = k]
  BY DEF Set
<1>2. task \in [Threads -> Tasks] /\ \A x \in Threads : TaskOK(task[x])
  BY DEF Types
<1>3. /\ task' \in [Threads -> Tasks] /\ task'[t] = k
      /\ \A x \in Threads \ {t} : task'[x] = task[x]
  BY <1>1, <1>2
<1>4. \A x \in Threads : TaskOK(task'[x])
  BY <1>2, <1>3, Zenon
<1> QED  BY <1>3, <1>4

-----------------------------------------------------------------------------
(* The types are kept. *)

\* A handler that has nothing to send yet.
LEMMA EarlyTask ==
  ASSUME NEW k \in Tasks, k.todo = {}, k.now = <<>>, k.out = {},
         k.pc \in {"copy", "step", "scan"}, KindOK(k)
  PROVE  TaskOK(k) /\ \A p : ~Due(k, p) /\ ~Sent(k, p)
<1>1. \A p : ~Due(k, p) /\ ~Sent(k, p)
  BY Empty DEF Due, Sent
<1> QED  BY <1>1 DEF TaskOK

LEMMA NewTask ==
  ASSUME NEW w \in Objects, NEW old \in SUBSET Objects, NEW pc, NEW kind,
         \/ pc = "scan" /\ kind = "login" /\ w \in Users
         \/ pc = "copy" /\ kind = "move" /\ w \in Users
         \/ pc = "step" /\ kind = "npc" /\ w \in Npcs
         \/ pc = "scan" /\ kind = "regen"
  PROVE  /\ Task(pc, kind, w, old, {}, <<>>) \in Tasks /\ TaskOK(Task(pc, kind, w, old, {}, <<>>))
         /\ \A p : ~Due(Task(pc, kind, w, old, {}, <<>>), p) /\ ~Sent(Task(pc, kind, w, old, {}, <<>>), p)
<1> DEFINE k == Task(pc, kind, w, old, {}, <<>>)
<1>1. k = [pc |-> pc, kind |-> kind, who |-> w, old |-> old, todo |-> {}, now |-> <<>>, out |-> {}]
  BY DEF Task
<1>2. k \in Tasks
  BY <1>1, Empty DEF Tasks, Stages, Kinds, Threads
<1>3. KindOK(k)
  BY <1>1 DEF KindOK
<1>4. k.todo = {} /\ k.now = <<>> /\ k.out = {} /\ k.pc \in {"copy", "step", "scan"}
  BY <1>1
<1> HIDE DEF k
<1>5. TaskOK(k) /\ \A p : ~Due(k, p) /\ ~Sent(k, p)
  BY <1>2, <1>3, <1>4, EarlyTask
<1> QED  BY <1>2, <1>5 DEF k

\* The handlers that know at once whom to tell.
LEMMA TellTask ==
  ASSUME NEW w \in Users, NEW kind \in {"kill", "leave"}, NEW P \in SUBSET Packets,
         kind = "kill" => P # {},
         \A p \in P : w \in {p.to, p.of}
  PROVE  LET k == Task("build", kind, w, {}, {<<p>> : p \in P}, <<>>) IN
         /\ k \in Tasks /\ TaskOK(k) /\ k.out = {}
         /\ \A p : Due(k, p) <=> p \in P
<1> DEFINE S == {<<p>> : p \in P}
<1> DEFINE k == Task("build", kind, w, {}, S, <<>>)
<1>1. k.pc = "build" /\ k.kind = kind /\ k.who = w /\ k.todo = S /\ k.now = <<>> /\ k.out = {}
  BY DEF Task
<1>2. \A p \in P : <<p>> \in Msgs /\ <<p>> # <<>> /\ Elements(<<p>>) = {p}
  <2> TAKE p \in P
  <2>1. <<p>> \in Seq(Packets) /\ Len(<<p>>) = 1 /\ DOMAIN <<p>> = {1} /\ <<p>>[1] = p
    OBVIOUS
  <2> QED  BY <2>1 DEF Msgs, Elements
<1>3. /\ S \subseteq Msgs /\ <<>> \notin S
      /\ \A p : (\E s \in S : p \in Elements(s)) <=> p \in P
      /\ kind = "kill" => S # {}
  <2>1. S \subseteq Msgs /\ <<>> \notin S
    BY <1>2
  <2>2. \A p : (\E s \in S : p \in Elements(s)) <=> \E q \in P : p \in Elements(<<q>>)
    BY Zenon
  <2>3. \A p : (\E q \in P : p \in Elements(<<q>>)) <=> p \in P
    BY <1>2
  <2>4. kind = "kill" => S # {}
    BY Zenon
  <2> QED  BY <2>1, <2>2, <2>3, <2>4
<1> HIDE DEF S
<1>4. k \in Tasks
  <2>1. w \in Threads  BY DEF Threads, Objects
  <2> QED  BY <1>3, <2>1, Empty DEF Task, Tasks, Stages, Kinds
<1> HIDE DEF k
<1>5. KindOK(k)
  BY <1>1 DEF KindOK, Objects
<1>6. \A p : Due(k, p) <=> p \in P
  BY <1>1, <1>3, Empty, Zenon DEF Due
<1>7. \A p : ~Sent(k, p)
  BY <1>1 DEF Sent
<1>8. TaskOK(k)
  BY <1>1, <1>3, <1>5, <1>6, <1>7 DEF TaskOK
<1> QED  BY <1>1, <1>4, <1>6, <1>8 DEF k, S

\* What a handler is after its scan, and what it has to send.
LEMMA SpreadTask ==
  ASSUME NEW k \in Tasks, TaskOK(k), k.pc = "scan", NEW P \in SUBSET Msgs, <<>> \notin P,
         \A s \in P : \A p \in Elements(s) : k.who \in {p.to, p.of},
         NEW keep \in SUBSET Objects
  PROVE  LET j == Spread(k, P, keep) IN
         /\ j \in Tasks /\ TaskOK(j) /\ j.out = {}
         /\ j.pc = "idle" \/ (j.pc = "build" /\ j.who = k.who /\ j.kind = k.kind)
         /\ \A p : Due(j, p) <=> \/ \E s \in P : p \in Elements(s)
                                 \/ k.kind = "move" /\ p = Packet("move", k.who, k.who)
         /\ j.old \in {{}, keep} /\ (j.pc = "build" => j.old = keep)
<1> DEFINE self == IF k.kind = "move" THEN Tell("move", k.who, k.who) ELSE <<>>
<1> DEFINE j == Spread(k, P, keep)
<1>1. k.who \in Objects /\ (k.kind = "move" => k.who \in Users) /\ k.out = {}
  BY DEF TaskOK, KindOK
<1>2. /\ self \in Msgs
      /\ \A p : p \in Elements(self) <=> k.kind = "move" /\ p = Packet("move", k.who, k.who)
  BY <1>1, TellMsg, Empty DEF Ops
<1>3. \A p \in Elements(self) : k.who \in {p.to, p.of}
  BY <1>2 DEF Packet
<1>4. j = IF P = {} /\ self = <<>> THEN Idle
          ELSE [k EXCEPT !.pc = "build", !.old = keep, !.todo = P, !.now = self]
  BY DEF Spread
<1> HIDE DEF j, self
<1>5. CASE P = {} /\ self = <<>>
  <2>1. j = Idle  BY <1>4, <1>5
  <2>2. j.pc = "idle" /\ j.out = {} /\ j.old = {}
    BY <2>1 DEF Idle, Task
  <2>3. \A p : ~Due(j, p)
    BY <2>1, Empty DEF Due, Idle, Task
  <2>4. \A p : p \notin Elements(self)
    BY <1>5, Empty
  <2> QED  BY <2>1, <2>2, <2>3, <2>4, <1>2, <1>5, IdleOK DEF j
<1>6. CASE ~(P = {} /\ self = <<>>)
  <2>1. j = [k EXCEPT !.pc = "build", !.old = keep, !.todo = P, !.now = self]
    BY <1>4, <1>6
  <2>2. /\ j.pc = "build" /\ j.kind = k.kind /\ j.who = k.who /\ j.old = keep /\ j.todo = P
        /\ j.now = self /\ j.out = {}
    BY <2>1, <1>1 DEF Tasks
  <2>3. j \in Tasks
    BY <2>1, <1>2 DEF Tasks, Stages
  <2>4. \A p : Due(j, p) <=> (\E s \in P : p \in Elements(s)) \/ p \in Elements(self)
    BY <2>2 DEF Due
  <2>5. \A p : ~Sent(j, p)
    BY <2>2 DEF Sent
  <2>6. KindOK(j)
    BY <2>2, <1>1 DEF KindOK, TaskOK
  <2>7. \A p : Due(j, p) => j.who \in {p.to, p.of}
    BY <2>2, <2>4, <1>3
  <2>8. TaskOK(j)
    BY <2>2, <2>5, <2>6, <2>7, <1>6 DEF TaskOK
  <2> QED  BY <2>2, <2>3, <2>4, <2>8, <1>2 DEF j
<1> QED  BY <1>5, <1>6

\* What building a packet makes of a handler.
LEMMA BuildTask ==
  ASSUME NEW k \in Tasks, TaskOK(k), k.pc = "build", NEW s \in First(k), NEW x \in Cells
  PROVE  LET p == Head(s)
             j == [k EXCEPT !.pc = "send", !.todo = @ \ {s}, !.now = Tail(s), !.out = {[p |-> p, x |-> x]}]
         IN  /\ p \in Packets /\ k.who \in {p.to, p.of}
             /\ j \in Tasks /\ TaskOK(j)
             /\ j.pc = "send" /\ j.who = k.who /\ j.kind = k.kind /\ j.old = k.old
             /\ j.out = {[p |-> p, x |-> x]}
             /\ \A q : Due(k, q) => Due(j, q) \/ q = p
             /\ \A q : Due(j, q) => Due(k, q)
             /\ Due(k, p) \/ (k.kind = "leave" /\ p = Packet("remove", k.who, k.who))
<1> DEFINE p == Head(s)
<1> DEFINE j == [k EXCEPT !.pc = "send", !.todo = @ \ {s}, !.now = Tail(s), !.out = {[p |-> p, x |-> x]}]
<1>1. \/ s \in k.todo \cup {k.now} /\ s # <<>> /\ (k.now = <<>> \/ s = k.now)
      \/ k.kind = "leave" /\ s = Tell("remove", k.who, k.who) /\ k.todo = {} /\ k.now = <<>>
  BY DEF First, TaskOK
<1>2. k.todo \cup {k.now} \subseteq Msgs /\ KindOK(k) /\ <<>> \notin k.todo
  BY DEF Tasks, TaskOK
<1>3. k.kind = "leave" => /\ k.who \in Users /\ k.who \in Objects
                          /\ Tell("remove", k.who, k.who) \in Msgs /\ Tell("remove", k.who, k.who) # <<>>
                          /\ \A q : q \in Elements(Tell("remove", k.who, k.who)) <=> q = Packet("remove", k.who, k.who)
  BY <1>2, TellMsg DEF KindOK, Ops, Objects
<1>4. s \in Msgs /\ s # <<>>
  BY <1>1, <1>2, <1>3
<1>5. /\ p \in Packets /\ Tail(s) \in Msgs
      /\ \A q : q \in Elements(s) <=> q = p \/ q \in Elements(Tail(s))
  BY <1>4, HeadTail
<1> HIDE DEF p
<1>6. /\ j.pc = "send" /\ j.who = k.who /\ j.kind = k.kind /\ j.old = k.old
      /\ j.todo = k.todo \ {s} /\ j.now = Tail(s) /\ j.out = {[p |-> p, x |-> x]}
  BY DEF Tasks
<1>7. j \in Tasks
  <2>1. {[p |-> p, x |-> x]} \in SUBSET [p : Packets, x : Cells]
    BY <1>5
  <2> QED  BY <2>1, <1>5 DEF Tasks, Stages
<1> HIDE DEF j
<1>8. Due(k, p) \/ (k.kind = "leave" /\ p = Packet("remove", k.who, k.who))
  <2>1. CASE s \in k.todo \cup {k.now}
    BY <2>1, <1>5 DEF Due
  <2>2. CASE k.kind = "leave" /\ s = Tell("remove", k.who, k.who)
    BY <2>2, <1>3, <1>5
  <2> QED  BY <2>1, <2>2, <1>1
<1>9. k.who \in {p.to, p.of}
  BY <1>8, <1>5 DEF TaskOK, Packet
<1>10. ASSUME NEW q, Due(k, q)
       PROVE  Due(j, q) \/ q = p
  <2>1. PICK r \in k.todo \cup {k.now} : q \in Elements(r)
    BY <1>10 DEF Due
  <2>2. CASE r = s
    BY <2>1, <2>2, <1>5, <1>6 DEF Due
  <2>3. CASE r # s
    <3>1. r \in k.todo
      BY <2>1, <2>3, <1>1, Empty
    <3> QED  BY <3>1, <2>1, <2>3, <1>6 DEF Due
  <2> QED  BY <2>2, <2>3
<1>11. ASSUME NEW q, Due(j, q)
       PROVE  Due(k, q)
  <2>1. PICK r \in (k.todo \ {s}) \cup {Tail(s)} : q \in Elements(r)
    BY <1>11, <1>6 DEF Due
  <2>2. CASE r \in k.todo
    BY <2>1, <2>2 DEF Due
  <2>3. CASE r = Tail(s)
    <3>1. q \in Elements(s)
      BY <2>1, <2>3, <1>5
    <3>2. CASE s \in k.todo \cup {k.now}
      BY <3>1, <3>2 DEF Due
    <3>3. CASE s = Tell("remove", k.who, k.who)
      <4>1. Len(s) <= 1 /\ Len(Tail(s)) = Len(s) - 1 /\ Len(s) \in Nat /\ Tail(s) \in Seq(Packets)
        BY <3>3, <1>4, <1>5 DEF Tell, Msgs
      <4>2. Tail(s) = <<>>
        BY <4>1
      <4> QED  BY <4>2, <2>1, <2>3, Empty
    <3> QED  BY <3>2, <3>3, <1>1
  <2> QED  BY <2>1, <2>2, <2>3
<1>12. TaskOK(j)
  <2>1. KindOK(j)
    BY <1>2, <1>6 DEF KindOK
  <2>2. \A q : Sent(j, q) => q = p
    BY <1>6 DEF Sent
  <2>3. \A q \in Packets : Due(j, q) \/ Sent(j, q) => j.who \in {q.to, q.of}
    BY <2>2, <1>6, <1>9, <1>11 DEF TaskOK
  <2>4. <<>> \notin j.todo /\ \A m, n \in j.out : m = n
    BY <1>6, <1>2
  <2> QED  BY <2>1, <2>3, <2>4, <1>6 DEF TaskOK
<1> QED  BY <1>5, <1>6, <1>7, <1>8, <1>9, <1>10, <1>11, <1>12 DEF p, j

\* What sending it does.
LEMMA SendTask ==
  ASSUME NEW k \in Tasks, TaskOK(k), k.pc = "send"
  PROVE  LET j == IF Last(k) THEN Idle ELSE [k EXCEPT !.pc = "build", !.out = {}]
         IN  /\ j \in Tasks /\ TaskOK(j) /\ j.out = {}
             /\ \A q : Due(j, q) <=> Due(k, q)
             /\ j.pc = "idle" \/ (j.pc = "build" /\ j.who = k.who /\ j.kind = k.kind)
             /\ j.pc = "idle" <=> Last(k)
             /\ j.old = {} \/ j.old = k.old
<1>1. CASE Last(k)
  <2>1. k.now = <<>> /\ k.todo = {}
    BY <1>1 DEF Last
  <2>2. \A q : ~Due(k, q)
    BY <2>1, Empty DEF Due
  <2>3. Idle.pc = "idle" /\ Idle.out = {} /\ Idle.old = {} /\ Idle.todo = {} /\ Idle.now = <<>>
    BY DEF Idle, Task
  <2>4. \A q : ~Due(Idle, q)
    BY <2>3, Empty DEF Due
  <2> QED  BY <1>1, <2>2, <2>3, <2>4, IdleOK
<1>2. CASE ~Last(k)
  <2> DEFINE j == [k EXCEPT !.pc = "build", !.out = {}]
  <2>1. /\ j.pc = "build" /\ j.who = k.who /\ j.kind = k.kind /\ j.old = k.old
        /\ j.todo = k.todo /\ j.now = k.now /\ j.out = {}
    BY DEF Tasks
  <2>2. j \in Tasks
    BY DEF Tasks, Stages
  <2> HIDE DEF j
  <2>3. \A q : Due(j, q) <=> Due(k, q)
    BY <2>1 DEF Due
  <2>4. \A q : ~Sent(j, q)
    BY <2>1 DEF Sent
  <2>5. KindOK(j)
    BY <2>1 DEF KindOK, TaskOK
  <2>6. k.now # <<>> \/ k.todo # {} \/ k.kind = "leave"
    BY <1>2 DEF Last
  <2>7. TaskOK(j)
    BY <2>1, <2>3, <2>4, <2>5, <2>6 DEF TaskOK
  <2> QED  BY <1>2, <2>1, <2>2, <2>3, <2>7 DEF j
<1> QED  BY <1>1, <1>2

\* What disconnect has to send.
Leaving(u, near) ==
  Task("build", "leave", u, {}, {<<Packet("remove", v, u)>> : v \in near}, <<>>)

LEMMA LeaveTask ==
  ASSUME Types, NEW u \in Users, NEW near \in SUBSET Users
  PROVE  /\ Leaving(u, near) \in Tasks /\ TaskOK(Leaving(u, near))
         /\ Leaving(u, near).pc = "build" /\ Leaving(u, near).kind = "leave" /\ Leaving(u, near).who = u
         /\ Leaving(u, near).out = {} /\ Leaving(u, near).old = {}
         /\ \A p : Due(Leaving(u, near), p) => \E v \in near : p = Packet("remove", v, u)
<1> DEFINE P == {Packet("remove", v, u) : v \in near}
<1>1. P \in SUBSET Packets /\ \A p \in P : u \in {p.to, p.of}
  BY DEF Packet, Packets, Objects
<1>2. {<<Packet("remove", v, u)>> : v \in near} = {<<p>> : p \in P}
  OBVIOUS
<1> DEFINE k == Task("build", "leave", u, {}, {<<p>> : p \in P}, <<>>)
<1>3. k.pc = "build" /\ k.kind = "leave" /\ k.who = u /\ k.old = {}
  BY DEF Task
<1>4. \A p \in P : \E v \in near : p = Packet("remove", v, u)
  OBVIOUS
<1> HIDE DEF P
<1>5. k \in Tasks /\ TaskOK(k) /\ k.out = {} /\ \A p : Due(k, p) <=> p \in P
  BY <1>1, TellTask
<1> HIDE DEF k
<1>6. Leaving(u, near) = k
  BY <1>2 DEF k, Leaving
<1> QED  BY <1>3, <1>4, <1>5, <1>6

\* ... and what the killer has to send itself.
Killing(u, K) ==
  Task("build", "kill", u, {}, {<<Packet("remove", u, o)>> : o \in K}, <<>>)

LEMMA KillTask ==
  ASSUME Types, NEW u \in Users, NEW K \in SUBSET Objects, K # {}
  PROVE  /\ Killing(u, K) \in Tasks /\ TaskOK(Killing(u, K))
         /\ Killing(u, K).pc = "build" /\ Killing(u, K).kind = "kill" /\ Killing(u, K).who = u
         /\ Killing(u, K).out = {} /\ Killing(u, K).old = {}
         /\ \A p : Due(Killing(u, K), p) <=> \E o \in K : p = Packet("remove", u, o)
<1> DEFINE P == {Packet("remove", u, o) : o \in K}
<1>1. P \in SUBSET Packets /\ P # {} /\ \A p \in P : u \in {p.to, p.of}
  <2>1. PICK o \in K : TRUE
    OBVIOUS
  <2>2. Packet("remove", u, o) \in P
    OBVIOUS
  <2>3. \A q \in K : Packet("remove", u, q) \in Packets /\ Packet("remove", u, q).to = u
    BY DEF Packet, Packets
  <2> QED  BY <2>2, <2>3
<1>2. {<<Packet("remove", u, o)>> : o \in K} = {<<p>> : p \in P}
  OBVIOUS
<1> DEFINE k == Task("build", "kill", u, {}, {<<p>> : p \in P}, <<>>)
<1>3. k.pc = "build" /\ k.kind = "kill" /\ k.who = u /\ k.old = {}
  BY DEF Task
<1>4. \A p : p \in P <=> \E o \in K : p = Packet("remove", u, o)
  OBVIOUS
<1> HIDE DEF P
<1>5. k \in Tasks /\ TaskOK(k) /\ k.out = {} /\ \A p : Due(k, p) <=> p \in P
  BY <1>1, TellTask
<1> HIDE DEF k
<1>6. Killing(u, K) = k
  BY <1>2 DEF k, Killing
<1> QED  BY <1>3, <1>4, <1>5, <1>6

LEMMA LookTypes ==
  ASSUME Types, NEW o \in Objects
  PROVE  InSight(o) \in SUBSET Objects /\ Alive(o) \in SUBSET Objects
         /\ o \notin InSight(o) /\ o \notin Alive(o)
BY DEF Types, InSight, Alive

LEMMA CellTypes == Spawn \in Cells
BY SizeAssumption DEF Spawn, Cells

LEMMA InitTypes == Init => Types
<1> SUFFICES ASSUME Init PROVE Types
  OBVIOUS
<1>1. /\ ingame \subseteq Users /\ registered \subseteq Objects /\ invisible \subseteq Objects
      /\ pos \in [Objects -> Cells] /\ used \subseteq Users
      /\ dirty \subseteq Objects \X Objects /\ alone \subseteq Threads
  BY DEF Init, Objects
<1>2. graves \in [Objects -> Nat] /\ deeds \in 0..MaxDeeds /\ \A o \in Objects : graves[o] <= deeds
  BY SizeAssumption DEF Init
<1>3. view_list \in [Users -> SUBSET Objects]
  BY <1>1 DEF Init, InSight
<1>4. screen \in [Users -> [Objects -> Screens]]
  <2>1. Nothing \in Screens /\ \A o \in Objects : Entry("shown", pos[o]) \in Screens
    BY <1>1, CellTypes DEF Nothing, Entry, Screens, Spawn
  <2>2. \A u \in Users : [o \in Objects |->
           IF u \in ingame /\ o \in InSight(u) \cup {u} THEN Entry("shown", pos[o]) ELSE Nothing]
           \in [Objects -> Screens]
    BY <2>1
  <2> QED  BY <2>2, Zenon DEF Init
<1>5. task \in [Threads -> Tasks] /\ \A t \in Threads : TaskOK(task[t])
  BY IdleOK, Zenon DEF Init
<1> QED  BY <1>1, <1>2, <1>3, <1>4, <1>5 DEF Types

\* The handlers that begin.
LEMMA LoginTypes ==
  ASSUME Types, NEW u \in Users, Login(u)
  PROVE  Types'
<1>1. PICK c \in Cells :
        /\ pos' = [pos EXCEPT ![u] = c]
        /\ screen' = [screen EXCEPT ![u] = [o \in Objects |-> IF o = u THEN Entry("shown", c) ELSE Nothing]]
  BY DEF Login
<1>2. u \in Objects /\ u \in Threads
  BY DEF Objects, Threads
<1> DEFINE k == Task("scan", "login", u, {}, {}, <<>>)
<1>3. k \in Tasks /\ TaskOK(k)
  BY <1>2, NewTask
<1>4. Begin(u, k)
  BY DEF Login
<1> HIDE DEF k
<1>5. /\ task' \in [Threads -> Tasks] /\ (\A x \in Threads : TaskOK(task'[x]))
      /\ deeds' \in 0..MaxDeeds /\ deeds' = deeds + 1 /\ alone' \subseteq Threads
  BY <1>2, <1>3, <1>4, BeginTypes
<1>6. [o \in Objects |-> IF o = u THEN Entry("shown", c) ELSE Nothing] \in [Objects -> Screens]
  BY CellTypes DEF Entry, Nothing, Screens, Spawn
<1>7. screen' \in [Users -> [Objects -> Screens]]
  BY <1>1, <1>6, Zenon DEF Types
<1>8. pos' \in [Objects -> Cells]
  BY <1>1 DEF Types
<1>9. dirty' \subseteq Objects \X Objects
  BY <1>2, MetIs DEF Login, Types, Pairs
<1>10. graves' = graves /\ view_list' = view_list /\ ingame' \subseteq Users
       /\ registered' \subseteq Objects /\ invisible' \subseteq Objects /\ used' \subseteq Users
  BY <1>2 DEF Login, Types
<1>11. \A o \in Objects : graves[o] <= deeds + 1
  BY DEF Types
<1> QED  BY <1>5, <1>7, <1>8, <1>9, <1>10, <1>11 DEF Types

LEMMA WalkTypes ==
  ASSUME Types, NEW u \in Users, NEW t \in Threads, NEW c \in Cells,
         pos' = [pos EXCEPT ![u] = c],
         Begin(t, Task("copy", "move", u, {}, {}, <<>>)),
         dirty' = dirty \cup Met(t, u),
         UNCHANGED <<ingame, registered, life, view_list, screen, used>>
  PROVE  Types'
<1>2. u \in Objects
  BY DEF Objects
<1> DEFINE k == Task("copy", "move", u, {}, {}, <<>>)
<1>3. k \in Tasks /\ TaskOK(k)
  BY <1>2, NewTask
<1> HIDE DEF k
<1>5. /\ task' \in [Threads -> Tasks] /\ (\A x \in Threads : TaskOK(task'[x]))
      /\ deeds' \in 0..MaxDeeds /\ deeds' = deeds + 1 /\ alone' \subseteq Threads
  BY <1>3, BeginTypes DEF k
<1>8. pos' \in [Objects -> Cells]
  BY DEF Types
<1>9. dirty' \subseteq Objects \X Objects
  BY <1>2, MetIs DEF Types
<1>11. \A o \in Objects : graves[o] <= deeds + 1
  BY DEF Types
<1> QED  BY <1>5, <1>8, <1>9, <1>11 DEF Types, life

\* A handler that leaves the world as it is.
LEMMA StartTypes ==
  ASSUME Types, NEW o \in Objects, NEW t \in Threads, NEW k \in Tasks, TaskOK(k), Begin(t, k),
         dirty' = dirty \cup Met(t, o),
         UNCHANGED <<world, view_list, screen, used>>
  PROVE  Types'
<1>1. /\ task' \in [Threads -> Tasks] /\ (\A x \in Threads : TaskOK(task'[x]))
      /\ deeds' \in 0..MaxDeeds /\ deeds' = deeds + 1 /\ alone' \subseteq Threads
  BY BeginTypes
<1>2. dirty' \subseteq Objects \X Objects
  BY MetIs DEF Types
<1>3. \A q \in Objects : graves[q] <= deeds + 1
  BY DEF Types
<1> QED  BY <1>1, <1>2, <1>3 DEF Types, world, life

LEMMA RoamTypes ==
  ASSUME Types, NEW n \in Npcs, NEW t \in Threads,
         Begin(t, Task("step", "npc", n, InSight(n), {}, <<>>)),
         dirty' = dirty \cup Met(t, n),
         UNCHANGED <<world, view_list, screen, used>>
  PROVE  Types'
<1>1. n \in Objects
  BY DEF Objects
<1> DEFINE k == Task("step", "npc", n, InSight(n), {}, <<>>)
<1>2. k \in Tasks /\ TaskOK(k)
  BY <1>1, NewTask, LookTypes
<1>3. Begin(t, k)
  OBVIOUS
<1> HIDE DEF k
<1> QED  BY <1>1, <1>2, <1>3, StartTypes

LEMMA KillTypes ==
  ASSUME Types, NEW u \in Users, Kill(u)
  PROVE  Types'
<1>1. PICK K \in SUBSET {o \in view_list[u] : Dist(pos[u], pos[o]) = 1} :
       /\ K # {}
       /\ invisible' = invisible \cup K
       /\ graves' = [o \in Objects |-> graves[o] + IF o \in K THEN 1 ELSE 0]
       /\ Begin(u, Killing(u, K))
       /\ dirty' = dirty \cup Met(u, u) \cup (UNION {Met(u, o) : o \in K})
                         \cup (UNION {Pairs(o) : o \in K \cap Users})
  BY DEF Kill, Killing
<1>2. u \in Objects /\ u \in Threads /\ K \in SUBSET Objects
  BY DEF Objects, Threads, Types
<1> DEFINE k == Killing(u, K)
<1>3. k \in Tasks /\ TaskOK(k)
  BY <1>1, <1>2, KillTask
<1>4. Begin(u, k)
  BY <1>1
<1> HIDE DEF k
<1>5. /\ task' \in [Threads -> Tasks] /\ (\A x \in Threads : TaskOK(task'[x]))
      /\ deeds' \in 0..MaxDeeds /\ deeds' = deeds + 1 /\ alone' \subseteq Threads
  BY <1>2, <1>3, <1>4, BeginTypes
<1>6. deeds \in Nat /\ graves \in [Objects -> Nat] /\ \A o \in Objects : graves[o] <= deeds
  BY DEF Types
<1>7. graves' \in [Objects -> Nat] /\ \A o \in Objects : graves'[o] <= deeds + 1
  BY <1>1, <1>6
<1>8. \A o \in K : o \in Objects /\ Met(u, o) \subseteq Objects \X Objects /\ Pairs(o) \subseteq Objects \X Objects
  BY <1>2, MetIs DEF Pairs
<1>9. dirty' \subseteq Objects \X Objects
  <2>1. dirty \cup Met(u, u) \subseteq Objects \X Objects
    BY <1>2, MetIs DEF Types
  <2> DEFINE A == UNION {Met(u, o) : o \in K}
  <2> DEFINE B == UNION {Pairs(o) : o \in K \cap Users}
  <2>2. A \subseteq Objects \X Objects
    BY <1>8, Zenon
  <2>3. B \subseteq Objects \X Objects
    BY <1>8, Zenon
  <2>4. dirty' = dirty \cup Met(u, u) \cup A \cup B
    BY <1>1, Zenon
  <2> HIDE DEF A, B
  <2> QED  BY <2>1, <2>2, <2>3, <2>4
<1>10. invisible' \subseteq Objects
  BY <1>1, <1>2 DEF Types
<1> QED  BY <1>5, <1>7, <1>9, <1>10 DEF Types, Kill

LEMMA RegenTypes ==
  ASSUME Types, NEW o \in Objects, Regen(o)
  PROVE  Types'
<1>1. deeds \in 0..MaxDeeds /\ graves \in [Objects -> Nat] /\ (\A q \in Objects : graves[q] <= deeds)
      /\ graves' = [graves EXCEPT ![o] = @ - 1] /\ graves[o] > 0
  BY DEF Types, Regen
<1>2. graves' \in [Objects -> Nat] /\ \A q \in Objects : graves'[q] <= deeds /\ graves'[q] <= deeds + 1
  BY <1>1
<1>3. Other \in Threads
  BY DEF Threads
<1>4. invisible' \subseteq Objects
  BY DEF Types, Regen
<1>5. CASE \E u \in ingame : can_see(o, u)
  <2> DEFINE k == Task("scan", "regen", o, {}, {}, <<>>)
  <2>1. k \in Tasks /\ TaskOK(k)
    BY NewTask
  <2>2. Begin(Other, k) /\ dirty' = dirty \cup Met(Other, o)
    BY <1>5 DEF Regen
  <2> HIDE DEF k
  <2>3. /\ task' \in [Threads -> Tasks] /\ (\A x \in Threads : TaskOK(task'[x]))
        /\ deeds' \in 0..MaxDeeds /\ deeds' = deeds + 1 /\ alone' \subseteq Threads
    BY <1>3, <2>1, <2>2, BeginTypes
  <2>4. dirty' \subseteq Objects \X Objects
    BY <1>3, <2>2, MetIs DEF Types
  <2> QED  BY <1>2, <1>4, <2>3, <2>4 DEF Types, Regen
<1>6. CASE ~\E u \in ingame : can_see(o, u)
  <2>1. deeds < MaxDeeds /\ deeds' = deeds + 1 /\ UNCHANGED <<task, alone, dirty>>
    BY <1>6 DEF Regen
  <2>2. deeds' \in 0..MaxDeeds
    BY <2>1, <1>1, SizeAssumption
  <2> QED  BY <1>2, <1>4, <2>1, <2>2 DEF Types, Regen
<1> QED  BY <1>5, <1>6

LEMMA DisconnectTypes ==
  ASSUME Types, NEW u \in Users, Disconnect(u)
  PROVE  Types'
<1> DEFINE near == {v \in ingame \ {u} : can_see(u, v)}
<1>1. u \in Objects /\ Other \in Threads /\ near \in SUBSET Users
  BY DEF Objects, Threads, Types
<1> DEFINE k == Leaving(u, near)
<1>2. Begin(Other, k)
  BY DEF Disconnect, Leaving
<1> HIDE DEF near
<1>3. k \in Tasks /\ TaskOK(k)
  BY <1>1, LeaveTask
<1> HIDE DEF k
<1> QED  BY <1>1, <1>2, <1>3, StartTypes DEF Disconnect

\* The steps of a handler.
LEMMA CopyTask ==
  ASSUME Types, NEW t \in Threads, Copy(t)
  PROVE  LET k == task[t]
             j == [k EXCEPT !.pc = "scan", !.old = view_list[k.who]]
         IN  /\ k \in Tasks /\ TaskOK(k) /\ k.who \in Users /\ k.kind = "move"
             /\ j \in Tasks /\ TaskOK(j) /\ Set(t, j)
             /\ j.pc = "scan" /\ j.kind = "move" /\ j.who = k.who /\ j.old = view_list[k.who] /\ j.out = {}
             /\ \A p : ~Due(j, p)
<1> DEFINE k == task[t]
<1> DEFINE j == [k EXCEPT !.pc = "scan", !.old = view_list[k.who]]
<1>1. k \in Tasks /\ TaskOK(k) /\ k.pc = "copy" /\ Set(t, j)
  BY DEF Copy, Types
<1> HIDE DEF k
<1>2. k.kind = "move" /\ k.who \in Users /\ view_list[k.who] \in SUBSET Objects /\ k.out = {}
  BY <1>1 DEF TaskOK, KindOK, Types
<1>3. /\ j.pc = "scan" /\ j.kind = "move" /\ j.who = k.who /\ j.old = view_list[k.who]
      /\ j.todo = k.todo /\ j.now = k.now /\ j.out = {}
  BY <1>1, <1>2 DEF Tasks
<1>4. j \in Tasks
  BY <1>1, <1>2 DEF Tasks, Stages
<1>5. j.todo = {} /\ j.now = <<>>
  BY <1>1, <1>3 DEF TaskOK
<1>6. KindOK(j)
  BY <1>1, <1>2, <1>3 DEF KindOK, TaskOK
<1> HIDE DEF j
<1>7. TaskOK(j) /\ \A p : ~Due(j, p)
  BY <1>3, <1>4, <1>5, <1>6, EarlyTask
<1> QED  BY <1>1, <1>2, <1>3, <1>4, <1>7 DEF j, k

LEMMA CopyTypes ==
  ASSUME Types, NEW t \in Threads, Copy(t)
  PROVE  Types'
<1> DEFINE j == [task[t] EXCEPT !.pc = "scan", !.old = view_list[task[t].who]]
<1>1. j \in Tasks /\ TaskOK(j) /\ Set(t, j)
  BY CopyTask
<1> HIDE DEF j
<1>2. task' \in [Threads -> Tasks] /\ \A x \in Threads : TaskOK(task'[x])
  BY <1>1, SetTypes
<1> QED  BY <1>2 DEF Types, Copy, world, life, past

LEMMA StepTask ==
  ASSUME Types, NEW t \in Threads, Step(t)
  PROVE  LET k == task[t]
             j == [k EXCEPT !.pc = "scan"]
         IN  /\ k \in Tasks /\ TaskOK(k) /\ k.who \in Npcs /\ k.kind = "npc"
             /\ j \in Tasks /\ TaskOK(j) /\ Set(t, j)
             /\ j.pc = "scan" /\ j.kind = "npc" /\ j.who = k.who /\ j.old = k.old /\ j.out = {}
             /\ \A p : ~Due(j, p)
<1> DEFINE k == task[t]
<1> DEFINE j == [k EXCEPT !.pc = "scan"]
<1>1. k \in Tasks /\ TaskOK(k) /\ k.pc = "step" /\ Set(t, j)
  BY DEF Step, Types
<1> HIDE DEF k
<1>2. k.kind = "npc" /\ k.who \in Npcs /\ k.out = {}
  BY <1>1 DEF TaskOK, KindOK
<1>3. /\ j.pc = "scan" /\ j.kind = "npc" /\ j.who = k.who /\ j.old = k.old
      /\ j.todo = k.todo /\ j.now = k.now /\ j.out = {}
  BY <1>1, <1>2 DEF Tasks
<1>4. j \in Tasks
  BY <1>1, <1>2 DEF Tasks, Stages
<1>5. j.todo = {} /\ j.now = <<>>
  BY <1>1, <1>3 DEF TaskOK
<1>6. KindOK(j)
  BY <1>1, <1>2, <1>3 DEF KindOK, TaskOK
<1> HIDE DEF j
<1>7. TaskOK(j) /\ \A p : ~Due(j, p)
  BY <1>3, <1>4, <1>5, <1>6, EarlyTask
<1> QED  BY <1>1, <1>2, <1>3, <1>4, <1>7 DEF j, k

LEMMA StepTypes ==
  ASSUME Types, NEW t \in Threads, Step(t)
  PROVE  Types'
<1> DEFINE j == [task[t] EXCEPT !.pc = "scan"]
<1>1. j \in Tasks /\ TaskOK(j) /\ Set(t, j)
  BY StepTask
<1> HIDE DEF j
<1>2. task' \in [Threads -> Tasks] /\ \A x \in Threads : TaskOK(task'[x])
  BY <1>1, SetTypes
<1>3. pos' \in [Objects -> Cells]
  BY DEF Types, Step, Near
<1> QED  BY <1>2, <1>3 DEF Types, Step, life, past

\* A scan of either server: the game's handlers forget what they have found,
\* the lesson's keep it.
ScanInto(t, keep) ==
  LET k == task[t] IN
  /\ k.pc = "scan"
  /\ Set(t, Spread(k, Updates(k.kind, k.who, k.old, Found(k.kind, k.who)) \ {<<>>}, keep))
  /\ UNCHANGED <<world, view_list, screen, past>>

LEMMA ScanTask ==
  ASSUME Types, NEW t \in Threads, NEW keep \in SUBSET Objects, ScanInto(t, keep)
  PROVE  LET k == task[t]
             P == Updates(k.kind, k.who, k.old, Found(k.kind, k.who)) \ {<<>>}
             j == Spread(k, P, keep)
         IN  /\ k \in Tasks /\ TaskOK(k) /\ k.who \in Objects /\ k.pc = "scan"
             /\ k.kind \in {"login", "move", "npc", "regen"}
             /\ j \in Tasks /\ TaskOK(j) /\ Set(t, j) /\ j.out = {}
             /\ j.old \in {{}, keep} /\ (j.pc = "build" => j.old = keep)
             /\ j.pc = "idle" \/ (j.pc = "build" /\ j.who = k.who /\ j.kind = k.kind)
             /\ \A p : Due(j, p) <=> \/ \E s \in P : p \in Elements(s)
                                     \/ k.kind = "move" /\ p = Packet("move", k.who, k.who)
<1> DEFINE k == task[t]
<1> DEFINE P == Updates(k.kind, k.who, k.old, Found(k.kind, k.who)) \ {<<>>}
<1> DEFINE j == Spread(k, P, keep)
<1>1. k \in Tasks /\ TaskOK(k) /\ k.pc = "scan" /\ Set(t, j)
  BY DEF ScanInto, Types
<1> HIDE DEF k
<1>2. k.who \in Objects /\ k.old \in SUBSET Objects /\ k.kind \in {"login", "move", "npc", "regen"}
  BY <1>1 DEF TaskOK, KindOK, Tasks
<1>3. Found(k.kind, k.who) \in SUBSET Objects
  BY <1>2, LookTypes DEF Found
<1>4. P \in SUBSET Msgs /\ <<>> \notin P /\ \A s \in P : \A p \in Elements(s) : k.who \in {p.to, p.of}
  BY <1>2, <1>3, UpdatesMsg
<1> HIDE DEF P
<1>5. /\ j \in Tasks /\ TaskOK(j) /\ j.out = {}
      /\ j.old \in {{}, keep} /\ (j.pc = "build" => j.old = keep)
      /\ j.pc = "idle" \/ (j.pc = "build" /\ j.who = k.who /\ j.kind = k.kind)
      /\ \A p : Due(j, p) <=> \/ \E s \in P : p \in Elements(s)
                              \/ k.kind = "move" /\ p = Packet("move", k.who, k.who)
  BY <1>1, <1>4, SpreadTask
<1> HIDE DEF j
<1> QED  BY <1>1, <1>2, <1>5 DEF k, j, P

LEMMA ScanTypes ==
  ASSUME Types, NEW t \in Threads, NEW keep \in SUBSET Objects, ScanInto(t, keep)
  PROVE  Types'
<1>1. PICK j \in Tasks : TaskOK(j) /\ Set(t, j)
  BY ScanTask
<1>2. task' \in [Threads -> Tasks] /\ \A x \in Threads : TaskOK(task'[x])
  BY <1>1, SetTypes
<1> QED  BY <1>2 DEF Types, ScanInto, world, life, past

LEMMA ScanIs ==
  ASSUME NEW t \in Threads, Scan(t)
  PROVE  ScanInto(t, {})
BY DEF Scan, ScanInto

LEMMA BuildStep ==
  ASSUME Types, NEW t \in Threads, Build(t)
  PROVE  \E p \in Packets, j \in Tasks :
           LET k == task[t] IN
           /\ k \in Tasks /\ TaskOK(k) /\ k.pc = "build" /\ k.who \in Objects /\ k.out = {}
           /\ k.who \in {p.to, p.of}
           /\ TaskOK(j) /\ Set(t, j) /\ view_list' = Listed(p)
           /\ j.pc = "send" /\ j.who = k.who /\ j.kind = k.kind /\ j.old = k.old
           /\ j.out = {[p |-> p, x |-> pos[p.of]]}
           /\ \A q : Due(k, q) => Due(j, q) \/ q = p
           /\ \A q : Due(j, q) => Due(k, q)
           /\ Due(k, p) \/ (k.kind = "leave" /\ p = Packet("remove", k.who, k.who))
<1> DEFINE k == task[t]
<1>1. PICK s \in First(k) :
        /\ view_list' = Listed(Head(s))
        /\ Set(t, [k EXCEPT !.pc = "send", !.todo = @ \ {s}, !.now = Tail(s),
                             !.out = {[p |-> Head(s), x |-> pos[Head(s).of]]}])
  BY Zenon DEF Build
<1>2. k \in Tasks /\ TaskOK(k) /\ k.pc = "build"
  BY DEF Build, Types
<1> HIDE DEF k
<1>3. k.who \in Objects /\ k.out = {}
  BY <1>2 DEF TaskOK, KindOK
<1>4. \A x \in Cells : Head(s) \in Packets
  BY <1>2, BuildTask
<1>5. pos[Head(s).of] \in Cells
  BY <1>4, CellTypes DEF Types, Packets
<1> DEFINE j == [k EXCEPT !.pc = "send", !.todo = @ \ {s}, !.now = Tail(s),
                          !.out = {[p |-> Head(s), x |-> pos[Head(s).of]]}]
<1>6. LET p == Head(s) IN
      /\ p \in Packets /\ k.who \in {p.to, p.of}
      /\ j \in Tasks /\ TaskOK(j)
      /\ j.pc = "send" /\ j.who = k.who /\ j.kind = k.kind /\ j.old = k.old
      /\ j.out = {[p |-> p, x |-> pos[p.of]]}
      /\ \A q : Due(k, q) => Due(j, q) \/ q = p
      /\ \A q : Due(j, q) => Due(k, q)
      /\ Due(k, p) \/ (k.kind = "leave" /\ p = Packet("remove", k.who, k.who))
  BY <1>2, <1>5, BuildTask
<1>7. Set(t, j)
  BY <1>1
<1> HIDE DEF j
<1>8. Head(s) \in Packets /\ j \in Tasks
  BY <1>6
<1> USE <1>8
<1> WITNESS Head(s) \in Packets, j \in Tasks
<1> QED  BY <1>1, <1>2, <1>3, <1>6, <1>7 DEF k

\* What a packet does to the list of the user it goes to.
LEMMA ListedIs ==
  ASSUME Types, NEW p \in Packets, view_list' = Listed(p)
  PROVE  /\ view_list' \in [Users -> SUBSET Objects]
         /\ \A u \in Users, o \in Objects : ~(p.to = u /\ p.of = o) =>
              (o \in view_list'[u] <=> o \in view_list[u])
         /\ p.op = "add" => p.of \in view_list'[p.to]
         /\ p.op = "remove" => p.of \notin view_list'[p.to]
         /\ p.op = "move" => view_list' = view_list
<1>1. p.to \in Users /\ p.of \in Objects /\ p.op \in Ops /\ view_list \in [Users -> SUBSET Objects]
  BY DEF Packets, Types, Ops
<1>2. CASE p.op = "add"
  <2>1. view_list' = [view_list EXCEPT ![p.to] = @ \cup {p.of}]
    BY <1>2 DEF Listed
  <2> QED  BY <1>1, <1>2, <2>1
<1>3. CASE p.op = "remove"
  <2>1. view_list' = [view_list EXCEPT ![p.to] = @ \ {p.of}]
    BY <1>3 DEF Listed
  <2> QED  BY <1>1, <1>3, <2>1
<1>4. CASE p.op = "move"
  <2>1. view_list' = view_list
    BY <1>4 DEF Listed
  <2> QED  BY <1>1, <1>4, <2>1
<1> QED  BY <1>1, <1>2, <1>3, <1>4 DEF Ops

LEMMA BuildTypes ==
  ASSUME Types, NEW t \in Threads, Build(t)
  PROVE  Types'
<1>1. PICK p \in Packets, j \in Tasks : TaskOK(j) /\ Set(t, j) /\ view_list' = Listed(p)
  BY BuildStep
<1>2. task' \in [Threads -> Tasks] /\ \A x \in Threads : TaskOK(task'[x])
  BY <1>1, SetTypes
<1>3. view_list' \in [Users -> SUBSET Objects]
  BY <1>1, ListedIs
<1> QED  BY <1>2, <1>3 DEF Types, Build, world, life, past

\* Worker t sends what it has built, m, and is j then.
Sends(t, m, j) ==
  LET k == task[t] IN
  /\ k \in Tasks /\ TaskOK(k) /\ k.pc = "send" /\ k.who \in Objects
  /\ m \in k.out /\ m \in [p : Packets, x : Cells]
  /\ k.who \in {m.p.to, m.p.of} /\ \A q : Sent(k, q) <=> q = m.p
  /\ screen' = IF m.p.to \in ingame
               THEN [screen EXCEPT ![m.p.to][m.p.of] = Shown(m.p, m.x)] ELSE screen
  /\ TaskOK(j) /\ Set(t, j) /\ j.out = {}
  /\ \A q : Due(j, q) <=> Due(k, q)
  /\ j.pc = "idle" \/ (j.pc \in {"build", "store"} /\ j.who = k.who /\ j.kind = k.kind)
  /\ j.old = {} \/ j.old = k.old

LEMMA SentIs ==
  ASSUME NEW k \in Tasks, TaskOK(k), k.pc = "send", NEW m \in k.out
  PROVE  /\ k.who \in Objects /\ m \in [p : Packets, x : Cells]
         /\ k.who \in {m.p.to, m.p.of} /\ \A q : Sent(k, q) <=> q = m.p
<1>1. k.who \in Objects /\ m \in [p : Packets, x : Cells] /\ \A n \in k.out : n = m
  BY DEF TaskOK, KindOK, Tasks
<1>2. \A q : Sent(k, q) <=> q = m.p
  BY <1>1 DEF Sent
<1>3. k.who \in {m.p.to, m.p.of}
  BY <1>1, <1>2 DEF TaskOK
<1> QED  BY <1>1, <1>2, <1>3

LEMMA SendStep ==
  ASSUME Types, NEW t \in Threads, Send(t)
  PROVE  \E m \in task[t].out, j \in Tasks :
           /\ Sends(t, m, j) /\ j.pc \in {"idle", "build"}
           /\ ingame' = IF j.pc = "idle" /\ task[t].kind = "leave"
                        THEN ingame \ {task[t].who} ELSE ingame
<1> DEFINE k == task[t]
<1>1. PICK m \in k.out :
        screen' = IF m.p.to \in ingame
                  THEN [screen EXCEPT ![m.p.to][m.p.of] = Shown(m.p, m.x)] ELSE screen
  BY Zenon DEF Send, Deliver
<1> DEFINE j == IF Last(k) THEN Idle ELSE [k EXCEPT !.pc = "build", !.out = {}]
<1>2. /\ k \in Tasks /\ TaskOK(k) /\ k.pc = "send" /\ Set(t, j)
      /\ ingame' = IF Last(k) /\ k.kind = "leave" THEN ingame \ {k.who} ELSE ingame
  BY DEF Send, Types
<1> HIDE DEF k
<1>3. /\ j \in Tasks /\ TaskOK(j) /\ j.out = {}
      /\ \A q : Due(j, q) <=> Due(k, q)
      /\ j.pc = "idle" \/ (j.pc = "build" /\ j.who = k.who /\ j.kind = k.kind)
      /\ j.pc = "idle" <=> Last(k)
      /\ j.old = {} \/ j.old = k.old
  BY <1>2, SendTask
<1>4. /\ k.who \in Objects /\ m \in [p : Packets, x : Cells]
      /\ k.who \in {m.p.to, m.p.of} /\ \A q : Sent(k, q) <=> q = m.p
  BY <1>1, <1>2, SentIs
<1> HIDE DEF j
<1>5. Sends(t, m, j)
  BY <1>1, <1>2, <1>3, <1>4 DEF Sends, k
<1>7. m \in task[t].out
  BY <1>1 DEF k
<1>8. j \in Tasks
  BY <1>3
<1> USE <1>7, <1>8
<1> WITNESS m \in task[t].out, j \in Tasks
<1> QED  BY <1>2, <1>3, <1>5 DEF k

\* What it does to the client's table.
LEMMA ShownIs ==
  ASSUME Types, NEW m \in [p : Packets, x : Cells],
         screen' = IF m.p.to \in ingame
                   THEN [screen EXCEPT ![m.p.to][m.p.of] = Shown(m.p, m.x)] ELSE screen
  PROVE  /\ screen' \in [Users -> [Objects -> Screens]]
         /\ \A u \in Users, o \in Objects : ~(m.p.to = u /\ m.p.of = o) => screen'[u][o] = screen[u][o]
         /\ m.p.to \in ingame => screen'[m.p.to][m.p.of] = Shown(m.p, m.x)
<1>1. m.p \in Packets /\ m.x \in Cells /\ m.p.to \in Users /\ m.p.of \in Objects /\ m.p.op \in Ops
  BY DEF Packets, Ops
<1>2. screen[m.p.to][m.p.of] \in Screens
  BY <1>1 DEF Types
<1>3. Shown(m.p, m.x) \in Screens
  BY <1>1, <1>2, CellTypes DEF Shown, Entry, Nothing, Screens, Ops, Spawn
<1>4. screen \in [Users -> [Objects -> Screens]]
  BY DEF Types
<1>5. CASE m.p.to \notin ingame
  BY <1>4, <1>5
<1>6. CASE m.p.to \in ingame
  <2>1. screen' = [screen EXCEPT ![m.p.to] = [screen[m.p.to] EXCEPT ![m.p.of] = Shown(m.p, m.x)]]
    BY <1>6
  <2> DEFINE row == [screen[m.p.to] EXCEPT ![m.p.of] = Shown(m.p, m.x)]
  <2>2. /\ row \in [Objects -> Screens] /\ row[m.p.of] = Shown(m.p, m.x)
        /\ \A o \in Objects : o # m.p.of => row[o] = screen[m.p.to][o]
    BY <1>1, <1>3, <1>4
  <2>3. screen' = [screen EXCEPT ![m.p.to] = row]
    BY <2>1
  <2> HIDE DEF row
  <2>4. /\ screen' \in [Users -> [Objects -> Screens]] /\ screen'[m.p.to] = row
        /\ \A u \in Users : u # m.p.to => screen'[u] = screen[u]
    BY <1>1, <1>4, <2>2, <2>3
  <2> QED  BY <1>1, <2>2, <2>4
<1> QED  BY <1>5, <1>6

LEMMA SendTypes ==
  ASSUME Types, NEW t \in Threads, NEW m, NEW j \in Tasks, Sends(t, m, j),
         UNCHANGED <<pos, invisible, graves, view_list, deeds, used, dirty, alone>>,
         ingame' \subseteq ingame, registered' \subseteq registered
  PROVE  Types'
<1>1. /\ m \in [p : Packets, x : Cells]
      /\ screen' = IF m.p.to \in ingame
                   THEN [screen EXCEPT ![m.p.to][m.p.of] = Shown(m.p, m.x)] ELSE screen
      /\ TaskOK(j) /\ Set(t, j)
  BY DEF Sends
<1>2. task' \in [Threads -> Tasks] /\ \A x \in Threads : TaskOK(task'[x])
  BY <1>1, SetTypes
<1>3. screen' \in [Users -> [Objects -> Screens]]
  BY <1>1, ShownIs
<1> QED  BY <1>2, <1>3 DEF Types

LEMMA NextTypes ==
  ASSUME Types, [Next]_vars
  PROVE  Types'
<1>1. CASE UNCHANGED vars
  BY <1>1 DEF Types, vars, world, life, past
<1>2. ASSUME NEW u \in Users, Login(u)  PROVE Types'
  BY <1>2, LoginTypes
<1>3. ASSUME NEW u \in Users, Move(u)  PROVE Types'
  <2>1. u \in Threads  BY DEF Threads, Objects
  <2> QED  BY <1>3, <2>1, WalkTypes DEF Move
<1>4. ASSUME NEW u \in Users, Death(u)  PROVE Types'
  <2>1. Other \in Threads /\ Spawn \in Cells  BY CellTypes DEF Threads
  <2> QED  BY <1>4, <2>1, WalkTypes DEF Death
<1>5. ASSUME NEW u \in Users, Disconnect(u)  PROVE Types'
  BY <1>5, DisconnectTypes
<1>6. ASSUME NEW u \in Users, Kill(u)  PROVE Types'
  BY <1>6, KillTypes
<1>7. ASSUME NEW n \in Npcs, NpcMove(n)  PROVE Types'
  <2>1. n \in Threads  BY DEF Threads, Objects
  <2> QED  BY <1>7, <2>1, RoamTypes DEF NpcMove
<1>8. ASSUME NEW o \in Objects, Regen(o)  PROVE Types'
  BY <1>8, RegenTypes
<1>9. ASSUME NEW t \in Threads, Copy(t) \/ Step(t) \/ Scan(t) \/ Build(t)  PROVE Types'
  BY <1>9, CopyTypes, StepTypes, ScanIs, ScanTypes, BuildTypes
<1>10. ASSUME NEW t \in Threads, Send(t)  PROVE Types'
  <2>1. PICK m \in task[t].out, j \in Tasks :
             /\ Sends(t, m, j)
             /\ ingame' = IF j.pc = "idle" /\ task[t].kind = "leave"
                          THEN ingame \ {task[t].who} ELSE ingame
    BY <1>10, SendStep
  <2>2. UNCHANGED <<registered, pos, invisible, graves, view_list, deeds, used, dirty, alone>>
    BY <1>10 DEF Send, life, past
  <2>3. ingame' \subseteq ingame
    BY <2>1
  <2> QED  BY <2>1, <2>2, <2>3, SendTypes
<1> QED  BY <1>1, <1>2, <1>3, <1>4, <1>5, <1>6, <1>7, <1>8, <1>9, <1>10 DEF Next

LEMMA TypesHold == Spec => []Types
<1>1. Init => Types
  BY InitTypes
<1>2. Types /\ [Next]_vars => Types'
  BY NextTypes
<1> QED  BY <1>1, <1>2, PTL DEF Spec

LEMMA TypesAre ==
  ASSUME Types
  PROVE  TypeOK
<1>1. graves \in [Objects -> 0..MaxDeeds]
  <2>1. \A o \in Objects : graves[o] \in Nat /\ graves[o] <= deeds /\ deeds \in Nat /\ deeds <= MaxDeeds
    BY SizeAssumption DEF Types
  <2>2. \A o \in Objects : graves[o] \in 0..MaxDeeds
    BY <2>1, SizeAssumption
  <2> QED  BY <2>2 DEF Types
<1>2. ASSUME NEW t \in Threads
      PROVE  /\ task[t].pc \in {"idle", "copy", "step", "scan", "build", "send", "store"}
             /\ task[t].kind \in {"none", "login", "move", "npc", "kill", "regen", "leave", "bye"}
             /\ task[t].who \in Threads /\ task[t].old \subseteq Objects
             /\ \A s \in task[t].todo \cup {task[t].now} : Len(s) <= 2 /\ Elements(s) \subseteq Packets
             /\ task[t].out \subseteq [p : Packets, x : Cells] /\ Cardinality(task[t].out) <= 1
  <2>1. task[t] \in Tasks /\ TaskOK(task[t])
    BY DEF Types
  <2>2. \A s \in Msgs : Len(s) <= 2 /\ Elements(s) \subseteq Packets
    BY DEF Msgs, Elements
  <2>3. Cardinality(task[t].out) <= 1
    <3>1. CASE task[t].out = {}
      BY <3>1, FS_EmptySet
    <3>2. CASE task[t].out # {}
      <4>1. PICK m \in task[t].out : TRUE  BY <3>2
      <4>2. task[t].out = {m}  BY <4>1, <2>1 DEF TaskOK
      <4> QED  BY <4>2, FS_Singleton
    <3> QED  BY <3>1, <3>2
  <2> QED  BY <2>1, <2>2, <2>3 DEF Tasks, Stages, Kinds
<1> QED  BY <1>1, <1>2 DEF Types, TypeOK, Screens

\* TypeOK: every worker's state is one a handler can be in, a worker holds at
\* most one packet that is built and not sent, and the killed are counted.
THEOREM TypeCorrect == Spec => []TypeOK
<1>1. Types => TypeOK
  BY TypesAre
<1> QED  BY <1>1, TypesHold, PTL

-----------------------------------------------------------------------------
(* The inductive invariant. *)

Active(t)   == task[t].pc # "idle"
AllDirty(o) == Pairs(o) \subseteq dirty

\* Two handlers that run at the same time have made their pairs dirty.
Apart ==
  \A t, x \in Threads : t # x /\ Active(t) /\ Active(x) =>
    IF task[t].who = task[x].who THEN AllDirty(task[t].who)
    ELSE <<task[t].who, task[x].who>> \in dirty
Symmetric == \A a, b \in Objects : <<a, b>> \in dirty => <<b, a>> \in dirty
\* A user who was killed, or comes back from it, is in no clean pair.
Dead   == \A u \in Users : u \in invisible \/ graves[u] > 0 => AllDirty(u)
Raised == \A t \in Threads :
            Active(t) /\ task[t].kind = "regen" /\ task[t].who \in Users => AllDirty(task[t].who)
Present == ingame \cup Npcs \subseteq registered /\ ingame \subseteq used

\* Nobody knows of a slot that has never had a session.
Absent(u, k) ==
  k.who # u /\ u \notin k.old /\ \A p \in Packets : Due(k, p) \/ Sent(k, p) => p.to # u /\ p.of # u
Fresh(u) ==
  /\ u \notin registered /\ view_list[u] = {} /\ graves[u] = 0
  /\ \A v \in Users : u \notin view_list[v] /\ screen[v][u] = Nothing
  /\ \A t \in Threads : Absent(u, task[t])

\* What u's list and client hold of o: in agreement, in place, and right.
Tidy(u, o)    == screen[u][o].how = IF o \in view_list[u] THEN "shown" ELSE "none"
InPlace(u, o) == screen[u][o].how = "shown" => screen[u][o].x = pos[o]
Sound(u, o) ==
  /\ Tidy(u, o) /\ InPlace(u, o)
  /\ o \in view_list[u] => can_see(u, o)
  /\ o \notin invisible /\ can_see(u, o) => o \in view_list[u]

\* What is left of it while the handler k is about one of the two and has not
\* scanned yet: the list that k has copied, or will, is u's list of o, be it
\* the list of u or the list of o.
Looking(u, o, k) ==
  /\ Tidy(u, o)
  /\ k.kind = "login" => o \notin view_list[u] /\ k.old = {}
  /\ k.kind = "move" /\ k.who = u =>
       InPlace(u, o) /\ (k.pc = "scan" => (o \in k.old <=> o \in view_list[u]))
  /\ k.kind = "move" /\ k.who = o =>
       /\ o \in view_list[u] <=> u \in view_list[o]
       /\ k.pc = "scan" => (u \in k.old <=> o \in view_list[u])
  /\ k.kind = "npc" => (u \in k.old <=> o \in view_list[u]) /\ o \notin invisible
  /\ k.kind = "regen" => InPlace(u, o) /\ (o \in view_list[u] => can_see(u, o)) /\ o \notin invisible

\* ... and after it: every packet for u about o is the right one, and if there
\* is none left nothing is wrong.
Right(op, u, o) ==
  CASE op = "add"    -> can_see(u, o)
    [] op = "remove" -> ~can_see(u, o) \/ o \in invisible
    [] op = "move"   -> can_see(u, o) /\ o \notin invisible /\ o \in view_list[u]
                        /\ screen[u][o].how = "shown"
Quiet(u, o, k) == \A p \in Packets : p.to = u /\ p.of = o => ~Due(k, p) /\ ~Sent(k, p)
Telling(u, o, k) ==
  /\ \A p \in Packets : p.to = u /\ p.of = o /\ Due(k, p) => Right(p.op, u, o)
  /\ \A m \in k.out : m.p.to = u /\ m.p.of = o =>
       /\ m.x = pos[o] /\ Right(m.p.op, u, o)
       /\ m.p.op = "add" => o \in view_list[u]
       /\ m.p.op = "remove" => o \notin view_list[u]
  /\ Quiet(u, o, k) => Sound(u, o)

Stage(u, o, k) ==
  /\ k.pc \in {"copy", "step", "scan"} => Looking(u, o, k)
  /\ k.pc \in {"build", "send"} => Telling(u, o, k)
  /\ k.pc = "store" => Sound(u, o)

\* The handlers that end a session, here and in the lesson.
Farewell == {"leave", "bye"}

PairOK(u, o) ==
  /\ (\A t \in Threads : Active(t) => task[t].who \notin {u, o}) => Sound(u, o)
  /\ \A t \in Threads :
       Active(t) /\ task[t].who \in {u, o} /\ task[t].kind \notin Farewell => Stage(u, o, task[t])

\* The same for the client's own avatar, which only moves.
OwnStage(u, k) ==
  /\ k.pc = "scan" /\ k.kind = "login" => InPlace(u, u)
  /\ k.pc \in {"build", "send"} =>
       /\ \A m \in k.out : m.p.to = u /\ m.p.of = u => m.x = pos[u]
       /\ Quiet(u, u, k) => InPlace(u, u)
  /\ k.pc = "store" => InPlace(u, u)
Avatar(u) ==
  /\ (\A t \in Threads : Active(t) => task[t].who # u) => InPlace(u, u)
  /\ \A t \in Threads : Active(t) /\ task[t].who = u /\ task[t].kind \notin Farewell => OwnStage(u, task[t])

PairsOK == \A u \in ingame, o \in Npcs \cup ingame : o # u /\ <<u, o>> \notin dirty => PairOK(u, o)
Avatars == \A u \in ingame : <<u, u>> \notin dirty => Avatar(u)
Unknown == \A u \in Users \ used : Fresh(u)
Marks   == Apart /\ Symmetric /\ Dead /\ Raised /\ Present

IInv == Types /\ Marks /\ Unknown /\ PairsOK /\ Avatars

-----------------------------------------------------------------------------
(* A step and the pairs it is not about. *)

\* What PairOK reads of u and o besides the tasks.
Same(u, o) ==
  /\ pos'[u] = pos[u] /\ pos'[o] = pos[o] /\ (o \in invisible' <=> o \in invisible)
  /\ screen'[u][o] = screen[u][o] /\ (o \in view_list'[u] <=> o \in view_list[u])
  /\ o \in Users => (u \in view_list'[o] <=> u \in view_list[o])

LEMMA SameMeans ==
  ASSUME NEW u, NEW o, Same(u, o)
  PROVE  /\ Tidy(u, o)' <=> Tidy(u, o)
         /\ InPlace(u, o)' <=> InPlace(u, o)
         /\ can_see(u, o)' <=> can_see(u, o)
         /\ Sound(u, o)' <=> Sound(u, o)
         /\ \A op \in Ops : Right(op, u, o)' <=> Right(op, u, o)
<1>1. can_see(u, o)' <=> can_see(u, o)
  BY DEF Same, can_see, Dist
<1>2. (Tidy(u, o)' <=> Tidy(u, o)) /\ (InPlace(u, o)' <=> InPlace(u, o))
  BY DEF Same, Tidy, InPlace
<1>3. Sound(u, o)' <=> Sound(u, o)
  BY <1>1, <1>2 DEF Sound, Same
<1>4. ASSUME NEW op \in Ops  PROVE Right(op, u, o)' <=> Right(op, u, o)
  BY <1>1 DEF Right, Same, Ops
<1> QED  BY <1>1, <1>2, <1>3, <1>4

LEMMA StageFrame ==
  ASSUME NEW u \in Users, NEW o \in Objects, Same(u, o),
         NEW x \in Threads, task'[x] = task[x], task[x] \in Tasks, TaskOK(task[x]),
         Stage(u, o, task[x])
  PROVE  Stage(u, o, task[x])'
<1>1. /\ Tidy(u, o)' <=> Tidy(u, o)
      /\ InPlace(u, o)' <=> InPlace(u, o)
      /\ can_see(u, o)' <=> can_see(u, o)
      /\ Sound(u, o)' <=> Sound(u, o)
      /\ \A op \in Ops : Right(op, u, o)' <=> Right(op, u, o)
  BY SameMeans
<1>2. task[x].kind = "move" => task[x].who \in Users
  BY DEF TaskOK, KindOK
<1>3. ASSUME Looking(u, o, task[x])  PROVE Looking(u, o, task[x])'
  BY <1>1, <1>2, <1>3 DEF Looking, Same
<1>4. ASSUME Telling(u, o, task[x])  PROVE Telling(u, o, task[x])'
  <2>1. \A p : (Due(task[x], p)' <=> Due(task[x], p)) /\ (Sent(task[x], p)' <=> Sent(task[x], p))
    BY DEF Due, Sent, Elements
  <2>2. Quiet(u, o, task[x])' => Quiet(u, o, task[x])
    BY <2>1 DEF Quiet, Packets
  <2>5. (\A p \in Packets : p.op \in Ops) /\ \A m \in task[x].out : m.p \in Packets
    BY DEF Packets, Tasks, Ops
  <2>3. \A p \in Packets : p.to = u /\ p.of = o /\ Due(task[x], p)' => Right(p.op, u, o)'
    BY <2>1, <2>5, <1>1, <1>4 DEF Telling
  <2>4. \A m \in task'[x].out : m.p.to = u /\ m.p.of = o =>
          /\ m.x = pos'[o] /\ Right(m.p.op, u, o)'
          /\ m.p.op = "add" => o \in view_list'[u]
          /\ m.p.op = "remove" => o \notin view_list'[u]
    BY <2>5, <1>1, <1>4 DEF Telling, Same
  <2> QED  BY <2>2, <2>3, <2>4, <1>1, <1>4 DEF Telling, Packets
<1> QED  BY <1>1, <1>3, <1>4 DEF Stage

\* No step of a handler about neither u nor o, nor its beginning, touches them.
LEMMA PairFrame ==
  ASSUME Types, NEW u \in Users, NEW o \in Objects, Same(u, o), PairOK(u, o),
         \A x \in Threads : Active(x) /\ task[x].who \in {u, o} => task'[x] = task[x],
         \A x \in Threads : Active(x)' /\ task'[x].who \in {u, o} => task'[x] = task[x]
  PROVE  PairOK(u, o)'
<1>1. \A x \in Threads : task[x] \in Tasks /\ TaskOK(task[x])
  BY DEF Types
<1>2. ASSUME \A x \in Threads : Active(x)' => task'[x].who \notin {u, o}
      PROVE  Sound(u, o)'
  <2>1. \A x \in Threads : Active(x) => task[x].who \notin {u, o}
    BY <1>2 DEF Active
  <2>2. Sound(u, o)
    BY <2>1 DEF PairOK
  <2> QED  BY <2>2, SameMeans
<1>3. ASSUME NEW x \in Threads, Active(x)', task'[x].who \in {u, o}, task'[x].kind \notin Farewell
      PROVE  Stage(u, o, task[x])'
  <2>1. task'[x] = task[x] /\ Active(x)
    BY <1>3 DEF Active
  <2>2. Stage(u, o, task[x])
    BY <1>3, <2>1 DEF PairOK
  <2> QED  BY <1>1, <2>1, <2>2, StageFrame
<1> QED  BY <1>2, <1>3 DEF PairOK

LEMMA OwnFrame ==
  ASSUME Types, NEW u \in Users, Avatar(u), pos'[u] = pos[u], screen'[u][u] = screen[u][u],
         \A x \in Threads : Active(x) /\ task[x].who = u => task'[x] = task[x],
         \A x \in Threads : Active(x)' /\ task'[x].who = u => task'[x] = task[x]
  PROVE  Avatar(u)'
<1>1. InPlace(u, u)' <=> InPlace(u, u)
  BY DEF InPlace
<1>2. ASSUME \A x \in Threads : Active(x)' => task'[x].who # u
      PROVE  InPlace(u, u)'
  <2>1. \A x \in Threads : Active(x) => task[x].who # u
    BY <1>2 DEF Active
  <2> QED  BY <2>1, <1>1 DEF Avatar
<1>3. ASSUME NEW x \in Threads, Active(x)', task'[x].who = u, task'[x].kind \notin Farewell
      PROVE  OwnStage(u, task[x])'
  <2>1. task'[x] = task[x] /\ Active(x)
    BY <1>3 DEF Active
  <2>2. OwnStage(u, task[x])
    BY <1>3, <2>1 DEF Avatar
  <2>3. Quiet(u, u, task[x])' <=> Quiet(u, u, task[x])
    BY <2>1 DEF Quiet, Due, Sent, Packets, Elements
  <2> QED  BY <1>1, <2>1, <2>2, <2>3 DEF OwnStage
<1> QED  BY <1>2, <1>3 DEF Avatar

\* A pair one handler is about, and no other.
LEMMA PairOne ==
  ASSUME NEW t \in Threads, NEW u \in Users, NEW o \in Objects,
         \A x \in Threads \ {t} : task'[x] = task[x] /\ (Active(x) => task[x].who \notin {u, o}),
         ~Active(t)' => Sound(u, o)',
         Active(t)' => task'[t].who \in {u, o},
         Active(t)' /\ task'[t].kind \notin Farewell => Stage(u, o, task[t])'
  PROVE  PairOK(u, o)'
<1>1. \A x \in Threads : Active(x)' /\ task'[x].who \in {u, o} => x = t
  BY DEF Active
<1>2. (\A x \in Threads : Active(x)' => task'[x].who \notin {u, o}) => ~Active(t)'
  OBVIOUS
<1> QED  BY <1>1, <1>2 DEF PairOK

LEMMA OwnOne ==
  ASSUME NEW t \in Threads, NEW u \in Users,
         \A x \in Threads \ {t} : task'[x] = task[x] /\ (Active(x) => task[x].who # u),
         ~Active(t)' => InPlace(u, u)',
         Active(t)' => task'[t].who = u,
         Active(t)' /\ task'[t].kind \notin Farewell => OwnStage(u, task[t])'
  PROVE  Avatar(u)'
<1>1. \A x \in Threads : Active(x)' /\ task'[x].who = u => x = t
  BY DEF Active
<1>2. (\A x \in Threads : Active(x)' => task'[x].who # u) => ~Active(t)'
  OBVIOUS
<1> QED  BY <1>1, <1>2 DEF Avatar

LEMMA PairsIs ==
  ASSUME NEW w \in Objects, NEW a \in Objects, NEW b \in Objects, w \in {a, b}
  PROVE  <<a, b>> \in Pairs(w)
BY DEF Pairs

\* While a handler runs, no other one is about a clean pair of its object.
LEMMA AloneOn ==
  ASSUME Types, Apart, Symmetric, NEW t \in Threads, Active(t),
         NEW a \in Objects, NEW b \in Objects, <<a, b>> \notin dirty, task[t].who \in {a, b}
  PROVE  \A x \in Threads \ {t} : Active(x) => task[x].who \notin {a, b}
<1> SUFFICES ASSUME NEW x \in Threads \ {t}, Active(x), task[x].who \in {a, b}
             PROVE  FALSE
  OBVIOUS
<1>1. CASE task[t].who = task[x].who
  <2>1. AllDirty(task[t].who)
    BY <1>1 DEF Apart
  <2>2. <<a, b>> \in Pairs(task[t].who)
    BY PairsIs
  <2> QED  BY <2>1, <2>2 DEF AllDirty
<1>2. CASE task[t].who # task[x].who
  <2>1. <<task[t].who, task[x].who>> \in dirty
    BY <1>2 DEF Apart
  <2> QED  BY <2>1, <1>2 DEF Symmetric
<1> QED  BY <1>1, <1>2

\* ... and when one begins, none was.
LEMMA AloneAtFirst ==
  ASSUME Types, NEW t \in Threads, NEW w \in Objects,
         NEW a \in Objects, NEW b \in Objects, <<a, b>> \notin Met(t, w), w \in {a, b},
         task[t] = Idle
  PROVE  \A x \in Threads : Active(x) => task[x].who \notin {a, b}
<1> SUFFICES ASSUME NEW x \in Threads, Active(x), task[x].who \in {a, b}
             PROVE  FALSE
  OBVIOUS
<1>1. x # t
  BY DEF Active, Idle, Task
<1>2. IF task[x].who = w THEN Pairs(w) \subseteq Met(t, w)
      ELSE <<w, task[x].who>> \in Met(t, w) /\ <<task[x].who, w>> \in Met(t, w)
  BY <1>1, MetIs DEF Active
<1>3. <<a, b>> \in Pairs(w)
  BY PairsIs
<1> QED  BY <1>2, <1>3

\* The marks when a handler begins.
LEMMA BeginMarks ==
  ASSUME Types, Apart, Symmetric, Raised, NEW t \in Threads, NEW k \in Tasks, TaskOK(k), Begin(t, k),
         k.pc # "idle", dirty \cup Met(t, k.who) \subseteq dirty',
         \A a, b \in Objects : <<a, b>> \in dirty' => <<b, a>> \in dirty',
         k.kind = "regen" /\ k.who \in Users => Pairs(k.who) \subseteq dirty'
  PROVE  Apart' /\ Symmetric' /\ Raised'
<1>1. /\ \A x \in Threads \ {t} : task'[x] = task[x]
      /\ task'[t] = k /\ task[t] = Idle
  BY BeginTypes
<1>2. k.who \in Objects
  BY DEF TaskOK, KindOK
<1>3. \A x \in Threads \ {t} : Active(x) =>
        IF task[x].who = k.who THEN Pairs(k.who) \subseteq dirty'
        ELSE <<k.who, task[x].who>> \in dirty' /\ <<task[x].who, k.who>> \in dirty'
  BY <1>2, MetIs DEF Active
<1>4. ASSUME NEW y \in Threads, NEW x \in Threads, y # x, Active(y)', Active(x)'
      PROVE  IF task'[y].who = task'[x].who THEN AllDirty(task[y].who)'
             ELSE <<task'[y].who, task'[x].who>> \in dirty'
  <2>1. CASE y # t /\ x # t
    BY <1>1, <1>4, <2>1 DEF Apart, Active, AllDirty
  <2>2. CASE y = t
    <3>1. x # t /\ task'[x] = task[x] /\ Active(x) /\ task'[y] = k
      BY <1>1, <1>4, <2>2 DEF Active
    <3> QED  BY <3>1, <1>3 DEF AllDirty
  <2>3. CASE x = t
    <3>1. y # t /\ task'[y] = task[y] /\ Active(y) /\ task'[x] = k
      BY <1>1, <1>4, <2>3 DEF Active
    <3> QED  BY <3>1, <1>3 DEF AllDirty
  <2> QED  BY <2>1, <2>2, <2>3
<1>5. ASSUME NEW x \in Threads, Active(x)', task'[x].kind = "regen", task'[x].who \in Users
      PROVE  AllDirty(task[x].who)'
  <2>1. CASE x # t
    BY <1>1, <1>5, <2>1 DEF Raised, Active, AllDirty
  <2>2. CASE x = t
    BY <1>1, <1>5, <2>2 DEF AllDirty
  <2> QED  BY <2>1, <2>2
<1> QED  BY <1>4, <1>5 DEF Apart, Symmetric, Raised

\* ... and when one goes on, or ends, maybe with a session.
LEMMA LeaveMarks ==
  ASSUME Types, Marks, NEW t \in Threads, NEW k \in Tasks, Set(t, k),
         Active(t), k.pc # "idle" => k.who = task[t].who /\ k.kind = task[t].kind,
         UNCHANGED <<invisible, graves, dirty, used>>,
         ingame' \subseteq ingame, ingame' \cup Npcs \subseteq registered'
  PROVE  Marks'
<1>1. (\A x \in Threads \ {t} : task'[x] = task[x]) /\ task'[t] = k
  BY DEF Set, Types
<1>2. \A x \in Threads : Active(x)' => Active(x) /\ task'[x].who = task[x].who /\ task'[x].kind = task[x].kind
  BY <1>1 DEF Active
<1>3. Apart'
  BY <1>2 DEF Marks, Apart, AllDirty
<1>4. Raised'
  BY <1>2 DEF Marks, Raised, AllDirty
<1>5. Symmetric' /\ Dead' /\ Present'
  BY DEF Marks, Symmetric, Dead, Present, AllDirty
<1> QED  BY <1>3, <1>4, <1>5 DEF Marks

LEMMA SetMarks ==
  ASSUME Types, Marks, NEW t \in Threads, NEW k \in Tasks, Set(t, k),
         Active(t), k.pc # "idle" => k.who = task[t].who /\ k.kind = task[t].kind,
         UNCHANGED <<registered, invisible, graves, dirty, used>>, ingame' \subseteq ingame
  PROVE  Marks'
<1>1. ingame' \cup Npcs \subseteq registered'
  BY DEF Marks, Present
<1> QED  BY <1>1, LeaveMarks


-----------------------------------------------------------------------------
(* A handler begins. *)

LEMMA NotDead ==
  ASSUME Types, Dead, NEW u \in Users, NEW a \in Objects, NEW b \in Objects,
         u \in {a, b}, <<a, b>> \notin dirty
  PROVE  u \notin invisible /\ graves[u] = 0
<1>1. <<a, b>> \in Pairs(u)
  BY PairsIs DEF Objects
<1>2. ~(u \in invisible \/ graves[u] > 0)
  BY <1>1 DEF Dead, AllDirty
<1>3. graves[u] \in Nat
  BY DEF Types, Objects
<1> QED  BY <1>2, <1>3

\* Two users a clean pair is made of list each other or neither.
LEMMA Mutual ==
  ASSUME Types, NEW u \in Users, NEW v \in Users, Sound(u, v), Sound(v, u),
         u \notin invisible, v \notin invisible
  PROVE  v \in view_list[u] <=> u \in view_list[v]
<1>1. can_see(u, v) <=> can_see(v, u)
  BY SeeSym DEF Objects
<1> QED  BY <1>1 DEF Sound

LEMMA BeginPair ==
  ASSUME Types, NEW t \in Threads, NEW k \in Tasks, TaskOK(k), k.pc # "idle", Begin(t, k),
         NEW u \in Users, NEW o \in Objects, k.who \in {u, o}, <<u, o>> \notin Met(t, k.who),
         k.kind \notin Farewell => Stage(u, o, task[t])'
  PROVE  PairOK(u, o)'
<1>1. /\ \A x \in Threads \ {t} : task'[x] = task[x]
      /\ task'[t] = k /\ task[t] = Idle
  BY BeginTypes
<1>2. k.who \in Objects /\ u \in Objects
  BY DEF TaskOK, KindOK, Objects
<1>3. \A x \in Threads : Active(x) => task[x].who \notin {u, o}
  BY <1>1, <1>2, AloneAtFirst
<1>4. Active(t)'
  BY <1>1 DEF Active
<1> QED  BY <1>1, <1>3, <1>4, PairOne

LEMMA BeginOther ==
  ASSUME Types, NEW t \in Threads, NEW k \in Tasks, TaskOK(k), Begin(t, k),
         NEW u \in Users, NEW o \in Objects, k.who \notin {u, o}, Same(u, o), PairOK(u, o)
  PROVE  PairOK(u, o)'
<1>1. /\ \A x \in Threads \ {t} : task'[x] = task[x]
      /\ task'[t] = k /\ task[t] = Idle
  BY BeginTypes
<1>2. ~Active(t)
  BY <1>1 DEF Active, Idle, Task
<1>3. \A x \in Threads : Active(x) => x # t
  BY <1>2
<1> QED  BY <1>1, <1>3, PairFrame

LEMMA BeginSound ==
  ASSUME Types, NEW t \in Threads, NEW k \in Tasks, TaskOK(k), k.pc # "idle", Begin(t, k),
         NEW u \in Users, NEW o \in Objects, k.who \in {u, o}, <<u, o>> \notin Met(t, k.who),
         PairOK(u, o)
  PROVE  Sound(u, o)
<1>1. k.who \in Objects /\ u \in Objects /\ task[t] = Idle
  BY DEF TaskOK, KindOK, Objects, Begin
<1>2. \A x \in Threads : Active(x) => task[x].who \notin {u, o}
  BY <1>1, AloneAtFirst
<1> QED  BY <1>2 DEF PairOK

LEMMA BeginOwn ==
  ASSUME Types, NEW t \in Threads, NEW k \in Tasks, TaskOK(k), k.pc # "idle", Begin(t, k),
         NEW u \in Users, k.who = u, <<u, u>> \notin Met(t, u)
  PROVE  /\ Avatar(u) => InPlace(u, u)
         /\ (k.kind \notin Farewell => OwnStage(u, task[t])') => Avatar(u)'
<1>1. /\ \A x \in Threads \ {t} : task'[x] = task[x]
      /\ task'[t] = k /\ task[t] = Idle
  BY BeginTypes
<1>2. u \in Objects
  BY DEF Objects
<1>3. \A x \in Threads : Active(x) => task[x].who # u
  BY <1>1, <1>2, AloneAtFirst
<1>4. Active(t)'
  BY <1>1 DEF Active
<1> QED  BY <1>1, <1>3, <1>4, OwnOne DEF Avatar

LEMMA BeginOwnOther ==
  ASSUME Types, NEW t \in Threads, NEW k \in Tasks, TaskOK(k), Begin(t, k),
         NEW u \in Users, k.who # u, pos'[u] = pos[u], screen'[u][u] = screen[u][u], Avatar(u)
  PROVE  Avatar(u)'
<1>1. /\ \A x \in Threads \ {t} : task'[x] = task[x]
      /\ task'[t] = k /\ task[t] = Idle
  BY BeginTypes
<1>2. ~Active(t)
  BY <1>1 DEF Active, Idle, Task
<1>3. \A x \in Threads : Active(x) => x # t
  BY <1>2
<1> QED  BY <1>1, <1>3, OwnFrame

LEMMA BeginUnknown ==
  ASSUME Types, NEW t \in Threads, NEW k \in Tasks, TaskOK(k), Begin(t, k),
         NEW v \in Users, Fresh(v), v \notin registered', view_list' = view_list, graves'[v] = 0,
         \A x \in Users : screen'[x][v] = Nothing,
         k.who # v, v \notin k.old, \A p \in Packets : Due(k, p) => p.to # v /\ p.of # v,
         k.out = {}
  PROVE  Fresh(v)'
<1>1. /\ \A x \in Threads \ {t} : task'[x] = task[x]
      /\ task'[t] = k
  BY BeginTypes
<1>2. \A p : ~Sent(k, p)
  BY DEF Sent
<1>3. ASSUME NEW x \in Threads  PROVE Absent(v, task[x])'
  <2>1. CASE x = t
    <3>1. Absent(v, k)
      BY <1>2 DEF Absent
    <3>2. task'[x] = k
      BY <1>1, <2>1
    <3> QED  BY <3>1, <3>2, Zenon DEF Absent, Packets, Due, Sent, Elements
  <2>2. CASE x # t
    <3>1. task'[x] = task[x] /\ Absent(v, task[x])
      BY <1>1, <2>2 DEF Fresh
    <3> QED  BY <3>1, Zenon DEF Absent, Packets, Due, Sent, Elements
  <2> QED  BY <2>1, <2>2
<1> QED  BY <1>3 DEF Fresh

LEMMA WalkKeeps ==
  ASSUME IInv, NEW u \in Users, u \in ingame, NEW t \in Threads, NEW c \in Cells,
         pos' = [pos EXCEPT ![u] = c],
         Begin(t, Task("copy", "move", u, {}, {}, <<>>)),
         dirty' = dirty \cup Met(t, u),
         UNCHANGED <<ingame, registered, life, view_list, screen, used>>
  PROVE  IInv'
<1>1. Types /\ Marks /\ Unknown /\ PairsOK /\ Avatars
  BY DEF IInv
<1>2. Types'
  BY <1>1, WalkTypes
<1>3. u \in Objects /\ invisible' = invisible /\ graves' = graves
  BY DEF Objects, life
<1>4. PICK k \in Tasks : /\ k = Task("copy", "move", u, {}, {}, <<>>)
                         /\ TaskOK(k) /\ \A p : ~Due(k, p) /\ ~Sent(k, p)
  BY <1>3, NewTask
<1>5. k.pc = "copy" /\ k.kind = "move" /\ k.who = u /\ k.old = {} /\ k.out = {}
  BY <1>4 DEF Task
<1>6. Begin(t, k)
  BY <1>4
<1>7. task'[t] = k
  BY <1>1, <1>4, <1>6, BeginTypes
<1>8. \A a, b \in Objects : <<a, b>> \in dirty' => <<b, a>> \in dirty'
  BY <1>1, <1>3, MetIs DEF Marks, Symmetric
<1>9. \A a \in Objects : a # u => pos'[a] = pos[a]
  BY <1>1 DEF Types
<1>10. Marks'
  <2>1. Apart' /\ Symmetric' /\ Raised'
    BY <1>1, <1>4, <1>5, <1>6, <1>8, BeginMarks DEF Marks
  <2>2. Dead' /\ Present'
    BY <1>1, <1>3 DEF Marks, Dead, Present, AllDirty
  <2> QED  BY <2>1, <2>2 DEF Marks
<1>11. Unknown'
  <2> SUFFICES ASSUME NEW v \in Users \ used PROVE Fresh(v)'
    BY DEF Unknown
  <2>1. Fresh(v)
    BY <1>1 DEF Unknown
  <2>2. u # v
    BY <1>1 DEF Marks, Present
  <2> QED  BY <1>1, <1>3, <1>4, <1>5, <1>6, <2>1, <2>2, BeginUnknown DEF Fresh
<1>12. PairsOK'
  <2> SUFFICES ASSUME NEW a \in ingame, NEW b \in Npcs \cup ingame, b # a, <<a, b>> \notin dirty'
               PROVE  PairOK(a, b)'
    BY DEF PairsOK
  <2>1. a \in Users /\ a \in Objects /\ b \in Objects /\ <<a, b>> \notin dirty /\ <<a, b>> \notin Met(t, u)
    BY <1>1 DEF Types, Objects
  <2>2. PairOK(a, b)
    BY <1>1, <2>1 DEF PairsOK
  <2>3. CASE u \notin {a, b}
    <3>1. Same(a, b)
      BY <1>3, <1>9, <2>1, <2>3 DEF Same
    <3> QED  BY <1>1, <1>4, <1>5, <1>6, <2>1, <2>2, <2>3, <3>1, BeginOther
  <2>4. CASE u \in {a, b}
    <3>1. Sound(a, b)
      BY <1>1, <1>4, <1>5, <1>6, <2>1, <2>2, <2>4, BeginSound
    <3>2. Tidy(a, b)'
      BY <3>1 DEF Sound, Tidy
    <3>3. u = a => InPlace(a, b)'
      BY <3>1, <1>9, <2>1 DEF Sound, InPlace
    <3>4. u = b => (b \in view_list[a] <=> a \in view_list[b])
      <4> SUFFICES ASSUME u = b PROVE b \in view_list[a] <=> a \in view_list[b]
        OBVIOUS
      <4>1. b \in ingame /\ b \in Users /\ <<b, a>> \notin dirty
        BY <1>1, <2>1 DEF Marks, Symmetric
      <4>2. <<b, a>> \notin Met(t, u)
        BY <1>1, <1>3, <2>1, MetIs
      <4>3. PairOK(b, a)
        BY <1>1, <2>1, <4>1 DEF PairsOK
      <4>4. Sound(b, a)
        BY <1>1, <1>4, <1>5, <1>6, <2>1, <2>4, <4>1, <4>2, <4>3, BeginSound
      <4>5. a \notin invisible /\ b \notin invisible
        BY <1>1, <2>1, <4>1, NotDead DEF Marks
      <4> QED  BY <1>1, <2>1, <3>1, <4>1, <4>4, <4>5, Mutual
    <3>5. Stage(a, b, task[t])'
      BY <1>5, <1>7, <2>4, <3>2, <3>3, <3>4 DEF Stage, Looking
    <3> QED  BY <1>1, <1>4, <1>5, <1>6, <2>1, <2>4, <3>5, BeginPair
  <2> QED  BY <2>3, <2>4
<1>13. Avatars'
  <2> SUFFICES ASSUME NEW a \in ingame, <<a, a>> \notin dirty' PROVE Avatar(a)'
    BY DEF Avatars
  <2>1. a \in Users /\ a \in Objects /\ Avatar(a) /\ <<a, a>> \notin Met(t, u)
    BY <1>1 DEF Types, Objects, Avatars
  <2>2. CASE a # u
    BY <1>1, <1>4, <1>5, <1>6, <1>9, <2>1, <2>2, BeginOwnOther
  <2>3. CASE a = u
    <3>1. OwnStage(a, task[t])'
      BY <1>5, <1>7 DEF OwnStage
    <3> QED  BY <1>1, <1>4, <1>5, <1>6, <2>1, <2>3, <3>1, BeginOwn
  <2> QED  BY <2>2, <2>3
<1> QED  BY <1>2, <1>10, <1>11, <1>12, <1>13 DEF IInv

LEMMA RoamKeeps ==
  ASSUME IInv, NEW n \in Npcs, n \notin invisible, NEW t \in Threads,
         Begin(t, Task("step", "npc", n, InSight(n), {}, <<>>)),
         dirty' = dirty \cup Met(t, n),
         UNCHANGED <<world, view_list, screen, used>>
  PROVE  IInv'
<1>1. Types /\ Marks /\ Unknown /\ PairsOK /\ Avatars
  BY DEF IInv
<1>2. Types'
  BY <1>1, RoamTypes
<1>3. n \in Objects /\ n \notin Users /\ n \notin invisible
      /\ UNCHANGED <<ingame, registered, pos, invisible, graves, view_list, screen, used>>
      /\ dirty' = dirty \cup Met(t, n)
  BY ObjectAssumption DEF Objects, world, life
<1>4. PICK k \in Tasks : /\ k = Task("step", "npc", n, InSight(n), {}, <<>>)
                         /\ TaskOK(k) /\ \A p : ~Due(k, p) /\ ~Sent(k, p)
  BY <1>1, <1>3, NewTask, LookTypes
<1>5. k.pc = "step" /\ k.kind = "npc" /\ k.who = n /\ k.old = InSight(n) /\ k.out = {}
  BY <1>4 DEF Task
<1>6. Begin(t, k)
  BY <1>4
<1>7. task'[t] = k
  BY <1>1, <1>3, <1>4, <1>6, BeginTypes
<1>8. \A a, b \in Objects : <<a, b>> \in dirty' => <<b, a>> \in dirty'
  BY <1>1, <1>3, MetIs DEF Marks, Symmetric
<1>10. Marks'
  <2>1. Apart' /\ Symmetric' /\ Raised'
    BY <1>1, <1>3, <1>4, <1>5, <1>6, <1>8, BeginMarks DEF Marks
  <2>2. Dead' /\ Present'
    BY <1>1, <1>3 DEF Marks, Dead, Present, AllDirty
  <2> QED  BY <2>1, <2>2 DEF Marks
<1>11. Unknown'
  <2> SUFFICES ASSUME NEW v \in Users \ used PROVE Fresh(v)'
    BY <1>3 DEF Unknown
  <2>1. Fresh(v)
    BY <1>1 DEF Unknown
  <2>2. n # v /\ v \notin InSight(n)
    BY <1>3, <2>1 DEF Fresh, InSight
  <2> QED  BY <1>1, <1>3, <1>4, <1>5, <1>6, <2>1, <2>2, BeginUnknown DEF Fresh
<1>12. PairsOK'
  <2> SUFFICES ASSUME NEW a \in ingame, NEW b \in Npcs \cup ingame, b # a, <<a, b>> \notin dirty'
               PROVE  PairOK(a, b)'
    BY <1>3 DEF PairsOK
  <2>1. a \in Users /\ a \in Objects /\ b \in Objects /\ <<a, b>> \notin dirty /\ <<a, b>> \notin Met(t, n)
        /\ a # n
    BY <1>1, <1>3 DEF Types, Objects
  <2>2. PairOK(a, b)
    BY <1>1, <2>1 DEF PairsOK
  <2>3. CASE n \notin {a, b}
    <3>1. Same(a, b)
      BY <1>3 DEF Same
    <3> QED  BY <1>1, <1>3, <1>4, <1>5, <1>6, <2>1, <2>2, <2>3, <3>1, BeginOther
  <2>4. CASE n \in {a, b}
    <3>1. Sound(a, b)
      BY <1>1, <1>3, <1>4, <1>5, <1>6, <2>1, <2>2, <2>4, BeginSound
    <3>2. Tidy(a, b)'
      BY <1>3, <3>1 DEF Sound, Tidy
    <3>3. can_see(b, a) <=> can_see(a, b)
      BY <1>1, <2>1, SeeSym
    <3>4. a \in registered
      BY <1>1 DEF Marks, Present
    <3>5. a \in InSight(n) <=> b \in view_list[a]
      BY <1>3, <2>1, <2>4, <3>1, <3>3, <3>4 DEF Sound, InSight
    <3>6. Stage(a, b, task[t])'
      BY <1>3, <1>5, <1>7, <2>1, <2>4, <3>2, <3>5 DEF Stage, Looking
    <3> QED  BY <1>1, <1>3, <1>4, <1>5, <1>6, <2>1, <2>4, <3>6, BeginPair
  <2> QED  BY <2>3, <2>4
<1>13. Avatars'
  <2> SUFFICES ASSUME NEW a \in ingame, <<a, a>> \notin dirty' PROVE Avatar(a)'
    BY <1>3 DEF Avatars
  <2>1. a \in Users /\ Avatar(a) /\ a # n
    BY <1>1, <1>3 DEF Types, Avatars
  <2> QED  BY <1>1, <1>3, <1>4, <1>5, <1>6, <2>1, BeginOwnOther
<1> QED  BY <1>2, <1>10, <1>11, <1>12, <1>13 DEF IInv

\* A session begins to end.
LEMMA FarewellKeeps ==
  ASSUME IInv, NEW u \in Users, u \in ingame, NEW t \in Threads, NEW k \in Tasks, TaskOK(k),
         k.pc = "build", k.kind \in Farewell, k.who = u, k.old = {}, k.out = {},
         \A v \in Users \ used : \A p \in Packets : Due(k, p) => p.to # v /\ p.of # v,
         Begin(t, k), dirty' = dirty \cup Met(t, u),
         UNCHANGED <<world, view_list, screen, used>>
  PROVE  IInv'
<1>1. Types /\ Marks /\ Unknown /\ PairsOK /\ Avatars
  BY DEF IInv
<1>2. u \in Objects
      /\ UNCHANGED <<ingame, registered, pos, invisible, graves, view_list, screen, used>>
  BY DEF Objects, world, life
<1>3. Types'
  BY <1>1, <1>2, StartTypes
<1>4. task'[t] = k
  BY <1>1, BeginTypes
<1>5. \A a, b \in Objects : <<a, b>> \in dirty' => <<b, a>> \in dirty'
  BY <1>1, <1>2, MetIs DEF Marks, Symmetric
<1>6. Marks'
  <2>1. Apart' /\ Symmetric' /\ Raised'
    BY <1>1, <1>5, BeginMarks DEF Marks, Farewell
  <2>2. Dead' /\ Present'
    BY <1>1, <1>2 DEF Marks, Dead, Present, AllDirty
  <2> QED  BY <2>1, <2>2 DEF Marks
<1>7. Unknown'
  <2> SUFFICES ASSUME NEW v \in Users \ used PROVE Fresh(v)'
    BY <1>2 DEF Unknown
  <2>1. Fresh(v)
    BY <1>1 DEF Unknown
  <2>2. u # v
    BY <1>1 DEF Marks, Present
  <2> QED  BY <1>1, <1>2, <2>1, <2>2, BeginUnknown DEF Fresh
<1>8. PairsOK'
  <2> SUFFICES ASSUME NEW a \in ingame, NEW b \in Npcs \cup ingame, b # a, <<a, b>> \notin dirty'
               PROVE  PairOK(a, b)'
    BY <1>2 DEF PairsOK
  <2>1. a \in Users /\ b \in Objects /\ <<a, b>> \notin dirty /\ <<a, b>> \notin Met(t, u)
    BY <1>1 DEF Types, Objects
  <2>2. PairOK(a, b)
    BY <1>1, <2>1 DEF PairsOK
  <2>3. CASE u \notin {a, b}
    <3>1. Same(a, b)
      BY <1>2 DEF Same
    <3> QED  BY <1>1, <2>1, <2>2, <2>3, <3>1, BeginOther
  <2>4. CASE u \in {a, b}
    BY <1>1, <2>1, <2>4, BeginPair
  <2> QED  BY <2>3, <2>4
<1>9. Avatars'
  <2> SUFFICES ASSUME NEW a \in ingame, <<a, a>> \notin dirty' PROVE Avatar(a)'
    BY <1>2 DEF Avatars
  <2>1. a \in Users /\ Avatar(a) /\ <<a, a>> \notin Met(t, u)
    BY <1>1 DEF Types, Avatars
  <2>2. CASE a # u
    BY <1>1, <1>2, <2>1, <2>2, BeginOwnOther
  <2>3. CASE a = u
    BY <1>1, <2>1, <2>3, BeginOwn
  <2> QED  BY <2>2, <2>3
<1> QED  BY <1>3, <1>6, <1>7, <1>8, <1>9 DEF IInv

LEMMA DisconnectKeeps ==
  ASSUME IInv, NEW u \in Users, Disconnect(u)
  PROVE  IInv'
<1>1. Types /\ Present
  BY DEF IInv, Marks
<1>2. Other \in Threads /\ u \in ingame
  BY DEF Threads, Disconnect
<1>3. PICK near \in SUBSET Users :
        near \subseteq ingame /\
        Begin(Other, Leaving(u, near))
  <2> DEFINE near == {v \in ingame \ {u} : can_see(u, v)}
  <2>1. Begin(Other, Leaving(u, near))
    BY DEF Disconnect, Leaving
  <2>2. near \subseteq ingame /\ near \in SUBSET Users
    BY <1>1 DEF Types
  <2> HIDE DEF near
  <2> QED  BY <2>1, <2>2
<1>4. PICK k \in Tasks :
        /\ k = Leaving(u, near)
        /\ TaskOK(k) /\ k.pc = "build" /\ k.kind = "leave" /\ k.who = u /\ k.old = {} /\ k.out = {}
        /\ \A p : Due(k, p) => \E v \in near : p = Packet("remove", v, u)
  BY <1>1, LeaveTask
<1>5. Begin(Other, k)
  BY <1>3, <1>4
<1>6. ASSUME NEW v \in Users \ used, NEW p \in Packets, Due(k, p)
      PROVE  p.to # v /\ p.of # v
  <2>1. v # u /\ v \notin near
    BY <1>1, <1>2, <1>3 DEF Present
  <2> QED  BY <1>4, <1>6, <2>1 DEF Packet
<1> QED  BY <1>2, <1>4, <1>5, <1>6, FarewellKeeps DEF Disconnect, Farewell

LEMMA LoginKeeps ==
  ASSUME IInv, NEW u \in Users, Login(u)
  PROVE  IInv'
<1>1. Types /\ Marks /\ Unknown /\ PairsOK /\ Avatars
  BY DEF IInv
<1>2. Types'
  BY <1>1, LoginTypes
<1>3. u \in Objects /\ u \in Threads /\ u \notin ingame
      /\ UNCHANGED <<graves, view_list>> /\ registered' = registered \cup {u}
      /\ ingame' = ingame \cup {u} /\ used' = used \cup {u} /\ invisible' = invisible \ {u}
      /\ dirty' = dirty \cup Met(u, u) \cup (IF u \in used THEN Pairs(u) ELSE {})
  BY DEF Objects, Threads, Login
<1> PICK c \in Cells :
        /\ pos' = [pos EXCEPT ![u] = c]
        /\ screen' = [screen EXCEPT ![u] = [o \in Objects |-> IF o = u THEN Entry("shown", c) ELSE Nothing]]
  BY DEF Login
<1>4. /\ pos'[u] = c /\ \A a \in Objects : a # u => pos'[a] = pos[a]
      /\ \A a \in Users : a # u => screen'[a] = screen[a]
      /\ \A o \in Objects : screen'[u][o] = IF o = u THEN Entry("shown", c) ELSE Nothing
  <2>1. pos \in [Objects -> Cells] /\ screen \in [Users -> [Objects -> Screens]]
    BY <1>1 DEF Types
  <2> QED  BY <1>3, <2>1
<1>5. PICK k \in Tasks : /\ k = Task("scan", "login", u, {}, {}, <<>>)
                         /\ TaskOK(k) /\ \A p : ~Due(k, p) /\ ~Sent(k, p)
  BY <1>3, NewTask
<1>6. k.pc = "scan" /\ k.kind = "login" /\ k.who = u /\ k.old = {} /\ k.out = {}
  BY <1>5 DEF Task
<1>7. Begin(u, k)
  BY <1>5 DEF Login
<1>8. task'[u] = k
  BY <1>1, <1>3, <1>5, <1>7, BeginTypes
<1>9. \A a, b \in Objects : <<a, b>> \in dirty' => <<b, a>> \in dirty'
  <2>1. \A a, b \in Objects : <<a, b>> \in Pairs(u) => <<b, a>> \in Pairs(u)
    BY DEF Pairs
  <2> QED  BY <1>1, <1>3, <2>1, MetIs DEF Marks, Symmetric
<1>10. Marks'
  <2>1. dirty \cup Met(u, k.who) \subseteq dirty'
    BY <1>3, <1>6
  <2>2. Apart' /\ Symmetric' /\ Raised'
    BY <1>1, <1>3, <1>5, <1>6, <1>7, <1>9, <2>1, BeginMarks DEF Marks
  <2>3. Dead'
    BY <1>1, <1>3 DEF Marks, Dead, AllDirty
  <2>4. Present'
    BY <1>1, <1>3 DEF Marks, Present
  <2> QED  BY <2>2, <2>3, <2>4 DEF Marks
<1>11. Unknown'
  <2> SUFFICES ASSUME NEW v \in Users \ used' PROVE Fresh(v)'
    BY DEF Unknown
  <2>1. Fresh(v) /\ u # v /\ v \in Objects
    BY <1>1, <1>3 DEF Unknown, Objects
  <2>2. \A x \in Users : screen'[x][v] = Nothing
    BY <1>4, <2>1 DEF Fresh
  <2>3. v \notin registered' /\ graves'[v] = 0 /\ view_list' = view_list
    BY <1>3, <2>1 DEF Fresh
  <2> QED  BY <1>1, <1>3, <1>5, <1>6, <1>7, <2>1, <2>2, <2>3, BeginUnknown
<1>12. PairsOK'
  <2> SUFFICES ASSUME NEW a \in ingame', NEW b \in Npcs \cup ingame', b # a, <<a, b>> \notin dirty'
               PROVE  PairOK(a, b)'
    BY DEF PairsOK
  <2>1. a \in Users /\ a \in Objects /\ b \in Objects /\ <<a, b>> \notin dirty /\ <<a, b>> \notin Met(u, u)
    BY <1>1, <1>3 DEF Types, Objects
  <2>3. CASE u \notin {a, b}
    <3>1. PairOK(a, b)
      BY <1>1, <1>3, <2>1, <2>3 DEF PairsOK
    <3>2. Same(a, b)
      BY <1>3, <1>4, <2>1, <2>3 DEF Same
    <3> QED  BY <1>1, <1>3, <1>5, <1>6, <1>7, <2>1, <2>3, <3>1, <3>2, BeginOther
  <2>4. CASE u \in {a, b}
    <3>1. u \notin used
      BY <1>3, <2>1, <2>4, PairsIs
    <3>2. Fresh(u)
      BY <1>1, <3>1 DEF Unknown
    <3>3. b \notin view_list'[a]
      BY <1>3, <2>1, <2>4, <3>2 DEF Fresh
    <3>4. screen'[a][b] = Nothing
      BY <1>4, <2>1, <2>4, <3>2 DEF Fresh
    <3>5. Tidy(a, b)'
      BY <3>3, <3>4 DEF Tidy, Nothing, Entry
    <3>6. Stage(a, b, task[u])'
      BY <1>6, <1>8, <3>3, <3>5 DEF Stage, Looking
    <3> QED  BY <1>1, <1>3, <1>5, <1>6, <1>7, <2>1, <2>4, <3>6, BeginPair
  <2> QED  BY <2>3, <2>4
<1>13. Avatars'
  <2> SUFFICES ASSUME NEW a \in ingame', <<a, a>> \notin dirty' PROVE Avatar(a)'
    BY DEF Avatars
  <2>1. a \in Users /\ a \in Objects /\ <<a, a>> \notin dirty /\ <<a, a>> \notin Met(u, u)
    BY <1>1, <1>3 DEF Types, Objects
  <2>2. CASE a # u
    <3>1. Avatar(a)
      BY <1>1, <1>3, <2>1, <2>2 DEF Avatars
    <3> QED  BY <1>1, <1>3, <1>4, <1>5, <1>6, <1>7, <2>1, <2>2, <3>1, BeginOwnOther
  <2>3. CASE a = u
    <3>1. InPlace(u, u)'
      BY <1>3, <1>4 DEF InPlace, Entry
    <3>2. OwnStage(a, task[u])'
      BY <1>6, <1>8, <2>3, <3>1 DEF OwnStage
    <3> QED  BY <1>1, <1>3, <1>5, <1>6, <1>7, <2>1, <2>3, <3>2, BeginOwn
  <2> QED  BY <2>2, <2>3
<1> QED  BY <1>2, <1>10, <1>11, <1>12, <1>13 DEF IInv

LEMMA SoundKept ==
  ASSUME NEW a, NEW b, Sound(a, b), UNCHANGED <<pos, view_list, screen>>,
         b \in invisible => b \in invisible'
  PROVE  Sound(a, b)'
BY DEF Sound, Tidy, InPlace, can_see

LEMMA KillKeeps ==
  ASSUME IInv, NEW u \in Users, Kill(u)
  PROVE  IInv'
<1>1. Types /\ Marks /\ Unknown /\ PairsOK /\ Avatars
  BY DEF IInv
<1>2. Types'
  BY <1>1, KillTypes
<1>3. u \in Objects /\ u \in Threads /\ u \in ingame
      /\ UNCHANGED <<ingame, registered, pos, view_list, screen, used>>
  BY DEF Objects, Threads, Kill
<1>4. PICK K \in SUBSET Objects :
       /\ K # {} /\ K \subseteq view_list[u]
       /\ invisible' = invisible \cup K
       /\ graves' = [o \in Objects |-> graves[o] + IF o \in K THEN 1 ELSE 0]
       /\ Begin(u, Killing(u, K))
       /\ dirty' = dirty \cup Met(u, u) \cup (UNION {Met(u, o) : o \in K})
                         \cup (UNION {Pairs(o) : o \in K \cap Users})
  <2>1. PICK K \in SUBSET {o \in view_list[u] : Dist(pos[u], pos[o]) = 1} :
       /\ K # {}
       /\ invisible' = invisible \cup K
       /\ graves' = [o \in Objects |-> graves[o] + IF o \in K THEN 1 ELSE 0]
       /\ Begin(u, Killing(u, K))
       /\ dirty' = dirty \cup Met(u, u) \cup (UNION {Met(u, o) : o \in K})
                         \cup (UNION {Pairs(o) : o \in K \cap Users})
    BY DEF Kill, Killing
  <2>2. K \in SUBSET Objects /\ K \subseteq view_list[u]
    BY <1>1 DEF Types
  <2> QED  BY <2>1, <2>2, Zenon
<1>5. PICK k \in Tasks :
        /\ k = Killing(u, K)
        /\ TaskOK(k) /\ k.pc = "build" /\ k.kind = "kill" /\ k.who = u /\ k.old = {} /\ k.out = {}
        /\ \A p : Due(k, p) <=> \E o \in K : p = Packet("remove", u, o)
  BY <1>1, <1>4, KillTask
<1>6. Begin(u, k)
  BY <1>4, <1>5
<1>7. task'[u] = k
  BY <1>1, <1>3, <1>5, <1>6, BeginTypes
<1>8. \A p : p \in dirty' <=> \/ p \in dirty \/ p \in Met(u, u) \/ \E o \in K : p \in Met(u, o)
                            \/ \E o \in K \cap Users : p \in Pairs(o)
  <2> DEFINE A == UNION {Met(u, o) : o \in K}
             B == UNION {Pairs(o) : o \in K \cap Users}
  <2>1. \A p : p \in A <=> \E o \in K : p \in Met(u, o)
    BY Zenon
  <2>2. \A p : p \in B <=> \E o \in K \cap Users : p \in Pairs(o)
    BY Zenon
  <2>3. dirty' = dirty \cup Met(u, u) \cup A \cup B
    BY <1>4
  <2> HIDE DEF A, B
  <2> QED  BY <2>1, <2>2, <2>3
<1>9. \A a, b \in Objects : <<a, b>> \in dirty' => <<b, a>> \in dirty'
  <2> SUFFICES ASSUME NEW a \in Objects, NEW b \in Objects, <<a, b>> \in dirty'
               PROVE  <<b, a>> \in dirty'
    OBVIOUS
  <2>1. \A o \in Objects : <<a, b>> \in Pairs(o) => <<b, a>> \in Pairs(o)
    BY DEF Pairs
  <2>2. \A o \in Objects : <<a, b>> \in Met(u, o) => <<b, a>> \in Met(u, o)
    BY <1>1, <1>3, MetIs
  <2>3. <<a, b>> \in dirty => <<b, a>> \in dirty
    BY <1>1 DEF Marks, Symmetric
  <2> QED  BY <1>3, <1>4, <1>8, <2>1, <2>2, <2>3
<1>10. Marks'
  <2>1. dirty \cup Met(u, k.who) \subseteq dirty'
    BY <1>5, <1>8
  <2>2. Apart' /\ Symmetric' /\ Raised'
    BY <1>1, <1>3, <1>5, <1>6, <1>9, <2>1, BeginMarks DEF Marks
  <2>3. ASSUME NEW v \in Users, v \in invisible' \/ graves'[v] > 0  PROVE AllDirty(v)'
    <3>1. CASE v \in K
      BY <1>8, <3>1 DEF AllDirty
    <3>2. CASE v \notin K
      <4>1. v \in Objects /\ graves[v] \in Nat
        BY <1>1 DEF Types, Objects
      <4>2. v \in invisible \/ graves[v] > 0
        BY <1>4, <2>3, <3>2, <4>1
      <4> QED  BY <1>1, <1>8, <4>2 DEF Marks, Dead, AllDirty
    <3> QED  BY <3>1, <3>2
  <2>4. Present'
    BY <1>1, <1>3 DEF Marks, Present
  <2> QED  BY <2>2, <2>3, <2>4 DEF Marks, Dead
<1>11. Unknown'
  <2> SUFFICES ASSUME NEW v \in Users \ used PROVE Fresh(v)'
    BY <1>3 DEF Unknown
  <2>1. Fresh(v) /\ v \in Objects
    BY <1>1 DEF Unknown, Objects
  <2>2. u # v
    BY <1>1, <1>3 DEF Marks, Present
  <2>3. v \notin K
    BY <1>4, <2>1 DEF Fresh
  <2>4. \A p \in Packets : Due(k, p) => p.to # v /\ p.of # v
    BY <1>5, <2>2, <2>3 DEF Packet
  <2>5. graves'[v] = 0
    BY <1>4, <2>1, <2>3 DEF Fresh
  <2> QED  BY <1>1, <1>3, <1>5, <1>6, <2>1, <2>2, <2>4, <2>5, BeginUnknown DEF Fresh
<1>12. PairsOK'
  <2> SUFFICES ASSUME NEW a \in ingame, NEW b \in Npcs \cup ingame, b # a, <<a, b>> \notin dirty'
               PROVE  PairOK(a, b)'
    BY <1>3 DEF PairsOK
  <2>1. a \in Users /\ a \in Objects /\ b \in Objects /\ <<a, b>> \notin dirty /\ <<a, b>> \notin Met(u, u)
    BY <1>1, <1>8 DEF Types, Objects
  <2>2. PairOK(a, b)
    BY <1>1, <2>1 DEF PairsOK
  <2>3. Sound(a, b) => Sound(a, b)'
    BY <1>3, <1>4, SoundKept
  <2>4. CASE u \notin {a, b} /\ b \notin K
    <3>1. Same(a, b)
      BY <1>3, <1>4, <2>4 DEF Same
    <3> QED  BY <1>1, <1>3, <1>5, <1>6, <2>1, <2>2, <2>4, <3>1, BeginOther
  <2>5. CASE u \notin {a, b} /\ b \in K
    <3>1. <<a, b>> \notin Met(u, b)
      BY <1>8, <2>5
    <3>2. \A x \in Threads : Active(x) => task[x].who \notin {a, b}
      BY <1>1, <1>3, <1>6, <2>1, <3>1, AloneAtFirst DEF Begin
    <3>3. Sound(a, b)'
      BY <2>2, <2>3, <3>2 DEF PairOK
    <3>4. \A x \in Threads \ {u} : task'[x] = task[x]
      BY <1>1, <1>3, <1>5, <1>6, BeginTypes
    <3>5. \A x \in Threads : Active(x)' => task'[x].who \notin {a, b}
      BY <1>5, <1>7, <2>5, <3>2, <3>4 DEF Active
    <3> QED  BY <3>3, <3>5 DEF PairOK
  <2>6. CASE u \in {a, b}
    <3>1. Sound(a, b)'
      BY <1>1, <1>3, <1>5, <1>6, <2>1, <2>2, <2>3, <2>6, BeginSound
    <3>2. \A p : Due(k, p) /\ p.to = a /\ p.of = b => p.op = "remove" /\ b \in invisible'
      BY <1>4, <1>5 DEF Packet
    <3>3. \A p \in Packets : p.to = a /\ p.of = b /\ Due(task'[u], p) => Right(p.op, a, b)'
      BY <1>7, <3>2 DEF Right
    <3>4. Telling(a, b, task[u])'
      BY <1>5, <1>7, <3>1, <3>3 DEF Telling, Packets, Due, Elements
    <3>5. Stage(a, b, task[u])'
      BY <1>5, <1>7, <3>4 DEF Stage
    <3> QED  BY <1>1, <1>3, <1>5, <1>6, <2>1, <2>6, <3>5, BeginPair
  <2> QED  BY <2>4, <2>5, <2>6
<1>13. Avatars'
  <2> SUFFICES ASSUME NEW a \in ingame, <<a, a>> \notin dirty' PROVE Avatar(a)'
    BY <1>3 DEF Avatars
  <2>1. a \in Users /\ <<a, a>> \notin dirty /\ <<a, a>> \notin Met(u, u)
    BY <1>1, <1>8 DEF Types
  <2>2. Avatar(a)
    BY <1>1, <2>1 DEF Avatars
  <2>3. CASE a # u
    BY <1>1, <1>3, <1>5, <1>6, <2>1, <2>2, <2>3, BeginOwnOther
  <2>4. CASE a = u
    <3>1. InPlace(a, a)
      BY <1>1, <1>3, <1>5, <1>6, <2>1, <2>2, <2>4, BeginOwn
    <3>2. InPlace(a, a)'
      BY <1>3, <3>1 DEF InPlace
    <3>3. OwnStage(a, task[u])'
      BY <1>5, <1>7, <3>2 DEF OwnStage
    <3> QED  BY <1>1, <1>3, <1>5, <1>6, <2>1, <2>4, <3>3, BeginOwn
  <2> QED  BY <2>3, <2>4
<1> QED  BY <1>2, <1>10, <1>11, <1>12, <1>13 DEF IInv

LEMMA RegenKeeps ==
  ASSUME IInv, NEW o \in Objects, Regen(o)
  PROVE  IInv'
<1>1. Types /\ Marks /\ Unknown /\ PairsOK /\ Avatars
  BY DEF IInv
<1>2. Types'
  BY <1>1, RegenTypes
<1>3. /\ graves[o] > 0 /\ invisible' = invisible \ {o}
      /\ UNCHANGED <<ingame, registered, pos, view_list, screen, used>>
      /\ Other \in Threads
  BY DEF Regen, Threads
<1>4. graves'[o] = graves[o] - 1 /\ \A a \in Objects : a # o => graves'[a] = graves[a]
  BY <1>1 DEF Regen, Types
<1>5. o \in Users => Pairs(o) \subseteq dirty
  BY <1>1, <1>3 DEF Marks, Dead, AllDirty
<1>6. ASSUME NEW a \in ingame, NEW b \in Npcs \cup ingame, b # a, <<a, b>> \notin dirty
      PROVE  a \in Users /\ a \in Objects /\ b \in Objects /\ a # o /\ (b = o => o \notin Users)
  <2>1. a \in Users /\ a \in Objects /\ b \in Objects
    BY <1>1 DEF Types, Objects
  <2> QED  BY <1>5, <1>6, <2>1, PairsIs
<1>7. \A v \in Users \ used : Fresh(v) /\ v # o /\ v \in Objects /\ graves'[v] = 0
  BY <1>1, <1>3, <1>4 DEF Unknown, Fresh, Objects
<1>8. CASE \E u \in ingame : can_see(o, u)
  <2>1. PICK k \in Tasks : /\ k = Task("scan", "regen", o, {}, {}, <<>>)
                           /\ TaskOK(k) /\ \A p : ~Due(k, p) /\ ~Sent(k, p)
    BY NewTask
  <2>2. k.pc = "scan" /\ k.kind = "regen" /\ k.who = o /\ k.old = {} /\ k.out = {}
    BY <2>1 DEF Task
  <2>3. Begin(Other, k) /\ dirty' = dirty \cup Met(Other, o)
    BY <1>8, <2>1 DEF Regen
  <2>4. task'[Other] = k
    BY <1>1, <1>3, <2>1, <2>3, BeginTypes
  <2>5. \A a, b \in Objects : <<a, b>> \in dirty' => <<b, a>> \in dirty'
    BY <1>1, <1>3, <2>3, MetIs DEF Marks, Symmetric
  <2>6. Marks'
    <3>1. Apart' /\ Symmetric' /\ Raised'
      BY <1>1, <1>3, <1>5, <2>1, <2>2, <2>3, <2>5, BeginMarks DEF Marks
    <3>2. Dead'
      <4>1. ASSUME NEW v \in Users, v \in invisible' \/ graves'[v] > 0
            PROVE  v \in invisible \/ graves[v] > 0
        BY <1>3, <1>4, <4>1 DEF Objects
      <4> QED  BY <1>1, <2>3, <4>1 DEF Marks, Dead, AllDirty
    <3>3. Present'
      BY <1>1, <1>3 DEF Marks, Present
    <3> QED  BY <3>1, <3>2, <3>3 DEF Marks
  <2>7. Unknown'
    <3> SUFFICES ASSUME NEW v \in Users \ used PROVE Fresh(v)'
      BY <1>3 DEF Unknown
    <3> QED  BY <1>1, <1>3, <1>7, <2>1, <2>2, <2>3, BeginUnknown DEF Fresh
  <2>8. PairsOK'
    <3> SUFFICES ASSUME NEW a \in ingame, NEW b \in Npcs \cup ingame, b # a, <<a, b>> \notin dirty'
                 PROVE  PairOK(a, b)'
      BY <1>3 DEF PairsOK
    <3>1. /\ a \in Users /\ a \in Objects /\ b \in Objects /\ a # o /\ (b = o => o \notin Users)
          /\ <<a, b>> \notin dirty /\ <<a, b>> \notin Met(Other, o)
      BY <1>6, <2>3
    <3>2. PairOK(a, b)
      BY <1>1, <3>1 DEF PairsOK
    <3>3. CASE b # o
      <4>1. Same(a, b)
        BY <1>3, <3>3 DEF Same
      <4> QED  BY <1>1, <1>3, <2>1, <2>2, <2>3, <3>1, <3>2, <3>3, <4>1, BeginOther
    <3>4. CASE b = o
      <4>1. Sound(a, b)
        BY <1>1, <1>3, <2>1, <2>2, <2>3, <3>1, <3>2, <3>4, BeginSound
      <4>2. Stage(a, b, task[Other])'
        <5>1. b \notin invisible'
          BY <1>3, <3>4
        <5>2. Tidy(a, b)' /\ InPlace(a, b)' /\ (b \in view_list'[a] => can_see(a, b)')
          BY <1>3, <4>1 DEF Sound, Tidy, InPlace, can_see
        <5> QED  BY <2>2, <2>4, <5>1, <5>2 DEF Stage, Looking
      <4> QED  BY <1>1, <1>3, <2>1, <2>2, <2>3, <3>1, <3>4, <4>2, BeginPair
    <3> QED  BY <3>3, <3>4
  <2>9. Avatars'
    <3> SUFFICES ASSUME NEW a \in ingame, <<a, a>> \notin dirty' PROVE Avatar(a)'
      BY <1>3 DEF Avatars
    <3>1. a \in Users /\ a \in Objects /\ <<a, a>> \notin dirty /\ Avatar(a)
      BY <1>1, <2>3 DEF Types, Objects, Avatars
    <3>2. a # o
      BY <1>5, <3>1, PairsIs
    <3> QED  BY <1>1, <1>3, <2>1, <2>2, <2>3, <3>1, <3>2, BeginOwnOther
  <2> QED  BY <1>2, <2>6, <2>7, <2>8, <2>9 DEF IInv
<1>9. CASE ~\E u \in ingame : can_see(o, u)
  <2>1. UNCHANGED <<task, alone, dirty>>
    BY <1>9 DEF Regen
  <2>2. Marks'
    <3>1. Dead'
      <4>1. ASSUME NEW v \in Users, v \in invisible' \/ graves'[v] > 0
            PROVE  v \in invisible \/ graves[v] > 0
        BY <1>3, <1>4, <4>1 DEF Objects
      <4> QED  BY <1>1, <2>1, <4>1 DEF Marks, Dead, AllDirty
    <3> QED  BY <1>1, <1>3, <2>1, <3>1 DEF Marks, Apart, Symmetric, Raised, Present, AllDirty, Active
  <2>3. Unknown'
    <3> SUFFICES ASSUME NEW v \in Users \ used PROVE Fresh(v)'
      BY <1>3 DEF Unknown
    <3>1. \A t \in Threads : Absent(v, task[t])'
      BY <1>7, <2>1 DEF Fresh, Absent, Packets, Due, Sent, Elements
    <3> QED  BY <1>3, <1>7, <3>1 DEF Fresh, Nothing, Entry
  <2>4. PairsOK'
    <3> SUFFICES ASSUME NEW a \in ingame, NEW b \in Npcs \cup ingame, b # a, <<a, b>> \notin dirty
                 PROVE  PairOK(a, b)'
      BY <1>3, <2>1 DEF PairsOK
    <3>1. a \in Users /\ a \in Objects /\ b \in Objects /\ a # o /\ (b = o => o \notin Users)
      BY <1>6
    <3>2. PairOK(a, b)
      BY <1>1, <3>1 DEF PairsOK
    <3>3. CASE b # o
      <4>1. Same(a, b)
        BY <1>3, <3>3 DEF Same
      <4> QED  BY <1>1, <2>1, <3>1, <3>2, <4>1, PairFrame
    <3>4. CASE b = o
      <4>1. ~can_see(a, b)
        BY <1>1, <1>9, <3>1, <3>4, SeeSym
      <4>2. /\ Tidy(a, b)' <=> Tidy(a, b)
            /\ InPlace(a, b)' <=> InPlace(a, b)
            /\ can_see(a, b)' <=> can_see(a, b)
        BY <1>3 DEF Tidy, InPlace, can_see
      <4>3. Sound(a, b) => Sound(a, b)'
        BY <1>3, <4>1, <4>2 DEF Sound
      <4>4. \A op \in Ops : Right(op, a, b) => Right(op, a, b)'
        BY <1>3, <4>1, <4>2 DEF Right, Ops
      <4>5. ASSUME NEW x \in Threads, Stage(a, b, task[x])
            PROVE  Stage(a, b, task[x])'
        <5>1. Looking(a, b, task[x]) => Looking(a, b, task[x])'
          BY <1>3, <2>1, <3>4, <4>2 DEF Looking
        <5>2. (\A p \in Packets : p.op \in Ops) /\ \A m \in task[x].out : m.p \in Packets
          BY <1>1 DEF Packets, Tasks, Ops, Types
        <5>3. \A p : (Due(task[x], p)' <=> Due(task[x], p)) /\ (Sent(task[x], p)' <=> Sent(task[x], p))
          BY <2>1 DEF Due, Sent, Elements
        <5>4. ASSUME Telling(a, b, task[x])  PROVE Telling(a, b, task[x])'
          <6>1. Quiet(a, b, task[x])' => Quiet(a, b, task[x])
            BY <5>3 DEF Quiet, Packets
          <6>2. \A p \in Packets : p.to = a /\ p.of = b /\ Due(task[x], p)' => Right(p.op, a, b)'
            BY <4>4, <5>2, <5>3, <5>4 DEF Telling
          <6>3. \A m \in task'[x].out : m.p.to = a /\ m.p.of = b =>
                  /\ m.x = pos'[b] /\ Right(m.p.op, a, b)'
                  /\ m.p.op = "add" => b \in view_list'[a]
                  /\ m.p.op = "remove" => b \notin view_list'[a]
            BY <1>3, <2>1, <4>4, <5>2, <5>4 DEF Telling
          <6> QED  BY <6>1, <6>2, <6>3, <4>3, <5>4 DEF Telling, Packets
        <5> QED  BY <2>1, <4>3, <4>5, <5>1, <5>4 DEF Stage
      <4> QED  BY <2>1, <3>2, <4>3, <4>5 DEF PairOK, Active
    <3> QED  BY <3>3, <3>4
  <2>5. Avatars'
    <3> SUFFICES ASSUME NEW a \in ingame, <<a, a>> \notin dirty PROVE Avatar(a)'
      BY <1>3, <2>1 DEF Avatars
    <3>1. a \in Users /\ Avatar(a)
      BY <1>1 DEF Types, Avatars
    <3> QED  BY <1>1, <1>3, <2>1, <3>1, OwnFrame
  <2> QED  BY <1>2, <2>2, <2>3, <2>4, <2>5 DEF IInv
<1> QED  BY <1>8, <1>9

-----------------------------------------------------------------------------
(* A handler goes on. *)

LEMMA SetPair ==
  ASSUME Types, Apart, Symmetric, NEW t \in Threads, Active(t), NEW j \in Tasks, Set(t, j),
         j.pc # "idle" => j.who = task[t].who,
         NEW u \in Users, NEW o \in Objects, <<u, o>> \notin dirty, task[t].who \in {u, o},
         j.pc = "idle" => Sound(u, o)',
         j.pc # "idle" /\ j.kind \notin Farewell => Stage(u, o, task[t])'
  PROVE  PairOK(u, o)'
<1>1. task'[t] = j /\ \A x \in Threads \ {t} : task'[x] = task[x]
  BY DEF Set, Types
<1>2. u \in Objects
  BY DEF Objects
<1>3. \A x \in Threads \ {t} : Active(x) => task[x].who \notin {u, o}
  BY <1>2, AloneOn
<1>4. Active(t)' <=> j.pc # "idle"
  BY <1>1 DEF Active
<1> QED  BY <1>1, <1>3, <1>4, PairOne

LEMMA SetOther ==
  ASSUME Types, NEW t \in Threads, Active(t), NEW j \in Tasks, Set(t, j),
         j.pc # "idle" => j.who = task[t].who,
         NEW u \in Users, NEW o \in Objects, task[t].who \notin {u, o}, Same(u, o), PairOK(u, o)
  PROVE  PairOK(u, o)'
<1>1. task'[t] = j /\ \A x \in Threads \ {t} : task'[x] = task[x]
  BY DEF Set, Types
<1>2. \A x \in Threads : Active(x) /\ task[x].who \in {u, o} => task'[x] = task[x]
  BY <1>1
<1>3. \A x \in Threads : Active(x)' /\ task'[x].who \in {u, o} => task'[x] = task[x]
  BY <1>1 DEF Active
<1> QED  BY <1>2, <1>3, PairFrame

LEMMA SetOwn ==
  ASSUME Types, Apart, Symmetric, NEW t \in Threads, Active(t), NEW j \in Tasks, Set(t, j),
         j.pc # "idle" => j.who = task[t].who,
         NEW u \in Users, <<u, u>> \notin dirty, task[t].who = u,
         j.pc = "idle" => InPlace(u, u)',
         j.pc # "idle" /\ j.kind \notin Farewell => OwnStage(u, task[t])'
  PROVE  Avatar(u)'
<1>1. task'[t] = j /\ \A x \in Threads \ {t} : task'[x] = task[x]
  BY DEF Set, Types
<1>2. u \in Objects
  BY DEF Objects
<1>3. \A x \in Threads \ {t} : Active(x) => task[x].who \notin {u, u}
  BY <1>2, AloneOn
<1>4. Active(t)' <=> j.pc # "idle"
  BY <1>1 DEF Active
<1> QED  BY <1>1, <1>3, <1>4, OwnOne

LEMMA SetOwnOther ==
  ASSUME Types, NEW t \in Threads, Active(t), NEW j \in Tasks, Set(t, j),
         j.pc # "idle" => j.who = task[t].who,
         NEW u \in Users, task[t].who # u, pos'[u] = pos[u], screen'[u][u] = screen[u][u], Avatar(u)
  PROVE  Avatar(u)'
<1>1. task'[t] = j /\ \A x \in Threads \ {t} : task'[x] = task[x]
  BY DEF Set, Types
<1>2. \A x \in Threads : Active(x) /\ task[x].who = u => task'[x] = task[x]
  BY <1>1
<1>3. \A x \in Threads : Active(x)' /\ task'[x].who = u => task'[x] = task[x]
  BY <1>1 DEF Active
<1> QED  BY <1>2, <1>3, OwnFrame

LEMMA SetUnknown ==
  ASSUME Types, NEW t \in Threads, NEW j \in Tasks, Set(t, j),
         NEW v \in Users, Fresh(v), registered' \subseteq registered, graves' = graves,
         view_list'[v] = {},
         \A x \in Users : v \notin view_list'[x] /\ screen'[x][v] = Nothing,
         Absent(v, j)
  PROVE  Fresh(v)'
<1>1. task'[t] = j /\ \A x \in Threads \ {t} : task'[x] = task[x]
  BY DEF Set, Types
<1>2. ASSUME NEW x \in Threads  PROVE Absent(v, task[x])'
  <2>1. Absent(v, task'[x])
    BY <1>1 DEF Fresh
  <2> QED  BY <2>1, Zenon DEF Absent, Packets, Due, Sent, Elements
<1> QED  BY <1>2 DEF Fresh, Nothing, Entry

\* CS_MOVE has nothing left to send when it comes to store its list.
LEMMA StoreQuiet ==
  ASSUME NEW j, TaskOK(j), j.pc = "store"
  PROVE  \A p : ~Due(j, p)
<1>1. j.todo = {} /\ j.now = <<>>
  BY DEF TaskOK
<1> QED  BY <1>1, Empty DEF Due

\* Idle knows of nobody.
LEMMA IdleAbsent ==
  ASSUME NEW v \in Users, NEW j \in Tasks, TaskOK(j), j.pc = "idle"
  PROVE  Absent(v, j)
<1>1. j = Idle
  BY DEF TaskOK
<1>2. j.who = Other /\ j.old = {} /\ j.todo = {} /\ j.now = <<>> /\ j.out = {}
  BY <1>1 DEF Idle, Task
<1>3. \A p : ~Due(j, p) /\ ~Sent(j, p)
  BY <1>2, Empty DEF Due, Sent
<1> QED  BY <1>2, <1>3, ObjectAssumption DEF Absent, Objects

LEMMA CopyKeeps ==
  ASSUME IInv, NEW t \in Threads, Copy(t)
  PROVE  IInv'
<1>1. Types /\ Marks /\ Unknown /\ PairsOK /\ Avatars
  BY DEF IInv
<1>2. Types'
  BY <1>1, CopyTypes
<1>3. UNCHANGED <<ingame, registered, pos, invisible, graves, view_list, screen, deeds, used, dirty, alone>>
      /\ task[t].pc = "copy" /\ Active(t)
  BY DEF Copy, world, life, past, Active
<1>4. PICK j \in Tasks :
        /\ task[t].who \in Users /\ task[t].kind = "move"
        /\ TaskOK(j) /\ Set(t, j)
        /\ j.pc = "scan" /\ j.kind = "move" /\ j.who = task[t].who /\ j.old = view_list[task[t].who]
        /\ j.out = {} /\ \A p : ~Due(j, p)
  BY <1>1, CopyTask
<1>5. task'[t] = j
  BY <1>1, <1>4 DEF Set, Types
<1>6. Marks'
  BY <1>1, <1>3, <1>4, SetMarks
<1>7. Unknown'
  <2> SUFFICES ASSUME NEW v \in Users \ used PROVE Fresh(v)'
    BY <1>3 DEF Unknown
  <2>1. Fresh(v)
    BY <1>1 DEF Unknown
  <2>2. Absent(v, j)
    <3>1. \A p : ~Sent(j, p)
      BY <1>4 DEF Sent
    <3> QED  BY <1>4, <2>1, <3>1 DEF Absent, Fresh
  <2> QED  BY <1>1, <1>3, <1>4, <2>1, <2>2, SetUnknown DEF Fresh
<1>8. PairsOK'
  <2> SUFFICES ASSUME NEW a \in ingame, NEW b \in Npcs \cup ingame, b # a, <<a, b>> \notin dirty
               PROVE  PairOK(a, b)'
    BY <1>3 DEF PairsOK
  <2>1. a \in Users /\ b \in Objects /\ PairOK(a, b)
    BY <1>1 DEF Types, Objects, PairsOK
  <2>2. CASE task[t].who \notin {a, b}
    BY <1>1, <1>3, <1>4, <2>1, <2>2, SetOther DEF Same
  <2>3. CASE task[t].who \in {a, b}
    <3>1. Looking(a, b, task[t])
      BY <1>3, <1>4, <2>1, <2>3 DEF PairOK, Stage, Farewell
    <3>2. /\ Tidy(a, b)' <=> Tidy(a, b)
          /\ InPlace(a, b)' <=> InPlace(a, b)
      BY <1>3 DEF Tidy, InPlace
    <3>3. Looking(a, b, j)'
      BY <1>3, <1>4, <2>3, <3>1, <3>2 DEF Looking
    <3>4. Stage(a, b, task[t])'
      BY <1>4, <1>5, <3>3 DEF Stage, Looking
    <3> QED  BY <1>1, <1>3, <1>4, <2>1, <2>3, <3>4, SetPair DEF Marks
  <2> QED  BY <2>2, <2>3
<1>9. Avatars'
  <2> SUFFICES ASSUME NEW a \in ingame, <<a, a>> \notin dirty PROVE Avatar(a)'
    BY <1>3 DEF Avatars
  <2>1. a \in Users /\ Avatar(a)
    BY <1>1 DEF Types, Avatars
  <2>2. CASE task[t].who # a
    BY <1>1, <1>3, <1>4, <2>1, <2>2, SetOwnOther
  <2>3. CASE task[t].who = a
    <3>1. OwnStage(a, task[t])'
      BY <1>4, <1>5 DEF OwnStage
    <3> QED  BY <1>1, <1>3, <1>4, <2>1, <2>3, <3>1, SetOwn DEF Marks
  <2> QED  BY <2>2, <2>3
<1> QED  BY <1>2, <1>6, <1>7, <1>8, <1>9 DEF IInv

LEMMA StepKeeps ==
  ASSUME IInv, NEW t \in Threads, Step(t)
  PROVE  IInv'
<1>1. Types /\ Marks /\ Unknown /\ PairsOK /\ Avatars
  BY DEF IInv
<1>2. Types'
  BY <1>1, StepTypes
<1>3. UNCHANGED <<ingame, registered, invisible, graves, view_list, screen, deeds, used, dirty, alone>>
      /\ task[t].pc = "step" /\ Active(t)
      /\ \A a \in Objects : a # task[t].who => pos'[a] = pos[a]
  BY <1>1 DEF Step, life, past, Active, Types
<1>4. PICK j \in Tasks :
        /\ task[t].who \in Npcs /\ task[t].kind = "npc"
        /\ TaskOK(j) /\ Set(t, j)
        /\ j.pc = "scan" /\ j.kind = "npc" /\ j.who = task[t].who /\ j.old = task[t].old
        /\ j.out = {} /\ \A p : ~Due(j, p)
  BY <1>1, StepTask
<1>5. task'[t] = j /\ task[t].who \notin Users
  BY <1>1, <1>4, ObjectAssumption DEF Set, Types
<1>6. Marks'
  BY <1>1, <1>3, <1>4, SetMarks
<1>7. Unknown'
  <2> SUFFICES ASSUME NEW v \in Users \ used PROVE Fresh(v)'
    BY <1>3 DEF Unknown
  <2>1. Fresh(v)
    BY <1>1 DEF Unknown
  <2>2. Absent(v, j)
    <3>1. \A p : ~Sent(j, p)
      BY <1>4 DEF Sent
    <3> QED  BY <1>4, <2>1, <3>1 DEF Absent, Fresh
  <2> QED  BY <1>1, <1>3, <1>4, <2>1, <2>2, SetUnknown DEF Fresh
<1>8. PairsOK'
  <2> SUFFICES ASSUME NEW a \in ingame, NEW b \in Npcs \cup ingame, b # a, <<a, b>> \notin dirty
               PROVE  PairOK(a, b)'
    BY <1>3 DEF PairsOK
  <2>1. a \in Users /\ a \in Objects /\ b \in Objects /\ PairOK(a, b)
    BY <1>1 DEF Types, Objects, PairsOK
  <2>2. CASE task[t].who \notin {a, b}
    BY <1>1, <1>3, <1>4, <2>1, <2>2, SetOther DEF Same
  <2>3. CASE task[t].who \in {a, b}
    <3>1. Looking(a, b, task[t])
      BY <1>3, <1>4, <2>1, <2>3 DEF PairOK, Stage, Farewell
    <3>2. Tidy(a, b)' <=> Tidy(a, b)
      BY <1>3 DEF Tidy
    <3>3. Stage(a, b, task[t])'
      BY <1>3, <1>4, <1>5, <3>1, <3>2 DEF Stage, Looking
    <3> QED  BY <1>1, <1>3, <1>4, <2>1, <2>3, <3>3, SetPair DEF Marks
  <2> QED  BY <2>2, <2>3
<1>9. Avatars'
  <2> SUFFICES ASSUME NEW a \in ingame, <<a, a>> \notin dirty PROVE Avatar(a)'
    BY <1>3 DEF Avatars
  <2>1. a \in Users /\ a \in Objects /\ Avatar(a) /\ task[t].who # a
    BY <1>1, <1>5 DEF Types, Avatars, Objects
  <2> QED  BY <1>1, <1>3, <1>4, <2>1, SetOwnOther
<1> QED  BY <1>2, <1>6, <1>7, <1>8, <1>9 DEF IInv

\* The packets of a scan between w and another object b.
Between(p, a, b) == \/ p.to = a /\ p.of = b
                    \/ p.to = b /\ p.of = a
Wanted(kind, old, new, b, p) ==
  \/ kind = "login" /\ b \in new /\ p.op = "add"
  \/ kind = "regen" /\ b \in new /\ p.op = "add" /\ p.to = b
  \/ kind \in {"move", "npc"} /\ b \in new \ old /\ p.op = "add"
  \/ kind \in {"move", "npc"} /\ b \in new \cap old /\ p.op = "move" /\ p.to = b
  \/ kind \in {"move", "npc"} /\ b \in old \ new /\ p.op = "remove"

LEMMA UpdatesDue ==
  ASSUME NEW kind \in {"login", "move", "npc", "regen"}, NEW w \in Objects,
         NEW old \in SUBSET Objects, NEW new \in SUBSET Objects,
         NEW b \in Objects, NEW p \in Packets, Between(p, w, b), b # w
  PROVE  (\E s \in Updates(kind, w, old, new) : p \in Elements(s)) <=> Wanted(kind, old, new, b, p)
<1> USE DEF Between, Wanted
<1>1. p.to \in Users /\ p.of \in Objects /\ p.op \in Ops /\ p = Packet(p.op, p.to, p.of)
  BY DEF Packets, Packet, Ops
<1>2. "add" \in Ops /\ "move" \in Ops /\ "remove" \in Ops
  BY DEF Ops
<1>3. ASSUME NEW op \in Ops, NEW c \in Objects
      PROVE  /\ p \in Elements(Pair(op, w, c)) <=> c = b /\ p.op = op
             /\ p \in Elements(Pair(op, c, w)) <=> c = b /\ p.op = op
             /\ p \in Elements(Tell(op, c, w)) <=> c = b /\ p.op = op /\ p.to = b
  <2>1. /\ p = Packet(op, w, c) <=> p.op = op /\ p.to = w /\ p.of = c
        /\ p = Packet(op, c, w) <=> p.op = op /\ p.to = c /\ p.of = w
    BY DEF Packet, Packets
  <2>2. p \in Elements(Pair(op, w, c)) <=> c = b /\ p.op = op
    <3>1. p \in Elements(Pair(op, w, c)) <=> \/ w \in Users /\ p = Packet(op, w, c)
                                             \/ c \in Users /\ p = Packet(op, c, w)
      BY PairMsg
    <3> QED  BY <1>1, <2>1, <3>1
  <2>3. p \in Elements(Pair(op, c, w)) <=> c = b /\ p.op = op
    <3>1. p \in Elements(Pair(op, c, w)) <=> \/ c \in Users /\ p = Packet(op, c, w)
                                             \/ w \in Users /\ p = Packet(op, w, c)
      BY PairMsg
    <3> QED  BY <1>1, <2>1, <3>1
  <2>4. p \in Elements(Tell(op, c, w)) <=> c = b /\ p.op = op /\ p.to = b
    <3>1. p \in Elements(Tell(op, c, w)) <=> c \in Users /\ p = Packet(op, c, w)
      BY TellMsg
    <3> QED  BY <1>1, <2>1, <3>1
  <2> QED  BY <2>2, <2>3, <2>4
<1>4. CASE kind = "login"
  <2>1. Updates(kind, w, old, new) = {Pair("add", c, w) : c \in new}
    BY <1>4 DEF Updates
  <2>2. (\E s \in Updates(kind, w, old, new) : p \in Elements(s)) <=> \E c \in new : p \in Elements(Pair("add", c, w))
    BY <2>1
  <2> QED  BY <1>2, <1>3, <1>4, <2>2
<1>5. CASE kind = "regen"
  <2>1. Updates(kind, w, old, new) = {Tell("add", c, w) : c \in new}
    BY <1>5 DEF Updates
  <2>2. (\E s \in Updates(kind, w, old, new) : p \in Elements(s)) <=> \E c \in new : p \in Elements(Tell("add", c, w))
    BY <2>1
  <2> QED  BY <1>2, <1>3, <1>5, <2>2
<1>6. CASE kind \in {"move", "npc"}
  <2>1. Updates(kind, w, old, new) = {Appear(w, c) : c \in new \ old} \cup {Stay(w, c) : c \in new \cap old}
                                     \cup {Vanish(w, c) : c \in old \ new}
    BY <1>6 DEF Updates
  <2>2. (\E s \in Updates(kind, w, old, new) : p \in Elements(s)) <=>
          \/ \E c \in new \ old : p \in Elements(Appear(w, c))
          \/ \E c \in new \cap old : p \in Elements(Stay(w, c))
          \/ \E c \in old \ new : p \in Elements(Vanish(w, c))
    BY <2>1
  <2>3. \A c \in Objects : /\ p \in Elements(Appear(w, c)) <=> c = b /\ p.op = "add"
                           /\ p \in Elements(Stay(w, c)) <=> c = b /\ p.op = "move" /\ p.to = b
                           /\ p \in Elements(Vanish(w, c)) <=> c = b /\ p.op = "remove"
    BY <1>2, <1>3 DEF Appear, Stay, Vanish
  <2> QED  BY <1>6, <2>2, <2>3
<1> QED  BY <1>4, <1>5, <1>6

\* A scan gives rise to the right packets for a clean pair, and to none only
\* if there is nothing to tell.
LEMMA ScanPair ==
  ASSUME IInv, NEW k \in Tasks, TaskOK(k), k.pc = "scan",
         NEW u \in ingame, NEW o \in Npcs \cup ingame, o # u, <<u, o>> \notin dirty,
         k.who \in {u, o}, k.kind = "regen" => k.who \notin Users,
         Looking(u, o, k),
         NEW j, \A p \in Packets : p.to = u /\ p.of = o =>
           (Due(j, p) <=> \E s \in Updates(k.kind, k.who, k.old, Found(k.kind, k.who)) : p \in Elements(s))
  PROVE  /\ \A p \in Packets : p.to = u /\ p.of = o /\ Due(j, p) => Right(p.op, u, o)
         /\ (\A p \in Packets : p.to = u /\ p.of = o => ~Due(j, p)) => Sound(u, o)
<1>1. Types /\ Marks
  BY DEF IInv
<1>2. /\ u \in Users /\ u \in Objects /\ o \in Objects /\ u \in registered /\ o \in registered
      /\ u \notin invisible /\ (o \in Users => o \notin invisible)
  BY <1>1, NotDead DEF Types, Objects, Marks, Present
<1>3. can_see(u, o) <=> can_see(o, u)
  BY <1>1, <1>2, SeeSym
<1>4. PICK b \in Objects : b # k.who /\ b \in {u, o}
  BY <1>2
<1> DEFINE N == Found(k.kind, k.who)
<1>5. k.who \in Objects /\ k.old \in SUBSET Objects /\ N \in SUBSET Objects
      /\ k.kind \in {"login", "move", "npc", "regen"}
  BY <1>1, <1>2, LookTypes DEF Found, Tasks, TaskOK, KindOK
<1>6. b \in N <=> can_see(u, o) /\ (k.kind = "move" => b \notin invisible)
  BY <1>2, <1>3, <1>4 DEF Found, Alive, InSight
<1> HIDE DEF N
<1>7. ASSUME NEW p \in Packets, p.to = u, p.of = o
      PROVE  Due(j, p) <=>
               \/ k.kind = "login" /\ b \in N /\ p.op = "add"
               \/ k.kind = "regen" /\ b \in N /\ p.op = "add" /\ u = b
               \/ k.kind \in {"move", "npc"} /\
                    \/ b \in N \ k.old /\ p.op = "add"
                    \/ b \in N \cap k.old /\ p.op = "move" /\ u = b
                    \/ b \in k.old \ N /\ p.op = "remove"
  <2>1. Between(p, k.who, b)
    BY <1>4, <1>7 DEF Between
  <2>2. Due(j, p) <=> \E s \in Updates(k.kind, k.who, k.old, N) : p \in Elements(s)
    BY <1>7 DEF N
  <2>3. (\E s \in Updates(k.kind, k.who, k.old, N) : p \in Elements(s)) <=> Wanted(k.kind, k.old, N, b, p)
    BY <1>4, <1>5, <2>1, UpdatesDue
  <2> QED  BY <1>7, <2>2, <2>3 DEF Wanted
<1>8. /\ Packet("add", u, o) \in Packets /\ Packet("remove", u, o) \in Packets
      /\ Packet("add", u, o).to = u /\ Packet("add", u, o).of = o /\ Packet("add", u, o).op = "add"
      /\ Packet("remove", u, o).to = u /\ Packet("remove", u, o).of = o
      /\ Packet("remove", u, o).op = "remove"
  BY <1>2 DEF Packet, Packets
<1>9. o \notin view_list[u] => InPlace(u, o)
  BY DEF Looking, Tidy, InPlace
<1>10. CASE k.kind = "login"
  <2>1. o \notin view_list[u] /\ Tidy(u, o)
    BY <1>10 DEF Looking
  <2>2. \A p \in Packets : p.to = u /\ p.of = o /\ Due(j, p) => Right(p.op, u, o)
    BY <1>6, <1>7, <1>10 DEF Right
  <2>3. Due(j, Packet("add", u, o)) <=> b \in N
    BY <1>7, <1>8, <1>10
  <2>4. b \notin N => Sound(u, o)
    BY <1>6, <1>9, <1>10, <2>1 DEF Sound
  <2> QED  BY <1>8, <2>2, <2>3, <2>4
<1>11. CASE k.kind = "regen"
  <2>1. /\ Tidy(u, o) /\ InPlace(u, o) /\ (o \in view_list[u] => can_see(u, o))
        /\ b = u
    BY <1>2, <1>4, <1>11 DEF Looking
  <2>2. \A p \in Packets : p.to = u /\ p.of = o /\ Due(j, p) => Right(p.op, u, o)
    BY <1>6, <1>7, <1>11 DEF Right
  <2>3. Due(j, Packet("add", u, o)) <=> b \in N
    BY <1>7, <1>8, <1>11, <2>1
  <2>4. b \notin N => Sound(u, o)
    BY <1>6, <1>11, <2>1 DEF Sound
  <2> QED  BY <1>8, <2>2, <2>3, <2>4
<1>12. CASE k.kind \in {"move", "npc"}
  <2>1. Tidy(u, o) /\ (b \in k.old <=> o \in view_list[u])
    <3>1. k.kind = "npc" => k.who = o
      BY <1>2, ObjectAssumption DEF TaskOK, KindOK
    <3> QED  BY <1>4, <1>12, <3>1 DEF Looking
  <2>2. o \notin invisible \/ (k.kind = "move" /\ k.who = u /\ b = o)
    <3>1. k.kind = "move" /\ k.who = o => o \in Users
      BY DEF TaskOK, KindOK
    <3> QED  BY <1>2, <1>4, <1>12, <3>1 DEF Looking
  <2>3. u = b => o \notin invisible
    BY <1>4, <2>2
  <2>4. k.kind = "move" /\ b \in invisible => b = o
    BY <1>2, <1>4
  <2>5. \A p \in Packets : p.to = u /\ p.of = o /\ Due(j, p) => Right(p.op, u, o)
    <3> SUFFICES ASSUME NEW p \in Packets, p.to = u, p.of = o, Due(j, p) PROVE Right(p.op, u, o)
      OBVIOUS
    <3>1. \/ b \in N \ k.old /\ p.op = "add"
          \/ b \in N \cap k.old /\ p.op = "move" /\ u = b
          \/ b \in k.old \ N /\ p.op = "remove"
      BY <1>7, <1>12
    <3>2. CASE p.op = "add"
      BY <1>6, <3>1, <3>2 DEF Right
    <3>3. CASE p.op = "move"
      <4>1. b \in N \cap k.old /\ u = b
        BY <3>1, <3>3
      <4>2. can_see(u, o) /\ o \notin invisible /\ o \in view_list[u] /\ screen[u][o].how = "shown"
        BY <1>6, <2>1, <2>3, <4>1 DEF Tidy
      <4> QED  BY <3>3, <4>2 DEF Right
    <3>4. CASE p.op = "remove"
      BY <1>6, <2>4, <3>1, <3>4 DEF Right
    <3> QED  BY <3>1, <3>2, <3>3, <3>4
  <2>6. ASSUME \A p \in Packets : p.to = u /\ p.of = o => ~Due(j, p)
        PROVE  Sound(u, o)
    <3>1. ~(b \in N \ k.old) /\ ~(b \in k.old \ N)
      BY <1>7, <1>8, <1>12, <2>6
    <3>2. b \in N <=> b \in k.old
      BY <3>1
    <3>3. o \in view_list[u] => can_see(u, o)
      BY <1>6, <2>1, <3>2
    <3>4. o \notin invisible /\ can_see(u, o) => o \in view_list[u]
      BY <1>2, <1>4, <1>6, <2>1, <3>2
    <3>5. InPlace(u, o)
      <4>1. CASE o \notin view_list[u]
        BY <1>9, <4>1
      <4>2. CASE o \in view_list[u]
        <5>1. b \in N \cap k.old
          BY <2>1, <3>2, <4>2
        <5>2. u # b
          <6> SUFFICES ASSUME u = b PROVE FALSE
            OBVIOUS
          <6>1. /\ Packet("move", u, o) \in Packets /\ Packet("move", u, o).to = u
                /\ Packet("move", u, o).of = o /\ Packet("move", u, o).op = "move"
            BY <1>2 DEF Packet, Packets
          <6> QED  BY <1>7, <1>12, <2>6, <5>1, <6>1
        <5>3. k.who = u /\ k.kind = "move"
          BY <1>2, <1>4, <1>12, <5>2, ObjectAssumption DEF TaskOK, KindOK
        <5> QED  BY <5>3 DEF Looking
      <4> QED  BY <4>1, <4>2
    <3> QED  BY <2>1, <3>3, <3>4, <3>5 DEF Sound
  <2> QED  BY <2>5, <2>6
<1> QED  BY <1>5, <1>10, <1>11, <1>12

\* Of whom no sector list knows, a scan finds nothing.
LEMMA ScanAbsent ==
  ASSUME Types, NEW k \in Tasks, TaskOK(k), k.who \in Objects, k.kind \in {"login", "move", "npc", "regen"},
         NEW v \in Users, v \notin registered, Absent(v, k),
         NEW j \in Tasks, TaskOK(j), j.out = {}, v \notin j.old,
         j.pc # "idle" => j.who = k.who,
         \A p : Due(j, p) => \/ \E s \in Updates(k.kind, k.who, k.old, Found(k.kind, k.who)) : p \in Elements(s)
                             \/ p = Packet("move", k.who, k.who)
  PROVE  Absent(v, j)
<1> DEFINE U == Updates(k.kind, k.who, k.old, Found(k.kind, k.who))
<1>1. k.old \in SUBSET Objects /\ Found(k.kind, k.who) \in SUBSET Objects /\ v \in Objects
  BY LookTypes DEF Found, Tasks, Objects
<1>2. v # k.who /\ v \notin k.old /\ v \notin Found(k.kind, k.who)
  BY DEF Absent, Found, Alive, InSight
<1>3. ASSUME NEW p \in Packets, Due(j, p), v \in {p.to, p.of}
      PROVE  FALSE
  <2>1. CASE \E s \in U : p \in Elements(s)
    <3>1. k.who \in {p.to, p.of}
      BY <1>1, <2>1, UpdatesMsg
    <3>2. Between(p, k.who, v)
      BY <1>2, <1>3, <3>1 DEF Between
    <3>3. Wanted(k.kind, k.old, Found(k.kind, k.who), v, p)
      BY <1>1, <1>2, <2>1, <3>2, UpdatesDue
    <3> QED  BY <1>2, <3>3 DEF Wanted
  <2>2. CASE p = Packet("move", k.who, k.who)
    BY <1>2, <1>3, <2>2 DEF Packet
  <2> QED  BY <1>3, <2>1, <2>2
<1>4. \A p : ~Sent(j, p)
  BY DEF Sent
<1>5. CASE j.pc = "idle"
  BY <1>5, IdleAbsent
<1>6. CASE j.pc # "idle"
  BY <1>2, <1>3, <1>4, <1>6 DEF Absent
<1> QED  BY <1>5, <1>6

LEMMA ScanKeeps ==
  ASSUME IInv, NEW t \in Threads, NEW keep \in SUBSET Objects, keep \subseteq registered,
         ScanInto(t, keep)
  PROVE  IInv'
<1>1. Types /\ Marks /\ Unknown /\ PairsOK /\ Avatars
  BY DEF IInv
<1>2. Types'
  BY <1>1, ScanTypes
<1>3. UNCHANGED <<ingame, registered, pos, invisible, graves, view_list, screen, deeds, used, dirty, alone>>
      /\ task[t].pc = "scan" /\ Active(t)
  BY DEF ScanInto, world, life, past, Active
<1>4. PICK k \in Tasks : k = task[t] /\ TaskOK(k) /\ k.pc = "scan" /\ k.who \in Objects
                         /\ k.kind \in {"login", "move", "npc", "regen"}
  BY <1>1, <1>3, ScanTask
<1> DEFINE U == Updates(k.kind, k.who, k.old, Found(k.kind, k.who))
<1>5. PICK j \in Tasks :
        /\ TaskOK(j) /\ Set(t, j) /\ j.out = {} /\ j.old \in {{}, keep}
        /\ j.pc = "idle" \/ (j.pc = "build" /\ j.who = k.who /\ j.kind = k.kind)
        /\ \A p : Due(j, p) <=> \/ \E s \in U \ {<<>>} : p \in Elements(s)
                                \/ k.kind = "move" /\ p = Packet("move", k.who, k.who)
  <2> DEFINE h == task[t]
             P == Updates(h.kind, h.who, h.old, Found(h.kind, h.who)) \ {<<>>}
             j == Spread(h, P, keep)
  <2>1. /\ j \in Tasks /\ TaskOK(j) /\ Set(t, j) /\ j.out = {} /\ j.old \in {{}, keep}
        /\ j.pc = "idle" \/ (j.pc = "build" /\ j.who = h.who /\ j.kind = h.kind)
        /\ \A p : Due(j, p) <=> \/ \E s \in P : p \in Elements(s)
                                \/ h.kind = "move" /\ p = Packet("move", h.who, h.who)
    BY <1>1, ScanTask
  <2>2. h = k /\ P = U \ {<<>>}
    BY <1>4
  <2> HIDE DEF j, P, h, U
  <2> QED  BY <2>1, <2>2
<1>6. \A p : Due(j, p) <=> \/ \E s \in U : p \in Elements(s)
                           \/ k.kind = "move" /\ p = Packet("move", k.who, k.who)
  BY <1>5, Empty
<1>7. task'[t] = j
  BY <1>1, <1>5 DEF Set, Types
<1>8. \A p : ~Sent(j, p)
  BY <1>5 DEF Sent
<1>9. j.pc # "idle" => j.who = task[t].who /\ j.kind = task[t].kind
  BY <1>4, <1>5
<1>10. Marks'
  BY <1>1, <1>3, <1>5, <1>9, SetMarks
<1>12. Unknown'
  <2> SUFFICES ASSUME NEW v \in Users \ used PROVE Fresh(v)'
    BY <1>3 DEF Unknown
  <2>1. Fresh(v) /\ v \notin registered /\ Absent(v, k) /\ v \notin j.old
    BY <1>1, <1>4, <1>5 DEF Unknown, Fresh
  <2>4. Absent(v, j)
    BY <1>1, <1>4, <1>5, <1>6, <2>1, ScanAbsent
  <2> QED  BY <1>1, <1>3, <1>5, <2>1, <2>4, SetUnknown DEF Fresh
<1>13. PairsOK'
  <2> SUFFICES ASSUME NEW a \in ingame, NEW b \in Npcs \cup ingame, b # a, <<a, b>> \notin dirty
               PROVE  PairOK(a, b)'
    BY <1>3 DEF PairsOK
  <2>1. a \in Users /\ a \in Objects /\ b \in Objects /\ PairOK(a, b)
    BY <1>1 DEF Types, Objects, PairsOK
  <2>2. CASE task[t].who \notin {a, b}
    BY <1>1, <1>3, <1>5, <1>9, <2>1, <2>2, SetOther DEF Same
  <2>3. CASE task[t].who \in {a, b}
    <3>1. Looking(a, b, k)
      BY <1>3, <1>4, <2>1, <2>3 DEF PairOK, Stage, Farewell
    <3>2. k.kind = "regen" => k.who \notin Users
      <4>1. <<a, b>> \in Pairs(k.who)
        BY <1>4, <2>1, <2>3, PairsIs
      <4> QED  BY <1>1, <1>3, <1>4, <4>1 DEF Marks, Raised, AllDirty
    <3>3. \A p \in Packets : p.to = a /\ p.of = b => (Due(j, p) <=> \E s \in U : p \in Elements(s))
      BY <1>6 DEF Packet
    <3>4. /\ \A p \in Packets : p.to = a /\ p.of = b /\ Due(j, p) => Right(p.op, a, b)
          /\ (\A p \in Packets : p.to = a /\ p.of = b => ~Due(j, p)) => Sound(a, b)
      BY <1>4, <2>3, <3>1, <3>2, <3>3, ScanPair
    <3>5. /\ Sound(a, b)' <=> Sound(a, b)
          /\ \A op \in Ops : Right(op, a, b)' <=> Right(op, a, b)
      BY <1>3, SameMeans DEF Same
    <3>6. CASE j.pc = "idle"
      <4>1. \A p : ~Due(j, p)
        BY <1>5, <3>6, Empty DEF TaskOK, Due, Idle, Task
      <4>2. Sound(a, b)'
        BY <3>4, <3>5, <4>1
      <4> QED  BY <1>1, <1>3, <1>5, <1>9, <2>1, <2>3, <3>6, <4>2, SetPair DEF Marks
    <3>7. CASE j.pc # "idle"
      <4>1. \A p \in Packets : p.to = a /\ p.of = b /\ Due(j, p) => Right(p.op, a, b)'
        BY <3>4, <3>5 DEF Packets, Ops
      <4>2. Quiet(a, b, j) => Sound(a, b)'
        BY <3>4, <3>5 DEF Quiet
      <4>3. Stage(a, b, task[t])'
        BY <1>5, <1>7, <3>7, <4>1, <4>2 DEF Stage, Telling, Quiet, Packets, Due, Sent, Elements
      <4> QED  BY <1>1, <1>3, <1>5, <1>9, <2>1, <2>3, <3>7, <4>3, SetPair DEF Marks
    <3> QED  BY <3>6, <3>7
  <2> QED  BY <2>2, <2>3
<1>14. Avatars'
  <2> SUFFICES ASSUME NEW a \in ingame, <<a, a>> \notin dirty PROVE Avatar(a)'
    BY <1>3 DEF Avatars
  <2>1. a \in Users /\ a \in Objects /\ Avatar(a)
    BY <1>1 DEF Types, Avatars, Objects
  <2>2. CASE task[t].who # a
    BY <1>1, <1>3, <1>5, <1>9, <2>1, <2>2, SetOwnOther
  <2>3. CASE task[t].who = a
    <3>1. k.kind = "login" \/ k.kind = "move"
      <4>1. k.kind # "regen"
        BY <1>1, <1>3, <1>4, <2>1, <2>3, PairsIs DEF Marks, Raised, AllDirty
      <4>2. k.kind # "npc"
        BY <1>4, <2>1, <2>3, ObjectAssumption DEF TaskOK, KindOK
      <4> QED  BY <1>4, <4>1, <4>2
    <3>2. k.kind = "login" => InPlace(a, a)
      BY <1>3, <1>4, <2>1, <2>3 DEF Avatar, OwnStage, Farewell
    <3>3. InPlace(a, a)' <=> InPlace(a, a)
      BY <1>3 DEF InPlace
    <3>4. k.kind = "move" => Due(j, Packet("move", a, a)) /\ Packet("move", a, a) \in Packets
                             /\ Packet("move", a, a).to = a /\ Packet("move", a, a).of = a
      BY <1>4, <1>6, <2>1, <2>3 DEF Packet, Packets
    <3>5. CASE j.pc = "idle"
      <4>1. \A p : ~Due(j, p)
        BY <1>5, <3>5, Empty DEF TaskOK, Due, Idle, Task
      <4>2. InPlace(a, a)'
        BY <3>1, <3>2, <3>3, <3>4, <4>1
      <4> QED  BY <1>1, <1>3, <1>5, <1>9, <2>1, <2>3, <3>5, <4>2, SetOwn DEF Marks
    <3>6. CASE j.pc # "idle"
      <4>1. Quiet(a, a, j) => InPlace(a, a)'
        BY <3>1, <3>2, <3>3, <3>4 DEF Quiet
      <4>2. OwnStage(a, task[t])'
        BY <1>5, <1>7, <3>6, <4>1 DEF OwnStage, Quiet, Packets, Due, Sent, Elements
      <4> QED  BY <1>1, <1>3, <1>5, <1>9, <2>1, <2>3, <3>6, <4>2, SetOwn DEF Marks
    <3> QED  BY <3>5, <3>6
  <2> QED  BY <2>2, <2>3
<1> QED  BY <1>2, <1>10, <1>12, <1>13, <1>14 DEF IInv

LEMMA BuildKeeps ==
  ASSUME IInv, NEW t \in Threads, Build(t)
  PROVE  IInv'
<1>1. Types /\ Marks /\ Unknown /\ PairsOK /\ Avatars
  BY DEF IInv
<1>2. Types'
  BY <1>1, BuildTypes
<1>3. UNCHANGED <<ingame, registered, pos, invisible, graves, screen, deeds, used, dirty, alone>>
      /\ task[t].pc = "build" /\ Active(t)
  BY DEF Build, world, life, past, Active
<1>4. PICK p \in Packets, j \in Tasks :
           /\ task[t] \in Tasks /\ TaskOK(task[t]) /\ task[t].who \in Objects /\ task[t].out = {}
           /\ task[t].who \in {p.to, p.of}
           /\ TaskOK(j) /\ Set(t, j) /\ view_list' = Listed(p)
           /\ j.pc = "send" /\ j.who = task[t].who /\ j.kind = task[t].kind /\ j.old = task[t].old
           /\ j.out = {[p |-> p, x |-> pos[p.of]]}
           /\ \A q : Due(task[t], q) => Due(j, q) \/ q = p
           /\ \A q : Due(j, q) => Due(task[t], q)
           /\ \/ Due(task[t], p)
              \/ task[t].kind = "leave" /\ p = Packet("remove", task[t].who, task[t].who)
  BY <1>1, BuildStep
<1>5. task'[t] = j
  BY <1>1, <1>4 DEF Set, Types
<1>6. (\A q : Sent(j, q) <=> q = p) /\ (\A q : ~Sent(task[t], q))
  BY <1>4 DEF Sent
<1>7. p.to \in Users /\ p.of \in Objects /\ p.op \in Ops
  BY DEF Packets, Ops
<1>8. /\ view_list' \in [Users -> SUBSET Objects]
      /\ \A u \in Users, o \in Objects : ~(p.to = u /\ p.of = o) =>
           (o \in view_list'[u] <=> o \in view_list[u])
      /\ p.op = "add" => p.of \in view_list'[p.to]
      /\ p.op = "remove" => p.of \notin view_list'[p.to]
      /\ p.op = "move" => view_list' = view_list
  BY <1>1, <1>4, ListedIs
<1>10. Marks'
  BY <1>1, <1>3, <1>4, SetMarks
<1>12. Unknown'
  <2> SUFFICES ASSUME NEW v \in Users \ used PROVE Fresh(v)'
    BY <1>3 DEF Unknown
  <2>1. Fresh(v) /\ v \in Objects /\ Absent(v, task[t])
    BY <1>1 DEF Unknown, Objects, Fresh
  <2>2. p.to # v /\ p.of # v
    BY <1>4, <2>1 DEF Absent, Packet
  <2>3. Absent(v, j)
    BY <1>4, <1>6, <2>1, <2>2 DEF Absent
  <2>4. view_list'[v] = {}
    <3>1. view_list'[v] \subseteq Objects
      BY <1>8
    <3>2. \A o \in Objects : o \notin view_list'[v]
      BY <1>8, <2>1, <2>2 DEF Fresh
    <3> QED  BY <3>1, <3>2
  <2>5. \A x \in Users : v \notin view_list'[x] /\ screen'[x][v] = Nothing
    BY <1>3, <1>8, <2>1, <2>2 DEF Fresh
  <2> QED  BY <1>1, <1>3, <1>4, <2>1, <2>3, <2>4, <2>5, SetUnknown
<1>13. PairsOK'
  <2> SUFFICES ASSUME NEW a \in ingame, NEW b \in Npcs \cup ingame, b # a, <<a, b>> \notin dirty
               PROVE  PairOK(a, b)'
    BY <1>3 DEF PairsOK
  <2>1. a \in Users /\ a \in Objects /\ b \in Objects /\ PairOK(a, b)
    BY <1>1 DEF Types, Objects, PairsOK
  <2>2. CASE task[t].who \notin {a, b}
    <3>1. ~(p.to = a /\ p.of = b) /\ ~(p.to = b /\ p.of = a)
      BY <1>4, <2>2
    <3>2. Same(a, b)
      BY <1>3, <1>8, <2>1, <3>1 DEF Same
    <3> QED  BY <1>1, <1>3, <1>4, <2>1, <2>2, <3>2, SetOther
  <2>3. CASE task[t].who \in {a, b}
    <3> SUFFICES ASSUME j.kind \notin Farewell PROVE Stage(a, b, task[t])'
      BY <1>1, <1>3, <1>4, <2>1, <2>3, SetPair DEF Marks
    <3>1. Telling(a, b, task[t]) /\ Due(task[t], p)
      BY <1>3, <1>4, <2>1, <2>3 DEF PairOK, Stage, Farewell
    <3>2. can_see(a, b)' <=> can_see(a, b)
      BY <1>3 DEF can_see
    <3>3. ASSUME NEW q \in Packets, q.to = a, q.of = b, Due(task[t], q)
          PROVE  Right(q.op, a, b)'
      <4>1. Right(q.op, a, b) /\ q.op \in Ops
        BY <3>1, <3>3 DEF Telling, Packets, Ops
      <4>2. q.op = "move" => b \in view_list'[a]
        <5> SUFFICES ASSUME q.op = "move" PROVE b \in view_list'[a]
          OBVIOUS
        <5>1. b \in view_list[a] /\ can_see(a, b) /\ b \notin invisible
          BY <4>1 DEF Right
        <5>2. CASE p.to = a /\ p.of = b
          <6>1. Right(p.op, a, b)
            BY <3>1, <5>2 DEF Telling
          <6>2. p.op # "remove"
            BY <5>1, <6>1 DEF Right
          <6> QED  BY <1>7, <1>8, <5>1, <5>2, <6>2 DEF Ops
        <5>3. CASE ~(p.to = a /\ p.of = b)
          BY <1>8, <2>1, <5>1, <5>3
        <5> QED  BY <5>2, <5>3
      <4> QED  BY <1>3, <3>2, <4>1, <4>2 DEF Right, Ops
    <3>4. \A q \in Packets : q.to = a /\ q.of = b /\ Due(j, q) => Right(q.op, a, b)'
      BY <1>4, <3>3
    <3>5. \A m \in j.out : m.p.to = a /\ m.p.of = b =>
            /\ m.x = pos'[b] /\ Right(m.p.op, a, b)'
            /\ m.p.op = "add" => b \in view_list'[a]
            /\ m.p.op = "remove" => b \notin view_list'[a]
      BY <1>3, <1>4, <1>8, <3>1, <3>3
    <3>6. Quiet(a, b, j) => Sound(a, b)'
      <4> SUFFICES ASSUME Quiet(a, b, j) PROVE Sound(a, b)'
        OBVIOUS
      <4>1. ~(p.to = a /\ p.of = b)
        BY <1>6 DEF Quiet
      <4>2. Quiet(a, b, task[t])
        BY <1>4, <1>6, <4>1 DEF Quiet
      <4>3. b \in view_list'[a] <=> b \in view_list[a]
        BY <1>8, <2>1, <4>1
      <4>4. Sound(a, b)
        BY <3>1, <4>2 DEF Telling
      <4> QED  BY <1>3, <3>2, <4>3, <4>4 DEF Sound, Tidy, InPlace
    <3> QED  BY <1>4, <1>5, <3>4, <3>5, <3>6 DEF Stage, Telling, Quiet, Packets, Due, Sent, Elements
  <2> QED  BY <2>2, <2>3
<1>14. Avatars'
  <2> SUFFICES ASSUME NEW a \in ingame, <<a, a>> \notin dirty PROVE Avatar(a)'
    BY <1>3 DEF Avatars
  <2>1. a \in Users /\ a \in Objects /\ Avatar(a)
    BY <1>1 DEF Types, Avatars, Objects
  <2>2. CASE task[t].who # a
    BY <1>1, <1>3, <1>4, <2>1, <2>2, SetOwnOther
  <2>3. CASE task[t].who = a
    <3> SUFFICES ASSUME j.kind \notin Farewell PROVE OwnStage(a, task[t])'
      BY <1>1, <1>3, <1>4, <2>1, <2>3, SetOwn DEF Marks
    <3>1. OwnStage(a, task[t])
      BY <1>3, <1>4, <2>1, <2>3 DEF Avatar
    <3>2. Quiet(a, a, j) => InPlace(a, a)'
      <4> SUFFICES ASSUME Quiet(a, a, j) PROVE InPlace(a, a)'
        OBVIOUS
      <4>1. ~(p.to = a /\ p.of = a)
        BY <1>6 DEF Quiet
      <4>2. Quiet(a, a, task[t])
        BY <1>4, <1>6, <4>1 DEF Quiet
      <4> QED  BY <1>3, <3>1, <4>2 DEF OwnStage, InPlace
    <3>3. \A m \in j.out : m.p.to = a /\ m.p.of = a => m.x = pos'[a]
      BY <1>3, <1>4
    <3> QED  BY <1>4, <1>5, <3>2, <3>3 DEF OwnStage, Quiet, Packets, Due, Sent, Elements
  <2> QED  BY <2>2, <2>3
<1> QED  BY <1>2, <1>10, <1>12, <1>13, <1>14 DEF IInv

\* Only the lesson has a handler of this kind.
NoBye == \A t \in Threads : task[t].kind # "bye"

\* A packet goes out.  What the handler is then, and who is still in the game,
\* is each server's own.
LEMMA SendKept ==
  ASSUME IInv, NEW t \in Threads, NEW m, NEW j \in Tasks, Sends(t, m, j),
         UNCHANGED <<pos, invisible, graves, view_list, deeds, used, dirty, alone>>,
         ingame' \subseteq ingame, registered' \subseteq registered,
         ingame' \cup Npcs \subseteq registered',
         j.pc = "idle" /\ task[t].kind \in Farewell => task[t].who \notin ingame'
  PROVE  IInv'
<1>1. Types /\ Marks /\ Unknown /\ PairsOK /\ Avatars
  BY DEF IInv
<1>3. task[t].pc = "send" /\ Active(t)
  BY DEF Sends, Active
<1>4. /\ task[t] \in Tasks /\ TaskOK(task[t]) /\ task[t].who \in Objects
      /\ m \in [p : Packets, x : Cells] /\ m \in task[t].out
      /\ task[t].who \in {m.p.to, m.p.of} /\ \A q : Sent(task[t], q) <=> q = m.p
      /\ screen' = IF m.p.to \in ingame
                   THEN [screen EXCEPT ![m.p.to][m.p.of] = Shown(m.p, m.x)] ELSE screen
      /\ TaskOK(j) /\ Set(t, j) /\ j.out = {}
      /\ \A q : Due(j, q) <=> Due(task[t], q)
      /\ \/ j.pc = "idle"
         \/ j.pc \in {"build", "store"} /\ j.who = task[t].who /\ j.kind = task[t].kind
      /\ j.old = {} \/ j.old = task[t].old
  BY DEF Sends
<1>2. Types'
  BY <1>1, SendTypes
<1>5. task'[t] = j
      /\ (j.pc # "idle" => j.who = task[t].who /\ j.kind = task[t].kind)
  BY <1>1, <1>4 DEF Set, Types
<1>6. \A q : ~Sent(j, q)
  BY <1>4 DEF Sent
<1>7. m.p \in Packets /\ m.p.to \in Users /\ m.p.of \in Objects /\ m.p.op \in Ops
  BY <1>4 DEF Packets, Ops
<1>8. /\ \A u \in Users, o \in Objects : ~(m.p.to = u /\ m.p.of = o) => screen'[u][o] = screen[u][o]
      /\ m.p.to \in ingame => screen'[m.p.to][m.p.of] = Shown(m.p, m.x)
  BY <1>1, <1>4, ShownIs
<1>10. Marks'
  BY <1>1, <1>3, <1>4, <1>5, LeaveMarks
<1>12. Unknown'
  <2> SUFFICES ASSUME NEW v \in Users \ used PROVE Fresh(v)'
    BY <1>3 DEF Unknown
  <2>1. Fresh(v) /\ v \in Objects /\ Absent(v, task[t])
    BY <1>1 DEF Unknown, Objects, Fresh
  <2>2. m.p.to # v /\ m.p.of # v
    BY <1>4, <1>7, <2>1 DEF Absent
  <2>3. Absent(v, j)
    <3>1. CASE j.pc = "idle"
      BY <1>4, <3>1, IdleAbsent
    <3>2. CASE j.pc # "idle"
      BY <1>4, <1>6, <2>1, <3>2 DEF Absent
    <3> QED  BY <3>1, <3>2
  <2>4. \A x \in Users : v \notin view_list'[x] /\ screen'[x][v] = Nothing
    BY <1>3, <1>8, <2>1, <2>2 DEF Fresh
  <2> QED  BY <1>1, <1>3, <1>4, <2>1, <2>3, <2>4, SetUnknown DEF Fresh
<1>13. PairsOK'
  <2> SUFFICES ASSUME NEW a \in ingame', NEW b \in Npcs \cup ingame', b # a, <<a, b>> \notin dirty
               PROVE  PairOK(a, b)'
    BY <1>3 DEF PairsOK
  <2>1. a \in Users /\ a \in Objects /\ b \in Objects /\ PairOK(a, b) /\ a \in ingame /\ b \in Npcs \cup ingame
    BY <1>1, <1>5 DEF Types, Objects, PairsOK
  <2>2. CASE task[t].who \notin {a, b}
    <3>1. ~(m.p.to = a /\ m.p.of = b) /\ ~(m.p.to = b /\ m.p.of = a)
      BY <1>4, <2>2
    <3>2. Same(a, b)
      BY <1>3, <1>8, <2>1, <3>1 DEF Same
    <3> QED  BY <1>1, <1>3, <1>4, <1>5, <2>1, <2>2, <3>2, SetOther
  <2>3. CASE task[t].who \in {a, b} /\ task[t].kind \in Farewell
    <3>1. task[t].who \in Users /\ task[t].who \notin Npcs
      BY <1>4, <2>3, ObjectAssumption DEF TaskOK, KindOK, Farewell
    <3>2. j.pc # "idle"
      BY <2>3, <3>1
    <3> QED  BY <1>1, <1>3, <1>4, <1>5, <2>1, <2>3, <3>2, SetPair DEF Marks
  <2>4. CASE task[t].who \in {a, b} /\ task[t].kind \notin Farewell
    <3>1. Telling(a, b, task[t])
      BY <1>3, <2>1, <2>4 DEF PairOK, Stage
    <3>2. can_see(a, b)' <=> can_see(a, b)
      BY <1>3 DEF can_see
    <3>3. m.p.to = a /\ m.p.of = b =>
            /\ m.x = pos[b] /\ Right(m.p.op, a, b)
            /\ m.p.op = "add" => b \in view_list[a]
            /\ m.p.op = "remove" => b \notin view_list[a]
            /\ screen'[a][b] = Shown(m.p, m.x)
      BY <1>4, <1>8, <2>1, <3>1 DEF Telling
    <3>4. m.p.to = a /\ m.p.of = b => Sound(a, b)'
      <4> SUFFICES ASSUME m.p.to = a, m.p.of = b PROVE Sound(a, b)'
        OBVIOUS
      <4>1. CASE m.p.op = "add"
        <5>1. screen'[a][b] = Entry("shown", pos[b])
          BY <3>3, <4>1 DEF Shown
        <5>2. screen'[a][b].how = "shown" /\ screen'[a][b].x = pos'[b]
          BY <1>3, <5>1 DEF Entry
        <5>3. can_see(a, b) /\ b \in view_list[a]
          BY <3>3, <4>1 DEF Right
        <5> QED  BY <1>3, <3>2, <5>2, <5>3 DEF Sound, Tidy, InPlace
      <4>2. CASE m.p.op = "remove"
        <5>1. screen'[a][b] = Nothing
          BY <2>1, <3>3, <4>2 DEF Shown
        <5>2. screen'[a][b].how = "none"
          BY <5>1 DEF Nothing, Entry
        <5>3. (~can_see(a, b) \/ b \in invisible) /\ b \notin view_list[a]
          BY <3>3, <4>2 DEF Right
        <5> QED  BY <1>3, <3>2, <5>2, <5>3 DEF Sound, Tidy, InPlace
      <4>3. CASE m.p.op = "move"
        <5>1. can_see(a, b) /\ b \in view_list[a] /\ screen[a][b].how = "shown"
          BY <3>3, <4>3 DEF Right
        <5>2. screen'[a][b] = Entry("shown", pos[b])
          BY <3>3, <4>3, <5>1 DEF Shown
        <5>3. screen'[a][b].how = "shown" /\ screen'[a][b].x = pos'[b]
          BY <1>3, <5>2 DEF Entry
        <5> QED  BY <1>3, <3>2, <5>1, <5>3 DEF Sound, Tidy, InPlace
      <4> QED  BY <1>7, <4>1, <4>2, <4>3 DEF Ops
    <3>5. Quiet(a, b, j) => Sound(a, b)'
      <4> SUFFICES ASSUME Quiet(a, b, j), ~(m.p.to = a /\ m.p.of = b) PROVE Sound(a, b)'
        BY <3>4
      <4>1. Quiet(a, b, task[t])
        BY <1>4 DEF Quiet
      <4>2. Sound(a, b) /\ screen'[a][b] = screen[a][b]
        BY <1>8, <2>1, <3>1, <4>1 DEF Telling
      <4> QED  BY <1>3, <3>2, <4>2 DEF Sound, Tidy, InPlace
    <3>6. CASE j.pc = "idle"
      <4>1. \A p : ~Due(j, p)
        BY <1>4, <3>6, Empty DEF TaskOK, Due, Idle, Task
      <4>2. Sound(a, b)'
        BY <1>6, <3>5, <4>1 DEF Quiet
      <4> QED  BY <1>1, <1>3, <1>4, <1>5, <2>1, <2>4, <3>6, <4>2, SetPair DEF Marks
    <3>7. CASE j.pc # "idle"
      <4>1. ASSUME NEW q \in Packets, q.to = a, q.of = b, Due(j, q)
            PROVE  Right(q.op, a, b)'
        <5>1. Right(q.op, a, b) /\ q.op \in Ops
          BY <1>4, <3>1, <4>1 DEF Telling, Packets, Ops
        <5>2. q.op = "move" => screen'[a][b].how = "shown"
          <6> SUFFICES ASSUME q.op = "move" PROVE screen'[a][b].how = "shown"
            OBVIOUS
          <6>1. b \in view_list[a] /\ can_see(a, b) /\ b \notin invisible /\ screen[a][b].how = "shown"
            BY <5>1 DEF Right
          <6>2. CASE m.p.to = a /\ m.p.of = b
            BY <1>3, <3>4, <6>1, <6>2 DEF Sound, Tidy
          <6>3. CASE ~(m.p.to = a /\ m.p.of = b)
            BY <1>8, <2>1, <6>1, <6>3
          <6> QED  BY <6>2, <6>3
        <5> QED  BY <1>3, <3>2, <5>1, <5>2 DEF Right, Ops
      <4>3. j.pc = "store" => Sound(a, b)'
        BY <1>4, <1>6, <3>5, StoreQuiet DEF Quiet
      <4>2. Stage(a, b, task[t])'
        BY <1>4, <1>5, <3>5, <3>7, <4>1, <4>3 DEF Stage, Telling, Quiet, Packets, Due, Sent, Elements
      <4> QED  BY <1>1, <1>3, <1>4, <1>5, <2>1, <2>4, <3>7, <4>2, SetPair DEF Marks
    <3> QED  BY <3>6, <3>7
  <2> QED  BY <2>2, <2>3, <2>4
<1>14. Avatars'
  <2> SUFFICES ASSUME NEW a \in ingame', <<a, a>> \notin dirty PROVE Avatar(a)'
    BY <1>3 DEF Avatars
  <2>1. a \in Users /\ a \in Objects /\ Avatar(a) /\ a \in ingame
    BY <1>1, <1>5 DEF Types, Avatars, Objects
  <2>2. CASE task[t].who # a
    <3>1. screen'[a][a] = screen[a][a]
      BY <1>4, <1>8, <2>1, <2>2
    <3> QED  BY <1>1, <1>3, <1>4, <1>5, <2>1, <2>2, <3>1, SetOwnOther
  <2>3. CASE task[t].who = a /\ task[t].kind \in Farewell
    <3>1. j.pc # "idle"
      BY <2>3
    <3> QED  BY <1>1, <1>3, <1>4, <1>5, <2>1, <2>3, <3>1, SetOwn DEF Marks
  <2>4. CASE task[t].who = a /\ task[t].kind \notin Farewell
    <3>1. OwnStage(a, task[t])
      BY <1>3, <2>1, <2>4 DEF Avatar
    <3>2. m.p.to = a /\ m.p.of = a => InPlace(a, a)'
      <4> SUFFICES ASSUME m.p.to = a, m.p.of = a PROVE InPlace(a, a)'
        OBVIOUS
      <4>1. m.x = pos[a] /\ screen'[a][a] = Shown(m.p, m.x)
        BY <1>3, <1>4, <1>8, <2>1, <3>1 DEF OwnStage
      <4>2. CASE m.p.op = "remove"
        <5>1. screen'[a][a].how = "hidden"
          BY <4>1, <4>2 DEF Shown, Entry
        <5> QED  BY <5>1 DEF InPlace
      <4>3. CASE m.p.op # "remove"
        <5>1. screen'[a][a].x = pos[a]
          BY <1>7, <4>1, <4>3 DEF Shown, Entry, Ops
        <5> QED  BY <1>3, <5>1 DEF InPlace
      <4> QED  BY <4>2, <4>3
    <3>3. Quiet(a, a, j) => InPlace(a, a)'
      <4> SUFFICES ASSUME Quiet(a, a, j), ~(m.p.to = a /\ m.p.of = a) PROVE InPlace(a, a)'
        BY <3>2
      <4>1. Quiet(a, a, task[t])
        BY <1>4 DEF Quiet
      <4>2. InPlace(a, a) /\ screen'[a][a] = screen[a][a]
        BY <1>3, <1>8, <2>1, <3>1, <4>1 DEF OwnStage
      <4> QED  BY <1>3, <4>2 DEF InPlace
    <3>4. CASE j.pc = "idle"
      <4>1. \A p : ~Due(j, p)
        BY <1>4, <3>4, Empty DEF TaskOK, Due, Idle, Task
      <4>2. InPlace(a, a)'
        BY <1>6, <3>3, <4>1 DEF Quiet
      <4> QED  BY <1>1, <1>3, <1>4, <1>5, <2>1, <2>4, <3>4, <4>2, SetOwn DEF Marks
    <3>5. CASE j.pc # "idle"
      <4>2. j.pc = "store" => InPlace(a, a)'
        BY <1>4, <1>6, <3>3, StoreQuiet DEF Quiet
      <4>1. OwnStage(a, task[t])'
        BY <1>4, <1>5, <3>3, <3>5, <4>2 DEF OwnStage, Quiet, Packets, Due, Sent, Elements
      <4> QED  BY <1>1, <1>3, <1>4, <1>5, <2>1, <2>4, <3>5, <4>1, SetOwn DEF Marks
    <3> QED  BY <3>4, <3>5
  <2> QED  BY <2>2, <2>3, <2>4
<1> QED  BY <1>2, <1>10, <1>12, <1>13, <1>14 DEF IInv

LEMMA SendKeeps ==
  ASSUME IInv, NoBye, NEW t \in Threads, Send(t)
  PROVE  IInv'
<1>1. Types /\ Present
  BY DEF IInv, Marks
<1>2. PICK m \in task[t].out, j \in Tasks :
           /\ Sends(t, m, j)
           /\ ingame' = IF j.pc = "idle" /\ task[t].kind = "leave"
                        THEN ingame \ {task[t].who} ELSE ingame
  BY <1>1, SendStep
<1>3. UNCHANGED <<registered, pos, invisible, graves, view_list, deeds, used, dirty, alone>>
  BY DEF Send, life, past
<1>4. ingame' \subseteq ingame /\ ingame' \cup Npcs \subseteq registered'
  BY <1>1, <1>2, <1>3 DEF Present
<1>5. task[t].kind # "bye"
  BY DEF NoBye
<1>6. j.pc = "idle" /\ task[t].kind \in Farewell => task[t].who \notin ingame'
  BY <1>2, <1>5 DEF Farewell
<1> QED  BY <1>2, <1>3, <1>4, <1>6, SendKept

-----------------------------------------------------------------------------
(* The invariant holds, and what it says. *)

LEMMA InitIInv == Init => IInv
<1> SUFFICES ASSUME Init PROVE IInv
  OBVIOUS
<1>1. Types
  BY InitTypes
<1>2. /\ registered = Npcs \cup ingame /\ used = ingame /\ dirty = {} /\ invisible = {}
      /\ \A o \in Objects : graves[o] = 0
      /\ \A u \in Users : view_list[u] = IF u \in ingame THEN InSight(u) ELSE {}
      /\ \A t \in Threads : task[t] = Idle
  BY Zenon DEF Init
<1>3. \A u \in Users, o \in Objects :
        screen[u][o] = IF u \in ingame /\ o \in InSight(u) \cup {u} THEN Entry("shown", pos[o]) ELSE Nothing
  BY Zenon DEF Init
<1>4. Idle.pc = "idle" /\ Idle.who = Other /\ Idle.old = {}
  BY DEF Idle, Task
<1>5. \A p : ~Due(Idle, p) /\ ~Sent(Idle, p)
  BY Empty DEF Idle, Task, Due, Sent
<1>6. \A t \in Threads : ~Active(t)
  BY <1>2, <1>4 DEF Active
<1>7. Marks
  <2>1. Apart /\ Raised
    BY <1>6 DEF Apart, Raised
  <2>2. Symmetric /\ Present
    BY <1>2 DEF Symmetric, Present
  <2>3. Dead
    BY <1>2 DEF Dead, Objects
  <2> QED  BY <2>1, <2>2, <2>3 DEF Marks
<1>8. Unknown
  <2> SUFFICES ASSUME NEW u \in Users, u \notin ingame PROVE Fresh(u)
    BY <1>2 DEF Unknown
  <2>1. u \in Objects /\ u # Other /\ u \notin registered
    BY <1>2, ObjectAssumption DEF Objects
  <2>2. view_list[u] = {} /\ graves[u] = 0
    BY <1>2, <2>1
  <2>3. ASSUME NEW v \in Users
        PROVE  u \notin view_list[v] /\ screen[v][u] = Nothing
    <3>1. u \notin InSight(v) /\ (v \in ingame => u # v)
      BY <2>1 DEF InSight
    <3> QED  BY <1>2, <1>3, <2>1, <3>1
  <2>4. \A t \in Threads : Absent(u, task[t])
    BY <1>2, <1>4, <1>5, <2>1 DEF Absent
  <2> QED  BY <2>1, <2>2, <2>3, <2>4 DEF Fresh
<1>9. PairsOK
  <2> SUFFICES ASSUME NEW u \in ingame, NEW o \in Npcs \cup ingame, o # u PROVE PairOK(u, o)
    BY DEF PairsOK
  <2>1. u \in Users /\ o \in Objects /\ o \in registered
    BY <1>1, <1>2 DEF Types, Objects
  <2>2. o \in view_list[u] <=> can_see(u, o)
    BY <1>2, <2>1 DEF InSight
  <2>3. screen[u][o] = IF o \in view_list[u] THEN Entry("shown", pos[o]) ELSE Nothing
    BY <1>2, <1>3, <2>1
  <2>4. Sound(u, o)
    BY <2>2, <2>3 DEF Sound, Tidy, InPlace, Entry, Nothing
  <2> QED  BY <1>6, <2>4 DEF PairOK
<1>10. Avatars
  <2> SUFFICES ASSUME NEW u \in ingame PROVE Avatar(u)
    BY DEF Avatars
  <2>1. u \in Users /\ u \in Objects
    BY <1>1 DEF Types, Objects
  <2>2. screen[u][u] = Entry("shown", pos[u])
    BY <1>3, <2>1
  <2> QED  BY <1>6, <2>2 DEF Avatar, InPlace, Entry
<1> QED  BY <1>1, <1>7, <1>8, <1>9, <1>10 DEF IInv

LEMMA StillIInv ==
  ASSUME IInv, UNCHANGED vars
  PROVE  IInv'
<1>1. UNCHANGED <<ingame, registered, pos, invisible, graves, view_list, screen, task,
                  deeds, used, dirty, alone>>
  BY DEF vars, world, life, past
<1>2. Types' /\ Marks' /\ Unknown'
  BY <1>1 DEF IInv, Types, Marks, Unknown, Apart, Symmetric, Dead, Raised, Present, Fresh,
              Active, AllDirty
<1>3. PairsOK'
  <2>1. \A u, o : /\ (Sound(u, o) <=> Sound(u, o)') /\ (PairOK(u, o) <=> PairOK(u, o)')
    <3>1. ASSUME NEW u, NEW o
          PROVE  /\ Tidy(u, o)' <=> Tidy(u, o)
                 /\ InPlace(u, o)' <=> InPlace(u, o)
                 /\ Sound(u, o)' <=> Sound(u, o)
                 /\ can_see(u, o)' <=> can_see(u, o)
      BY <1>1 DEF Sound, Tidy, InPlace, can_see
    <3>2. ASSUME NEW u, NEW o, NEW t
          PROVE  Stage(u, o, task[t])' <=> Stage(u, o, task[t])
      <4>1. Looking(u, o, task[t])' <=> Looking(u, o, task[t])
        BY <1>1, <3>1 DEF Looking
      <4>2. \A op : Right(op, u, o)' <=> Right(op, u, o)
        BY <1>1 DEF Right, can_see
      <4>3. Telling(u, o, task[t])' <=> Telling(u, o, task[t])
        BY <1>1, <3>1, <4>2 DEF Telling
      <4> QED  BY <1>1, <3>1, <4>1, <4>3 DEF Stage
    <3> QED  BY <1>1, <3>1, <3>2 DEF PairOK, Active
  <2> QED  BY <1>1, <2>1 DEF IInv, PairsOK
<1>4. Avatars'
  BY <1>1 DEF IInv, Avatars, Avatar, OwnStage, Active, InPlace
<1> QED  BY <1>2, <1>3, <1>4 DEF IInv

\* No step of a worker breaks it.
LEMMA NextIInv ==
  ASSUME IInv, NoBye, [Next]_vars
  PROVE  IInv'
<1>1. CASE UNCHANGED vars
  BY <1>1, StillIInv
<1>2. ASSUME NEW u \in Users, Login(u)  PROVE IInv'
  BY <1>2, LoginKeeps
<1>3. ASSUME NEW u \in Users, Move(u)  PROVE IInv'
  <2>1. u \in Threads  BY DEF Threads, Objects
  <2> QED  BY <1>3, <2>1, WalkKeeps DEF Move
<1>4. ASSUME NEW u \in Users, Death(u)  PROVE IInv'
  <2>1. Other \in Threads /\ Spawn \in Cells  BY CellTypes DEF Threads
  <2> QED  BY <1>4, <2>1, WalkKeeps DEF Death
<1>5. ASSUME NEW u \in Users, Disconnect(u)  PROVE IInv'
  BY <1>5, DisconnectKeeps
<1>6. ASSUME NEW u \in Users, Kill(u)  PROVE IInv'
  BY <1>6, KillKeeps
<1>7. ASSUME NEW n \in Npcs, NpcMove(n)  PROVE IInv'
  <2>1. n \in Threads  BY DEF Threads, Objects
  <2> QED  BY <1>7, <2>1, RoamKeeps DEF NpcMove
<1>8. ASSUME NEW o \in Objects, Regen(o)  PROVE IInv'
  BY <1>8, RegenKeeps
<1>9. ASSUME NEW t \in Threads, Copy(t) \/ Step(t) \/ Scan(t) \/ Build(t) \/ Send(t)  PROVE IInv'
  BY <1>9, CopyKeeps, StepKeeps, ScanIs, ScanKeeps, BuildKeeps, SendKeeps
<1> QED  BY <1>1, <1>2, <1>3, <1>4, <1>5, <1>6, <1>7, <1>8, <1>9 DEF Next

\* The handlers of the game, and the slots that have stood in a sector list.
Game == NoBye /\ used \subseteq registered

LEMMA InitGame == Init => Game
BY DEF Init, Game, NoBye, Idle, Task

LEMMA BeginNoBye ==
  ASSUME Types, NoBye, NEW t \in Threads, NEW k \in Tasks, TaskOK(k), Begin(t, k), k.kind # "bye"
  PROVE  NoBye'
<1>1. (\A x \in Threads \ {t} : task'[x] = task[x]) /\ task'[t] = k
  BY BeginTypes
<1> QED  BY <1>1 DEF NoBye

LEMMA SetNoBye ==
  ASSUME Types, NoBye, NEW t \in Threads, NEW j \in Tasks, TaskOK(j), Set(t, j),
         j.pc # "idle" => j.kind = task[t].kind
  PROVE  NoBye'
<1>1. (\A x \in Threads \ {t} : task'[x] = task[x]) /\ task'[t] = j
  BY DEF Set, Types
<1>2. j.pc = "idle" => j.kind = "none"
  BY DEF TaskOK, Idle, Task
<1> QED  BY <1>1, <1>2 DEF NoBye

LEMMA NextGame ==
  ASSUME Types, Game, [Next]_vars
  PROVE  Game'
<1>1. used' \subseteq registered'
  BY DEF Next, vars, world, past, Game, Login, Move, Death, Disconnect, Kill, NpcMove, Regen,
         Copy, Step, Scan, Build, Send
<1>2. NoBye /\ Users \subseteq Objects /\ Npcs \subseteq Objects /\ Objects \subseteq Threads /\ Other \in Threads
  BY DEF Game, Objects, Threads
<1>3. CASE UNCHANGED vars
  BY <1>1, <1>2, <1>3 DEF vars, NoBye, Game
<1>4. ASSUME NEW u \in Users, Login(u)  PROVE NoBye'
  <2>1. PICK k \in Tasks : k = Task("scan", "login", u, {}, {}, <<>>) /\ TaskOK(k)
    BY <1>2, NewTask
  <2>2. Begin(u, k) /\ k.kind = "login"
    BY <1>4, <2>1 DEF Login, Task
  <2> QED  BY <1>2, <2>1, <2>2, BeginNoBye
<1>5. ASSUME NEW u \in Users, NEW t \in Threads, Begin(t, Task("copy", "move", u, {}, {}, <<>>))
      PROVE  NoBye'
  <2>1. PICK k \in Tasks : k = Task("copy", "move", u, {}, {}, <<>>) /\ TaskOK(k)
    BY <1>2, NewTask
  <2>2. Begin(t, k) /\ k.kind = "move"
    BY <1>5, <2>1 DEF Task
  <2> QED  BY <1>2, <2>1, <2>2, BeginNoBye
<1>6. ASSUME NEW u \in Users, Disconnect(u)  PROVE NoBye'
  <2> DEFINE near == {v \in ingame \ {u} : can_see(u, v)}
  <2>1. near \in SUBSET Users
    BY DEF Types
  <2>2. Begin(Other, Leaving(u, near))
    BY <1>6 DEF Disconnect, Leaving
  <2> HIDE DEF near
  <2>3. PICK k \in Tasks : k = Leaving(u, near) /\ TaskOK(k) /\ k.kind = "leave"
    BY <2>1, LeaveTask
  <2> QED  BY <1>2, <2>2, <2>3, BeginNoBye
<1>7. ASSUME NEW u \in Users, Kill(u)  PROVE NoBye'
  <2>1. PICK K \in SUBSET view_list[u] : K # {} /\ Begin(u, Killing(u, K))
    BY <1>7 DEF Kill, Killing
  <2>2. K \in SUBSET Objects
    BY <2>1 DEF Types
  <2>3. PICK k \in Tasks : k = Killing(u, K) /\ TaskOK(k) /\ k.kind = "kill"
    BY <2>1, <2>2, KillTask
  <2> QED  BY <1>2, <2>1, <2>3, BeginNoBye
<1>8. ASSUME NEW n \in Npcs, NpcMove(n)  PROVE NoBye'
  <2>1. PICK k \in Tasks : k = Task("step", "npc", n, InSight(n), {}, <<>>) /\ TaskOK(k)
    BY <1>2, NewTask, LookTypes
  <2>2. Begin(n, k) /\ k.kind = "npc"
    BY <1>8, <2>1 DEF NpcMove, Task
  <2> QED  BY <1>2, <2>1, <2>2, BeginNoBye
<1>9. ASSUME NEW o \in Objects, Regen(o)  PROVE NoBye'
  <2>1. CASE task' = task
    BY <1>2, <2>1 DEF NoBye
  <2>2. CASE Begin(Other, Task("scan", "regen", o, {}, {}, <<>>))
    <3>1. PICK k \in Tasks : k = Task("scan", "regen", o, {}, {}, <<>>) /\ TaskOK(k)
      BY NewTask
    <3>2. Begin(Other, k) /\ k.kind = "regen"
      BY <2>2, <3>1 DEF Task
    <3> QED  BY <1>2, <3>1, <3>2, BeginNoBye
  <2> QED  BY <1>9, <2>1, <2>2 DEF Regen
<1>10. ASSUME NEW t \in Threads, Copy(t) \/ Step(t) \/ Scan(t) \/ Build(t) \/ Send(t)
       PROVE  NoBye'
  <2>1. \E j \in Tasks : TaskOK(j) /\ Set(t, j) /\ (j.pc # "idle" => j.kind = task[t].kind)
    <3>1. CASE Copy(t)
      BY <3>1, CopyTask
    <3>2. CASE Step(t)
      BY <3>2, StepTask
    <3>3. CASE Scan(t)
      BY <3>3, ScanIs, ScanTask
    <3>4. CASE Build(t)
      BY <3>4, BuildStep
    <3>5. CASE Send(t)
      <4>1. PICK m \in task[t].out, j \in Tasks : Sends(t, m, j)
        BY <3>5, SendStep
      <4> QED  BY <4>1 DEF Sends
    <3> QED  BY <1>10, <3>1, <3>2, <3>3, <3>4, <3>5
  <2> QED  BY <1>2, <2>1, SetNoBye
<1> QED  BY <1>1, <1>2, <1>3, <1>4, <1>5, <1>6, <1>7, <1>8, <1>9, <1>10 DEF Next, Move, Death, Game

\* The inductive invariant holds in every state of the game.
THEOREM Invariance == Spec => [](IInv /\ Game)
<1>1. Init => IInv /\ Game
  BY InitIInv, InitGame
<1>2. IInv /\ Game /\ [Next]_vars => (IInv /\ Game)'
  BY NextIInv, NextGame DEF Game, IInv
<1> QED  BY <1>1, <1>2, PTL DEF Spec

\* A clean pair is sound, and a clean avatar stands where its user does.
LEMMA CleanIsSound ==
  ASSUME IInv, NEW u \in Users, NEW o \in Objects, Clean(u, o)
  PROVE  /\ o # u => Sound(u, o)
         /\ o = u => InPlace(u, u)
<1>1. Types /\ PairsOK /\ Avatars
  BY DEF IInv
<1>2. u \in ingame /\ o \in Npcs \cup ingame /\ <<u, o>> \notin dirty
  BY DEF Clean
<1>3. \A t \in Threads : Active(t) => task[t].who \notin {u, o}
  <2>1. Idle.pc = "idle"
    BY DEF Idle, Task
  <2>2. \A t \in Threads : Active(t) => task[t] # Idle
    BY <2>1 DEF Active
  <2> QED  BY <2>2 DEF Clean
<1>4. o # u => PairOK(u, o)
  BY <1>1, <1>2 DEF PairsOK
<1>5. o = u => Avatar(u)
  BY <1>1, <1>2 DEF Avatars
<1> QED  BY <1>3, <1>4, <1>5 DEF PairOK, Avatar

LEMMA CleanPromises ==
  ASSUME IInv
  PROVE  ShownIsListed /\ ListedIsSeen /\ Placed
<1>1. ASSUME NEW u \in Users, NEW o \in Objects, Clean(u, o), o # u
      PROVE  /\ screen[u][o].how = IF o \in view_list[u] THEN "shown" ELSE "none"
             /\ o \notin invisible => (o \in view_list[u] <=> can_see(u, o))
  BY <1>1, CleanIsSound DEF Sound, Tidy
<1>2. ASSUME NEW u \in Users, NEW o \in Objects, Clean(u, o), screen[u][o].how = "shown"
      PROVE  screen[u][o].x = pos[o]
  <2>1. InPlace(u, o)
    BY <1>2, CleanIsSound DEF Sound
  <2> QED  BY <1>2, <2>1 DEF InPlace
<1> QED  BY <1>1, <1>2 DEF ShownIsListed, ListedIsSeen, Placed

\* ShownIsListed: between two objects whose handlers never overlapped, the
\* client shows exactly what the server's view_list of its user holds, for any
\* number of users, monsters, cells and workers.
THEOREM ShownIsListedHolds == Spec => []ShownIsListed
BY CleanPromises, Invariance, PTL

\* ListedIsSeen: ... and that list holds exactly what is within VIEW_RANGE, so
\* two users of such a pair list each other or neither.
THEOREM ListedIsSeenHolds == Spec => []ListedIsSeen
BY CleanPromises, Invariance, PTL

\* Placed: ... and what is shown is shown on the cell where the server has it,
\* the client's own avatar included.
THEOREM PlacedHolds == Spec => []Placed
BY CleanPromises, Invariance, PTL

-----------------------------------------------------------------------------
(* A move that nobody runs beside. *)

\* A worker marked alone has no other one beside it while it runs.
Lone == \A t \in alone : Active(t) => \A x \in Threads \ {t} : ~Active(x)

\* What the scan of u's move has found wrong with u's list, its packets mend:
\* each of them makes the list more like what is in sight, and whatever differs
\* still has one coming.
Mending(u, k) ==
  /\ \A p \in Packets : p.to = u /\ Due(k, p) =>
       /\ p.op = "add" => p.of \in Alive(u)
       /\ p.op = "remove" => p.of \notin Alive(u)
  /\ \A o \in Objects :
       \/ o \in view_list[u] <=> o \in Alive(u)
       \/ \E p \in Packets : p.to = u /\ p.of = o /\ p.op # "move" /\ Due(k, p)
Mends(u, k) ==
  /\ k.pc = "scan" => k.old = view_list[u]
  /\ k.pc \in {"build", "send"} => Mending(u, k)
Solo ==
  \A u \in Users : u \in alone /\ Active(u) /\ task[u].kind = "move" =>
    task[u].who = u /\ u \in ingame /\ Mends(u, task[u])

SoloInv == Types /\ Lone /\ Solo

\* Beside a new handler nobody is alone.
LEMMA BeginLone ==
  ASSUME Types, Lone, NEW t \in Threads, NEW k \in Tasks, TaskOK(k), Begin(t, k)
  PROVE  /\ Lone'
         /\ \A u \in alone' : Active(u)' => u = t
         /\ task'[t] = k /\ task[t] = Idle /\ \A x \in Threads \ {t} : task'[x] = task[x]
<1>1. /\ \A x \in Threads \ {t} : task'[x] = task[x]
      /\ task'[t] = k /\ task[t] = Idle
  BY BeginTypes
<1>2. Beside(t) = {x \in Threads \ {t} : Active(x)}
  BY BesideIs DEF Active
<1>3. alone' = IF Beside(t) = {} THEN alone \cup {t} ELSE alone \ (Beside(t) \cup {t})
  BY DEF Begin
<1>4. alone \subseteq Threads
  BY DEF Types
<1>5. ASSUME NEW u \in alone', Active(u)', u # t  PROVE FALSE
  <2>1. u \in alone /\ u \in Threads
    BY <1>3, <1>4, <1>5
  <2>2. u \in Beside(t)
    BY <1>1, <1>2, <1>5, <2>1 DEF Active
  <2> QED  BY <1>3, <1>5, <2>2
<1>6. ASSUME t \in alone', NEW x \in Threads \ {t}, Active(x)'  PROVE FALSE
  <2>1. x \in Beside(t)
    BY <1>1, <1>2, <1>6 DEF Active
  <2> QED  BY <1>3, <1>6, <2>1
<1>7. Lone'
  BY <1>5, <1>6 DEF Lone
<1> QED  BY <1>1, <1>5, <1>7

\* ... and beside one that goes on, neither.
LEMMA SetLone ==
  ASSUME Types, Lone, NEW t \in Threads, Active(t), NEW k \in Tasks, Set(t, k), alone' = alone
  PROVE  /\ Lone'
         /\ \A u \in alone : Active(u) \/ Active(u)' => u = t
         /\ task'[t] = k /\ \A x \in Threads \ {t} : task'[x] = task[x]
<1>1. (\A x \in Threads \ {t} : task'[x] = task[x]) /\ task'[t] = k
  BY DEF Set, Types
<1>2. \A x \in Threads : Active(x)' => Active(x)
  BY <1>1 DEF Active
<1>3. alone \subseteq Threads
  BY DEF Types
<1>4. Lone'
  BY <1>2, <1>3 DEF Lone
<1>5. ASSUME NEW u \in alone, Active(u) \/ Active(u)'  PROVE u = t
  <2>1. Active(u) /\ u \in Threads
    BY <1>2, <1>3, <1>5
  <2> QED  BY <2>1 DEF Lone
<1> QED  BY <1>1, <1>4, <1>5

\* A handler of another kind than a move begins.
LEMMA BeginSolo ==
  ASSUME SoloInv, NEW t \in Threads, NEW k \in Tasks, TaskOK(k), Begin(t, k),
         k.kind = "move" /\ t \in Users => k.pc = "copy" /\ k.who = t /\ t \in ingame'
  PROVE  Lone' /\ Solo'
<1>1. Types /\ Lone
  BY DEF SoloInv
<1>2. /\ Lone'
      /\ \A u \in alone' : Active(u)' => u = t
      /\ task'[t] = k
  BY <1>1, BeginLone
<1>3. Solo'
  BY <1>2 DEF Solo, Mends
<1> QED  BY <1>2, <1>3

\* The packets of a move to the one who moves.
LEMMA MoveUpdates ==
  ASSUME NEW w \in Users, NEW old \in SUBSET Objects, NEW new \in SUBSET Objects
  PROVE  LET U == Updates("move", w, old, new) IN
         /\ \A s \in U : \A p \in Elements(s) : p.to = w =>
              /\ p.op = "add" => p.of \in new
              /\ p.op = "remove" => p.of \notin new
         /\ \A o \in new \ old : \E s \in U : Packet("add", w, o) \in Elements(s)
         /\ \A o \in old \ new : \E s \in U : Packet("remove", w, o) \in Elements(s)
<1> DEFINE U == Updates("move", w, old, new)
<1>1. U = {Appear(w, b) : b \in new \ old} \cup {Stay(w, b) : b \in new \cap old}
          \cup {Vanish(w, b) : b \in old \ new}
  BY DEF Updates
<1>2. w \in Objects /\ "add" \in Ops /\ "remove" \in Ops /\ "move" \in Ops
  BY DEF Objects, Ops
<1>3. ASSUME NEW c \in Objects
      PROVE  /\ \A p \in Elements(Appear(w, c)) : p.op = "add" /\ (p.to = w => p.of = c)
             /\ \A p \in Elements(Stay(w, c)) : p.op = "move"
             /\ \A p \in Elements(Vanish(w, c)) : p.op = "remove" /\ (p.to = w => p.of = c)
             /\ Packet("add", w, c) \in Elements(Appear(w, c))
             /\ Packet("remove", w, c) \in Elements(Vanish(w, c))
  <2>1. \A op \in Ops : /\ Packet(op, w, c).op = op /\ Packet(op, w, c).of = c
                        /\ Packet(op, c, w).op = op /\ Packet(op, c, w).to = c /\ Packet(op, c, w).of = w
    BY DEF Packet
  <2>2. \A op \in Ops : \A p : p \in Elements(Pair(op, w, c)) <=>
          \/ w \in Users /\ p = Packet(op, w, c)
          \/ c \in Users /\ p = Packet(op, c, w)
    BY <1>2, PairMsg
  <2>3. \A p : p \in Elements(Tell("move", c, w)) <=> c \in Users /\ p = Packet("move", c, w)
    BY <1>2, TellMsg
  <2> QED  BY <1>2, <2>1, <2>2, <2>3 DEF Appear, Stay, Vanish
<1> HIDE DEF U
<1>4. ASSUME NEW s \in U, NEW p \in Elements(s), p.to = w
      PROVE  (p.op = "add" => p.of \in new) /\ (p.op = "remove" => p.of \notin new)
  <2>1. CASE \E b \in new \ old : s = Appear(w, b)
    BY <1>3, <1>4, <2>1
  <2>2. CASE \E b \in new \cap old : s = Stay(w, b)
    BY <1>3, <1>4, <2>2
  <2>3. CASE \E b \in old \ new : s = Vanish(w, b)
    BY <1>3, <1>4, <2>3
  <2> QED  BY <1>1, <2>1, <2>2, <2>3
<1>5. \A o \in new \ old : Appear(w, o) \in U
  BY <1>1
<1>6. \A o \in old \ new : Vanish(w, o) \in U
  BY <1>1
<1> QED  BY <1>3, <1>4, <1>5, <1>6 DEF U

\* What an Alive and the packets read stays the same.
LEMMA MendingFrame ==
  ASSUME NEW u, Alive(u)' = Alive(u), view_list'[u] = view_list[u],
         NEW t, NEW k, task'[t] = k, \A p \in Packets : Due(k, p) <=> Due(task[t], p),
         Mending(u, task[t])
  PROVE  Mending(u, task[t])'
<1>1. \A p : Due(task[t], p)' <=> Due(k, p)
  BY DEF Due, Elements
<1> QED  BY <1>1 DEF Mending, Packets

LEMMA AliveSame ==
  ASSUME NEW u, UNCHANGED <<registered, pos, invisible>>
  PROVE  Alive(u)' = Alive(u)
BY DEF Alive, InSight, can_see

LEMMA ScanSolo ==
  ASSUME SoloInv, NEW t \in Threads, Scan(t)
  PROVE  /\ Lone' /\ Solo'
         /\ t \in Users /\ task[t].kind = "move" /\ t \in alone => task'[t] # Idle
<1>1. Types /\ Lone /\ Solo
  BY DEF SoloInv
<1>2. UNCHANGED <<ingame, registered, pos, invisible, view_list, alone>>
      /\ task[t].pc = "scan" /\ Active(t)
  BY DEF Scan, world, life, past, Active
<1>3. PICK k \in Tasks : k = task[t] /\ TaskOK(k) /\ k.pc = "scan" /\ k.who \in Objects
  BY <1>1, <1>2, ScanIs, ScanTask
<1> DEFINE U == Updates(k.kind, k.who, k.old, Found(k.kind, k.who))
<1>4. PICK j \in Tasks :
        /\ TaskOK(j) /\ Set(t, j)
        /\ j.pc = "idle" \/ (j.pc = "build" /\ j.who = k.who /\ j.kind = k.kind)
        /\ \A p : Due(j, p) <=> \/ \E s \in U \ {<<>>} : p \in Elements(s)
                                \/ k.kind = "move" /\ p = Packet("move", k.who, k.who)
  <2> DEFINE h == task[t]
             P == Updates(h.kind, h.who, h.old, Found(h.kind, h.who)) \ {<<>>}
             j == Spread(h, P, {})
  <2>1. /\ j \in Tasks /\ TaskOK(j) /\ Set(t, j)
        /\ j.pc = "idle" \/ (j.pc = "build" /\ j.who = h.who /\ j.kind = h.kind)
        /\ \A p : Due(j, p) <=> \/ \E s \in P : p \in Elements(s)
                                \/ h.kind = "move" /\ p = Packet("move", h.who, h.who)
    BY <1>1, ScanIs, ScanTask
  <2>2. h = k /\ P = U \ {<<>>}
    BY <1>3
  <2> HIDE DEF j, P, h, U
  <2> QED  BY <2>1, <2>2
<1>5. \A p : Due(j, p) <=> \/ \E s \in U : p \in Elements(s)
                           \/ k.kind = "move" /\ p = Packet("move", k.who, k.who)
  BY <1>4, Empty
<1>6. /\ Lone'
      /\ \A u \in alone : Active(u) \/ Active(u)' => u = t
      /\ task'[t] = j
  BY <1>1, <1>2, <1>4, SetLone
<1>7. k.kind = "move" => task'[t] # Idle
  <2> SUFFICES ASSUME k.kind = "move", j = Idle PROVE FALSE
    BY <1>6
  <2>1. Due(j, Packet("move", k.who, k.who))
    BY <1>5
  <2>2. \A p : ~Due(Idle, p)
    BY Empty DEF Due, Idle, Task
  <2> QED  BY <2>1, <2>2
<1>8. Solo'
  <2> SUFFICES ASSUME NEW u \in Users, u \in alone', Active(u)', task'[u].kind = "move"
               PROVE  task'[u].who = u /\ u \in ingame' /\ Mends(u, task[u])'
    BY DEF Solo
  <2>1. u = t /\ u \in alone /\ task'[u] = j
    BY <1>2, <1>6
  <2>2. j.pc = "build" /\ j.who = k.who /\ k.kind = "move"
    BY <1>4, <2>1 DEF Active
  <2>3. k.who = u /\ u \in ingame /\ k.old = view_list[u]
    BY <1>1, <1>2, <1>3, <2>1, <2>2 DEF Solo, Mends
  <2>4. u \in Objects /\ Alive(u) \in SUBSET Objects /\ view_list[u] \in SUBSET Objects
    BY <1>1, LookTypes DEF Objects, Types
  <2>5. U = Updates("move", u, view_list[u], Alive(u))
    BY <2>2, <2>3 DEF Found
  <2>6. /\ \A s \in U : \A p \in Elements(s) : p.to = u =>
              /\ p.op = "add" => p.of \in Alive(u)
              /\ p.op = "remove" => p.of \notin Alive(u)
        /\ \A o \in Alive(u) \ view_list[u] : \E s \in U : Packet("add", u, o) \in Elements(s)
        /\ \A o \in view_list[u] \ Alive(u) : \E s \in U : Packet("remove", u, o) \in Elements(s)
    BY <2>4, <2>5, MoveUpdates
  <2> HIDE DEF U
  <2>7. Packet("move", u, u).op = "move"
    BY DEF Packet
  <2>8. \A p \in Packets : p.to = u /\ Due(j, p) =>
          /\ p.op = "add" => p.of \in Alive(u)
          /\ p.op = "remove" => p.of \notin Alive(u)
    BY <1>5, <2>3, <2>6, <2>7
  <2>9. ASSUME NEW o \in Objects
        PROVE  \/ o \in view_list[u] <=> o \in Alive(u)
               \/ \E p \in Packets : p.to = u /\ p.of = o /\ p.op # "move" /\ Due(j, p)
    <3>1. \A op \in {"add", "remove"} :
            /\ Packet(op, u, o) \in Packets /\ Packet(op, u, o).to = u
            /\ Packet(op, u, o).of = o /\ Packet(op, u, o).op # "move"
      BY DEF Packet, Packets
    <3>2. CASE o \in Alive(u) \ view_list[u]
      <4>1. Due(j, Packet("add", u, o))
        BY <1>5, <2>6, <3>2
      <4> QED  BY <3>1, <4>1
    <3>3. CASE o \in view_list[u] \ Alive(u)
      <4>1. Due(j, Packet("remove", u, o))
        BY <1>5, <2>6, <3>3
      <4> QED  BY <3>1, <4>1
    <3> QED  BY <3>2, <3>3
  <2>10. Alive(u)' = Alive(u)
    BY <1>2, AliveSame
  <2>11. \A p : Due(task[u], p)' <=> Due(j, p)
    BY <2>1 DEF Due, Elements
  <2>12. Mending(u, task[u])'
    BY <1>2, <2>8, <2>9, <2>10, <2>11 DEF Mending, Packets
  <2> QED  BY <1>2, <2>1, <2>2, <2>3, <2>12 DEF Mends
<1> QED  BY <1>3, <1>6, <1>7, <1>8

LEMMA CopySolo ==
  ASSUME SoloInv, NEW t \in Threads, Copy(t)
  PROVE  Lone' /\ Solo' /\ task'[t] # Idle
<1>1. Types /\ Lone /\ Solo
  BY DEF SoloInv
<1>2. UNCHANGED <<ingame, view_list, alone>> /\ task[t].pc = "copy" /\ Active(t)
  BY DEF Copy, world, past, Active
<1>3. PICK j \in Tasks :
        /\ task[t].kind = "move"
        /\ TaskOK(j) /\ Set(t, j)
        /\ j.pc = "scan" /\ j.kind = "move" /\ j.who = task[t].who /\ j.old = view_list[task[t].who]
  BY <1>1, CopyTask
<1>4. /\ Lone'
      /\ \A u \in alone : Active(u) \/ Active(u)' => u = t
      /\ task'[t] = j
  BY <1>1, <1>2, <1>3, SetLone
<1>5. Solo'
  <2> SUFFICES ASSUME NEW u \in Users, u \in alone', Active(u)', task'[u].kind = "move"
               PROVE  task'[u].who = u /\ u \in ingame' /\ Mends(u, task[u])'
    BY DEF Solo
  <2>1. u = t /\ u \in alone
    BY <1>2, <1>4
  <2>2. task[u].who = u /\ u \in ingame
    BY <1>1, <1>2, <1>3, <2>1 DEF Solo
  <2> QED  BY <1>2, <1>3, <1>4, <2>1, <2>2 DEF Mends
<1>6. j # Idle
  BY <1>3 DEF Idle, Task
<1> QED  BY <1>4, <1>5, <1>6

LEMMA StepSolo ==
  ASSUME SoloInv, NEW t \in Threads, Step(t)
  PROVE  Lone' /\ Solo' /\ task'[t] # Idle
<1>1. Types /\ Lone /\ Solo
  BY DEF SoloInv
<1>2. alone' = alone /\ task[t].pc = "step" /\ Active(t)
  BY DEF Step, past, Active
<1>3. PICK j \in Tasks : Set(t, j) /\ j.pc = "scan" /\ j.kind = "npc"
  BY <1>1, StepTask
<1>4. /\ Lone'
      /\ \A u \in alone : Active(u) \/ Active(u)' => u = t
      /\ task'[t] = j
  BY <1>1, <1>2, <1>3, SetLone
<1>5. Solo'
  BY <1>2, <1>3, <1>4 DEF Solo
<1>6. j # Idle
  BY <1>3 DEF Idle, Task
<1> QED  BY <1>4, <1>5, <1>6

LEMMA BuildSolo ==
  ASSUME SoloInv, NEW t \in Threads, Build(t)
  PROVE  Lone' /\ Solo' /\ task'[t] # Idle
<1>1. Types /\ Lone /\ Solo
  BY DEF SoloInv
<1>2. UNCHANGED <<ingame, registered, pos, invisible, alone>>
      /\ task[t].pc = "build" /\ Active(t)
  BY DEF Build, world, life, past, Active
<1>3. PICK p \in Packets, j \in Tasks :
           /\ Set(t, j) /\ view_list' = Listed(p)
           /\ j.pc = "send" /\ j.who = task[t].who /\ j.kind = task[t].kind
           /\ \A q : Due(task[t], q) => Due(j, q) \/ q = p
           /\ \A q : Due(j, q) => Due(task[t], q)
           /\ Due(task[t], p) \/ task[t].kind = "leave"
  BY <1>1, BuildStep
<1>4. /\ Lone'
      /\ \A u \in alone : Active(u) \/ Active(u)' => u = t
      /\ task'[t] = j
  BY <1>1, <1>2, <1>3, SetLone
<1>5. /\ \A u \in Users, o \in Objects : ~(p.to = u /\ p.of = o) =>
           (o \in view_list'[u] <=> o \in view_list[u])
      /\ p.op = "add" => p.of \in view_list'[p.to]
      /\ p.op = "remove" => p.of \notin view_list'[p.to]
      /\ p.op = "move" => view_list' = view_list
      /\ p.op \in {"add", "move", "remove"}
  BY <1>1, <1>3, ListedIs DEF Packets
<1>6. Solo'
  <2> SUFFICES ASSUME NEW u \in Users, u \in alone', Active(u)', task'[u].kind = "move"
               PROVE  task'[u].who = u /\ u \in ingame' /\ Mends(u, task[u])'
    BY DEF Solo
  <2>1. u = t /\ u \in alone /\ task'[u] = j
    BY <1>2, <1>4
  <2>2. task[u].who = u /\ u \in ingame /\ Mending(u, task[u]) /\ Due(task[t], p)
    BY <1>1, <1>2, <1>3, <2>1 DEF Solo, Mends
  <2>3. Alive(u)' = Alive(u)
    BY <1>2, AliveSame
  <2>4. \A q \in Packets : q.to = u /\ Due(j, q) =>
          /\ q.op = "add" => q.of \in Alive(u)
          /\ q.op = "remove" => q.of \notin Alive(u)
    BY <1>3, <2>1, <2>2 DEF Mending
  <2>5. ASSUME NEW o \in Objects
        PROVE  \/ o \in view_list'[u] <=> o \in Alive(u)
               \/ \E q \in Packets : q.to = u /\ q.of = o /\ q.op # "move" /\ Due(j, q)
    <3>1. CASE p.to = u /\ p.of = o /\ p.op # "move"
      BY <1>5, <2>1, <2>2, <3>1 DEF Mending
    <3>2. CASE ~(p.to = u /\ p.of = o /\ p.op # "move")
      <4>1. o \in view_list'[u] <=> o \in view_list[u]
        BY <1>5, <3>2
      <4>2. CASE o \in view_list[u] <=> o \in Alive(u)
        BY <4>1, <4>2
      <4>3. CASE \E q \in Packets : q.to = u /\ q.of = o /\ q.op # "move" /\ Due(task[u], q)
        BY <1>3, <2>1, <3>2, <4>3
      <4> QED  BY <2>2, <4>2, <4>3 DEF Mending
    <3> QED  BY <3>1, <3>2
  <2>6. \A q : Due(task[u], q)' <=> Due(j, q)
    BY <2>1 DEF Due, Elements
  <2>7. Mending(u, task[u])'
    BY <2>3, <2>4, <2>5, <2>6 DEF Mending, Packets
  <2> QED  BY <1>2, <1>3, <2>1, <2>2, <2>7 DEF Mends
<1>7. j # Idle
  BY <1>3 DEF Idle, Task
<1> QED  BY <1>4, <1>6, <1>7

LEMMA SendSolo ==
  ASSUME SoloInv, NEW t \in Threads, Send(t)
  PROVE  /\ Lone' /\ Solo'
         /\ t \in Users /\ task[t].kind = "move" /\ t \in alone /\ task'[t] = Idle =>
              view_list'[t] = Alive(t)
<1>1. Types /\ Lone /\ Solo
  BY DEF SoloInv
<1>2. UNCHANGED <<registered, pos, invisible, view_list, alone>>
      /\ task[t].pc = "send" /\ Active(t)
  BY DEF Send, life, past, Active
<1>3. PICK j \in Tasks :
           /\ TaskOK(j) /\ Set(t, j)
           /\ \A q : Due(j, q) <=> Due(task[t], q)
           /\ j.pc = "idle" \/ (j.pc = "build" /\ j.who = task[t].who /\ j.kind = task[t].kind)
           /\ ingame' = IF j.pc = "idle" /\ task[t].kind = "leave"
                        THEN ingame \ {task[t].who} ELSE ingame
  <2>1. PICK m \in task[t].out, j \in Tasks :
          /\ Sends(t, m, j) /\ j.pc \in {"idle", "build"}
          /\ ingame' = IF j.pc = "idle" /\ task[t].kind = "leave"
                       THEN ingame \ {task[t].who} ELSE ingame
    BY <1>1, SendStep
  <2> QED  BY <2>1 DEF Sends
<1>4. /\ Lone'
      /\ \A u \in alone : Active(u) \/ Active(u)' => u = t
      /\ task'[t] = j
  BY <1>1, <1>2, <1>3, SetLone
<1>5. Solo'
  <2> SUFFICES ASSUME NEW u \in Users, u \in alone', Active(u)', task'[u].kind = "move"
               PROVE  task'[u].who = u /\ u \in ingame' /\ Mends(u, task[u])'
    BY DEF Solo
  <2>1. u = t /\ u \in alone /\ task'[u] = j
    BY <1>2, <1>4
  <2>2. j.pc = "build" /\ j.who = task[u].who /\ task[u].kind = "move"
    BY <1>3, <2>1 DEF Active
  <2>3. task[u].who = u /\ u \in ingame /\ Mending(u, task[u])
    BY <1>1, <1>2, <2>1, <2>2 DEF Solo, Mends
  <2>4. Alive(u)' = Alive(u)
    BY <1>2, AliveSame
  <2>5. Mending(u, task[u])'
    BY <1>2, <1>3, <2>1, <2>3, <2>4, MendingFrame
  <2> QED  BY <1>3, <2>1, <2>2, <2>3, <2>5 DEF Mends
<1>6. ASSUME t \in Users, task[t].kind = "move", t \in alone, j = Idle
      PROVE  view_list'[t] = Alive(t)
  <2>1. Mending(t, task[t])
    BY <1>1, <1>2, <1>6 DEF Solo, Mends
  <2>2. \A p : ~Due(Idle, p)
    BY Empty DEF Due, Idle, Task
  <2>3. \A o \in Objects : o \in view_list[t] <=> o \in Alive(t)
    BY <1>3, <1>6, <2>1, <2>2 DEF Mending
  <2>4. t \in Objects /\ view_list[t] \subseteq Objects
    BY <1>1, <1>6 DEF Objects, Types
  <2>5. Alive(t) \subseteq Objects
    BY <1>1, <2>4, LookTypes
  <2>6. view_list[t] = Alive(t)
    BY <2>3, <2>4, <2>5
  <2> QED  BY <1>2, <2>6
<1> QED  BY <1>4, <1>5, <1>6

LEMMA RegenSolo ==
  ASSUME SoloInv, NEW o \in Objects, Regen(o)
  PROVE  Lone' /\ Solo' /\ (task' = task \/ \E k \in Tasks : TaskOK(k) /\ k # Idle /\ Begin(Other, k))
<1>1. Types /\ Lone /\ Solo
  BY DEF SoloInv
<1>2. /\ invisible' = invisible \ {o} /\ UNCHANGED <<ingame, registered, pos, view_list>>
      /\ Other \in Threads /\ Other \notin Users
  BY ObjectAssumption DEF Regen, Threads, Objects
<1>3. CASE \E u \in ingame : can_see(o, u)
  <2>1. PICK k \in Tasks : k = Task("scan", "regen", o, {}, {}, <<>>) /\ TaskOK(k)
    BY NewTask
  <2>2. Begin(Other, k) /\ k.kind = "regen" /\ k # Idle
    BY <1>3, <2>1 DEF Regen, Task, Idle
  <2> QED  BY <1>2, <2>1, <2>2, BeginSolo
<1>4. CASE ~\E u \in ingame : can_see(o, u)
  <2>1. UNCHANGED <<task, alone>>
    BY <1>4 DEF Regen
  <2>2. Lone'
    BY <1>1, <2>1 DEF Lone, Active
  <2>3. Solo'
    <3> SUFFICES ASSUME NEW u \in Users, u \in alone', Active(u)', task'[u].kind = "move"
                 PROVE  task'[u].who = u /\ u \in ingame' /\ Mends(u, task[u])'
      BY DEF Solo
    <3>1. task[u].who = u /\ u \in ingame /\ Mends(u, task[u])
      BY <1>1, <2>1 DEF Solo, Active
    <3>2. ~can_see(u, o)
      BY <1>1, <1>4, <3>1, SeeSym DEF Objects
    <3>3. InSight(u)' = InSight(u) /\ o \notin InSight(u)
      BY <1>2, <3>2 DEF InSight, can_see
    <3>4. Alive(u)' = Alive(u)
      BY <1>2, <3>3 DEF Alive
    <3>5. Mending(u, task[u]) => Mending(u, task[u])'
      BY <1>2, <2>1, <3>4, MendingFrame
    <3> QED  BY <1>2, <2>1, <3>1, <3>5 DEF Mends
  <2> QED  BY <2>1, <2>2, <2>3
<1> QED  BY <1>3, <1>4

\* A step keeps SoloInv, and ends a move alone with the list mended.
LEMMA NextSolo ==
  ASSUME SoloInv, [Next]_vars
  PROVE  /\ SoloInv'
         /\ \A u \in Users : task[u].kind = "move" /\ u \in alone /\ task'[u] = Idle =>
              view_list'[u] = Alive(u)
<1> DEFINE Good == \A u \in Users : task[u].kind = "move" /\ u \in alone /\ task'[u] = Idle =>
                     view_list'[u] = Alive(u)
<1>1. Types /\ Types' /\ Lone /\ Solo
  BY NextTypes DEF SoloInv
<1>2. Idle.kind = "none" /\ Users \subseteq Threads /\ Npcs \subseteq Threads /\ Other \in Threads
      /\ Idle.pc = "idle"
  BY DEF Idle, Task, Threads, Objects
<1>3. ASSUME NEW t \in Threads, NEW k \in Tasks, TaskOK(k), Begin(t, k), k # Idle
      PROVE  Good
  <2>1. task'[t] = k /\ \A x \in Threads \ {t} : task'[x] = task[x]
    BY <1>1, <1>3, BeginLone
  <2> QED  BY <1>2, <1>3, <2>1
<1>4. ASSUME NEW t \in Threads, \A x \in Threads \ {t} : task'[x] = task[x],
             t \in Users /\ task[t].kind = "move" /\ t \in alone /\ task'[t] = Idle => view_list'[t] = Alive(t)
      PROVE  Good
  BY <1>2, <1>4
<1>5. CASE UNCHANGED vars
  <2>1. UNCHANGED <<ingame, registered, pos, invisible, view_list, task, alone>>
    BY <1>5 DEF vars, world, life, past
  <2>2. \A u : Alive(u)' = Alive(u)
    BY <2>1, AliveSame
  <2>3. Lone'
    BY <1>1, <2>1 DEF Lone, Active
  <2>4. Solo'
    <3> SUFFICES ASSUME NEW u \in Users, u \in alone', Active(u)', task'[u].kind = "move"
                 PROVE  task'[u].who = u /\ u \in ingame' /\ Mends(u, task[u])'
      BY DEF Solo
    <3>1. task[u].who = u /\ u \in ingame /\ Mends(u, task[u])
      BY <1>1, <2>1 DEF Solo, Active
    <3>2. Mending(u, task[u]) => Mending(u, task[u])'
      BY <2>1, <2>2, MendingFrame
    <3> QED  BY <2>1, <3>1, <3>2 DEF Mends
  <2> QED  BY <1>1, <1>2, <2>1, <2>3, <2>4 DEF SoloInv
<1>6. ASSUME NEW u \in Users, Login(u)  PROVE Lone' /\ Solo' /\ Good
  <2>1. PICK k \in Tasks : k = Task("scan", "login", u, {}, {}, <<>>) /\ TaskOK(k)
    BY NewTask DEF Objects
  <2>2. Begin(u, k) /\ k.kind = "login" /\ k # Idle
    BY <1>6, <2>1 DEF Login, Task, Idle
  <2> QED  BY <1>2, <1>3, <2>1, <2>2, BeginSolo
<1>7. ASSUME NEW u \in Users, NEW t \in {u, Other}, u \in ingame, UNCHANGED ingame,
             Begin(t, Task("copy", "move", u, {}, {}, <<>>))
      PROVE  Lone' /\ Solo' /\ Good
  <2>1. PICK k \in Tasks : k = Task("copy", "move", u, {}, {}, <<>>) /\ TaskOK(k)
    BY NewTask DEF Objects
  <2>2. Begin(t, k) /\ k.pc = "copy" /\ k.who = u /\ k # Idle
    BY <1>7, <2>1 DEF Task, Idle
  <2>3. t \in Users => t = u
    BY ObjectAssumption DEF Objects
  <2> QED  BY <1>2, <1>3, <1>7, <2>1, <2>2, <2>3, BeginSolo
<1>8. ASSUME NEW u \in Users, Disconnect(u)  PROVE Lone' /\ Solo' /\ Good
  <2> DEFINE near == {v \in ingame \ {u} : can_see(u, v)}
  <2>1. near \in SUBSET Users
    BY <1>1 DEF Types
  <2>2. Begin(Other, Leaving(u, near))
    BY <1>8 DEF Disconnect, Leaving
  <2> HIDE DEF near
  <2>3. PICK k \in Tasks : k = Leaving(u, near) /\ TaskOK(k) /\ k.kind = "leave"
    BY <1>1, <2>1, LeaveTask
  <2>4. k # Idle
    BY <1>2, <2>3
  <2> QED  BY <1>2, <1>3, <2>2, <2>3, <2>4, BeginSolo
<1>9. ASSUME NEW u \in Users, Kill(u)  PROVE Lone' /\ Solo' /\ Good
  <2>1. PICK K \in SUBSET view_list[u] : K # {} /\ Begin(u, Killing(u, K))
    BY <1>9 DEF Kill, Killing
  <2>2. K \in SUBSET Objects
    BY <1>1, <2>1 DEF Types
  <2>3. PICK k \in Tasks : k = Killing(u, K) /\ TaskOK(k) /\ k.kind = "kill"
    BY <1>1, <2>1, <2>2, KillTask
  <2>4. k # Idle
    BY <1>2, <2>3
  <2> QED  BY <1>2, <1>3, <2>1, <2>3, <2>4, BeginSolo
<1>10. ASSUME NEW n \in Npcs, NpcMove(n)  PROVE Lone' /\ Solo' /\ Good
  <2>1. PICK k \in Tasks : k = Task("step", "npc", n, InSight(n), {}, <<>>) /\ TaskOK(k)
    BY <1>1, NewTask, LookTypes DEF Objects
  <2>2. Begin(n, k) /\ k.kind = "npc" /\ k # Idle
    BY <1>10, <2>1 DEF NpcMove, Task, Idle
  <2> QED  BY <1>2, <1>3, <2>1, <2>2, BeginSolo
<1>11. ASSUME NEW o \in Objects, Regen(o)  PROVE Lone' /\ Solo' /\ Good
  <2>1. Lone' /\ Solo' /\ (task' = task \/ \E k \in Tasks : TaskOK(k) /\ k # Idle /\ Begin(Other, k))
    BY <1>11, RegenSolo
  <2> QED  BY <1>2, <1>3, <2>1
<1>12. ASSUME NEW t \in Threads, Copy(t) \/ Step(t) \/ Scan(t) \/ Build(t) \/ Send(t)
       PROVE  Lone' /\ Solo' /\ Good
  <2>1. \A x \in Threads \ {t} : task'[x] = task[x]
    BY <1>1, <1>12 DEF Copy, Step, Scan, Build, Send, Set, Types
  <2>2. Lone' /\ Solo'
    BY <1>12, CopySolo, StepSolo, ScanSolo, BuildSolo, SendSolo
  <2>3. t \in Users /\ task[t].kind = "move" /\ t \in alone /\ task'[t] = Idle => view_list'[t] = Alive(t)
    BY <1>12, CopySolo, StepSolo, ScanSolo, BuildSolo, SendSolo
  <2> QED  BY <1>4, <2>1, <2>2, <2>3
<1> HIDE DEF Good
<1>13. SoloInv' /\ Good
  BY <1>1, <1>5, <1>6, <1>7, <1>8, <1>9, <1>10, <1>11, <1>12 DEF Next, Move, Death, SoloInv, Good, vars
<1> QED  BY <1>13 DEF Good

LEMMA InitSolo == Init => SoloInv
<1> SUFFICES ASSUME Init PROVE SoloInv
  OBVIOUS
<1>1. Types
  BY InitTypes
<1>2. alone = {}
  BY DEF Init
<1> QED  BY <1>1, <1>2 DEF SoloInv, Lone, Solo

\* SoloMoveRepairs: however wrong earlier races have left a user's view_list, a
\* CS_MOVE of that user beside which no other handler has run ends with exactly
\* the objects in sight in it, for any users, monsters, cells and workers.
THEOREM SoloMoveRepairsHolds == Spec => SoloMoveRepairs
<1>1. Init => SoloInv
  BY InitSolo
<1>2. SoloInv /\ [Next]_vars => SoloInv'
  BY NextSolo
<1>3. SoloInv /\ [Next]_vars =>
        [\A u \in Users : task[u].kind = "move" /\ u \in alone /\ task'[u] = Idle =>
           view_list'[u] = Alive(u)]_vars
  BY NextSolo
<1> QED  BY <1>1, <1>2, <1>3, PTL DEF Spec, SoloMoveRepairs

\* GoneIsForgotten, in the game: a slot that stands in no sector list has never
\* been used, and nobody's list or table knows it.
THEOREM GoneIsForgottenHolds == Spec => []GoneIsForgotten
<1>1. ASSUME IInv, Game  PROVE GoneIsForgotten
  <2> SUFFICES ASSUME NEW u \in ingame, NEW v \in Users \ registered
               PROVE  v \notin view_list[u] /\ screen[u][v].how = "none"
    BY DEF GoneIsForgotten
  <2>1. u \in Users /\ Fresh(v)
    BY <1>1 DEF IInv, Types, Unknown, Game
  <2> QED  BY <2>1 DEF Fresh, Nothing, Entry
<1> QED  BY <1>1, Invariance, PTL

-----------------------------------------------------------------------------
(* The lesson.  Its handlers are followed like the game's, and two things   *)
(* more: what a move means to store is what is in sight, and what a leaver  *)
(* has not told a user yet.  Nobody is ever dead in it, and who is in no    *)
(* session is in no scan.                                                   *)

Ground == invisible = {} /\ registered = Npcs \cup ingame

\* Before o is gone, every packet for u about it takes it away; if there is
\* none left, u has none of it.
Parting(u, o, k) ==
  /\ \A p \in Packets : p.to = u /\ p.of = o /\ Due(k, p) => p.op = "remove"
  /\ \A m \in k.out : m.p.to = u /\ m.p.of = o => m.p.op = "remove" /\ o \notin view_list[u]
  /\ Quiet(u, o, k) => o \notin view_list[u] /\ screen[u][o].how = "none"

\* A handler k about one of u and o.
Lesson(u, o, k) ==
  /\ k.kind = "bye" /\ k.who = o => Parting(u, o, k)
  /\ k.kind = "move" /\ k.who = u /\ k.pc \in {"build", "send", "store"} =>
       (o \in k.old <=> can_see(u, o))
LessonOK(u, o) == \A t \in Threads : Active(t) /\ task[t].who \in {u, o} => Lesson(u, o, task[t])

\* u has nothing of v, and nobody is about to tell it.
Gone(u, v) ==
  /\ v \notin view_list[u] /\ screen[u][v].how = "none"
  /\ \A t \in Threads : Active(t) =>
       task[t].who # v /\ (task[t].who = u => Absent(v, task[t]))

Lessons == \A u \in ingame, o \in Npcs \cup ingame : o # u /\ <<u, o>> \notin dirty => LessonOK(u, o)
Goners  == \A u \in ingame, v \in Users \ ingame : <<u, v>> \notin dirty => Gone(u, v)

LInv == IInv /\ Ground /\ Lessons /\ Goners

\* A step that a handler of neither u nor o makes.
LEMMA LessonFrame ==
  ASSUME Types, NEW u \in Users, NEW o \in Objects, Same(u, o), LessonOK(u, o),
         \A x \in Threads : Active(x)' /\ task'[x].who \in {u, o} => task'[x] = task[x]
  PROVE  LessonOK(u, o)'
<1> SUFFICES ASSUME NEW x \in Threads, Active(x)', task'[x].who \in {u, o}
             PROVE  Lesson(u, o, task[x])'
  BY DEF LessonOK
<1>1. task'[x] = task[x] /\ Active(x) /\ Lesson(u, o, task[x])
  BY DEF LessonOK, Active
<1>2. can_see(u, o)' <=> can_see(u, o)
  BY SameMeans
<1>3. ASSUME Parting(u, o, task[x])  PROVE Parting(u, o, task[x])'
  <2>1. \A p : (Due(task[x], p)' <=> Due(task[x], p)) /\ (Sent(task[x], p)' <=> Sent(task[x], p))
    BY <1>1 DEF Due, Sent, Elements
  <2>2. Quiet(u, o, task[x])' => Quiet(u, o, task[x])
    BY <2>1 DEF Quiet, Packets
  <2> QED  BY <1>1, <1>3, <2>1, <2>2 DEF Parting, Same, Packets
<1> QED  BY <1>1, <1>2, <1>3 DEF Lesson

\* A handler begins: a move has not looked around, and a leaver is parting.
LEMMA BeginLessons ==
  ASSUME Types, Lessons, NEW t \in Threads, NEW k \in Tasks, TaskOK(k), k.pc # "idle", Begin(t, k),
         dirty \cup Met(t, k.who) \subseteq dirty', ingame' \subseteq Users,
         ingame' \subseteq ingame \cup {k.who},
         view_list' = view_list, invisible' = invisible,
         \A a \in Objects : a # k.who => pos'[a] = pos[a],
         \A a \in Users : a # k.who => screen'[a] = screen[a],
         k.kind = "move" => k.pc = "copy",
         \A u \in ingame' : k.kind = "bye" /\ u # k.who /\ <<u, k.who>> \notin dirty' =>
           Parting(u, k.who, task[t])'
  PROVE  Lessons'
<1> SUFFICES ASSUME NEW u \in ingame', NEW o \in Npcs \cup ingame', o # u, <<u, o>> \notin dirty'
             PROVE  LessonOK(u, o)'
  BY DEF Lessons
<1>1. /\ \A x \in Threads \ {t} : task'[x] = task[x]
      /\ task'[t] = k /\ task[t] = Idle
  BY BeginTypes
<1>2. /\ u \in Users /\ u \in Objects /\ o \in Objects /\ k.who \in Objects
      /\ <<u, o>> \notin dirty /\ <<u, o>> \notin Met(t, k.who)
  BY DEF Objects, TaskOK, KindOK
<1>3. CASE k.who \notin {u, o}
  <2>1. Same(u, o)
    BY <1>2, <1>3 DEF Same
  <2>2. LessonOK(u, o)
    BY <1>2, <1>3 DEF Lessons
  <2>3. \A x \in Threads : Active(x)' /\ task'[x].who \in {u, o} => task'[x] = task[x]
    BY <1>1, <1>3
  <2> QED  BY <1>2, <2>1, <2>2, <2>3, LessonFrame
<1>4. CASE k.who \in {u, o}
  <2>1. \A x \in Threads : Active(x) => task[x].who \notin {u, o}
    BY <1>1, <1>2, <1>4, AloneAtFirst
  <2>2. \A x \in Threads : Active(x)' /\ task'[x].who \in {u, o} => x = t
    BY <1>1, <2>1 DEF Active
  <2>3. Lesson(u, o, task[t])'
    BY <1>1 DEF Lesson
  <2> QED  BY <2>2, <2>3 DEF LessonOK
<1> QED  BY <1>3, <1>4

\* ... and one goes on.
LEMMA SetLessons ==
  ASSUME Types, Apart, Symmetric, Lessons, NEW t \in Threads, Active(t), NEW j \in Tasks, Set(t, j),
         j.pc # "idle" => j.who = task[t].who,
         dirty' = dirty, ingame' \subseteq ingame,
         \A u \in Users, o \in Objects : task[t].who \notin {u, o} => Same(u, o),
         \A u \in ingame, o \in Npcs \cup ingame :
           o # u /\ <<u, o>> \notin dirty /\ task[t].who \in {u, o} /\ j.pc # "idle" =>
             (LessonOK(u, o) => Lesson(u, o, task[t])')
  PROVE  Lessons'
<1> SUFFICES ASSUME NEW u \in ingame', NEW o \in Npcs \cup ingame', o # u, <<u, o>> \notin dirty'
             PROVE  LessonOK(u, o)'
  BY DEF Lessons
<1>1. task'[t] = j /\ \A x \in Threads \ {t} : task'[x] = task[x]
  BY DEF Set, Types
<1>2. u \in Users /\ u \in Objects /\ o \in Objects /\ <<u, o>> \notin dirty /\ u \in ingame /\ o \in Npcs \cup ingame
  BY DEF Objects, Types
<1>3. LessonOK(u, o)
  BY <1>2 DEF Lessons
<1>4. CASE task[t].who \notin {u, o}
  <2>1. \A x \in Threads : Active(x)' /\ task'[x].who \in {u, o} => task'[x] = task[x]
    BY <1>1, <1>4 DEF Active
  <2> QED  BY <1>2, <1>3, <1>4, <2>1, LessonFrame
<1>5. CASE task[t].who \in {u, o}
  <2>1. \A x \in Threads \ {t} : Active(x) => task[x].who \notin {u, o}
    BY <1>2, <1>5, AloneOn
  <2>2. \A x \in Threads : Active(x)' /\ task'[x].who \in {u, o} => x = t
    BY <1>1, <2>1 DEF Active
  <2>3. Active(t)' => Lesson(u, o, task[t])'
    BY <1>1, <1>2, <1>3, <1>5 DEF Active
  <2> QED  BY <2>2, <2>3 DEF LessonOK
<1> QED  BY <1>4, <1>5

\* Who is gone stays so.
LEMMA BeginGone ==
  ASSUME Types, NEW u \in Users, NEW v \in Users, Gone(u, v),
         NEW t \in Threads, NEW k \in Tasks, TaskOK(k), Begin(t, k),
         view_list'[u] = view_list[u], screen'[u][v] = screen[u][v],
         k.who # v, k.who = u => Absent(v, k)
  PROVE  Gone(u, v)'
<1>1. /\ \A x \in Threads \ {t} : task'[x] = task[x]
      /\ task'[t] = k
  BY BeginTypes
<1>2. ASSUME NEW x \in Threads, Active(x)'
      PROVE  task'[x].who # v /\ (task'[x].who = u => Absent(v, task'[x]))
  BY <1>1, <1>2 DEF Gone, Active
<1>3. \A x : Absent(v, task'[x]) => Absent(v, task[x])'
  BY Zenon DEF Absent, Packets, Due, Sent, Elements
<1> QED  BY <1>2, <1>3 DEF Gone

LEMMA SetGone ==
  ASSUME Types, NEW u \in Users, NEW v \in Users, Gone(u, v),
         NEW t \in Threads, Active(t), NEW j \in Tasks, Set(t, j),
         j.pc # "idle" => j.who = task[t].who,
         v \notin view_list'[u], screen'[u][v].how = "none",
         task[t].who = u /\ Absent(v, task[t]) /\ j.pc # "idle" => Absent(v, j)
  PROVE  Gone(u, v)'
<1>1. task'[t] = j /\ \A x \in Threads \ {t} : task'[x] = task[x]
  BY DEF Set, Types
<1>2. ASSUME NEW x \in Threads, Active(x)'
      PROVE  task'[x].who # v /\ (task'[x].who = u => Absent(v, task'[x]))
  BY <1>1, <1>2 DEF Gone, Active
<1>3. \A x : Absent(v, task'[x]) => Absent(v, task[x])'
  BY Zenon DEF Absent, Packets, Due, Sent, Elements
<1> QED  BY <1>2, <1>3 DEF Gone

LEMMA BeatLooksSame ==
  ASSUME NEW o
  PROVE  /\ BeatInSight(o) = InSight(o)
         /\ Ground => Alive(o) = InSight(o)
BY DEF BeatInSight, InSight, Alive, Ground

\* Handlers begin that know of nobody but who is there.
LEMMA BeginGoners ==
  ASSUME Types, Ground, Goners, NEW t \in Threads, NEW k \in Tasks, TaskOK(k), Begin(t, k),
         UNCHANGED <<ingame, view_list, screen>>, dirty \subseteq dirty',
         k.who \in registered, k.old \subseteq registered, k.out = {},
         \A p \in Packets : Due(k, p) => p.to \in registered /\ p.of \in registered
  PROVE  Goners'
<1> SUFFICES ASSUME NEW u \in ingame, NEW v \in Users \ ingame, <<u, v>> \notin dirty'
             PROVE  Gone(u, v)'
  BY DEF Goners
<1>1. u \in Users /\ Gone(u, v) /\ v \notin registered
  BY ObjectAssumption DEF Goners, Types, Ground
<1>2. \A p : ~Sent(k, p)
  BY DEF Sent
<1>3. k.who # v /\ Absent(v, k)
  BY <1>1, <1>2 DEF Absent
<1> QED  BY <1>1, <1>3, BeginGone

LEMMA BeatLoginKeeps ==
  ASSUME LInv, NEW u \in Users, BeatLogin(u)
  PROVE  LInv'
<1>1. IInv /\ Types /\ Marks /\ Unknown /\ Ground /\ Lessons /\ Goners
  BY DEF LInv, IInv
<1>2. u \in Objects /\ u \in Threads /\ u \notin ingame
      /\ UNCHANGED <<life, view_list>> /\ registered' = registered \cup {u}
      /\ ingame' = ingame \cup {u} /\ used' = used \cup {u}
      /\ dirty' = dirty \cup Met(u, u) \cup (IF u \in used THEN Pairs(u) ELSE {})
  BY DEF Objects, Threads, BeatLogin
<1>3. Login(u)
  BY <1>1 DEF BeatLogin, Login, Ground, life
<1>4. IInv'
  BY <1>1, <1>3, LoginKeeps
<1>5. Ground'
  BY <1>1, <1>2 DEF Ground, life
<1> PICK c \in Cells :
        /\ pos' = [pos EXCEPT ![u] = c]
        /\ screen' = [screen EXCEPT ![u] = [o \in Objects |-> IF o = u THEN Entry("shown", c) ELSE Nothing]]
  BY DEF BeatLogin
<1>6. /\ \A a \in Objects : a # u => pos'[a] = pos[a]
      /\ \A a \in Users : a # u => screen'[a] = screen[a]
      /\ \A o \in Objects : o # u => screen'[u][o] = Nothing
  <2>1. pos \in [Objects -> Cells] /\ screen \in [Users -> [Objects -> Screens]]
    BY <1>1 DEF Types
  <2> QED  BY <1>2, <2>1
<1>7. PICK k \in Tasks : /\ k = Task("scan", "login", u, {}, {}, <<>>)
                         /\ TaskOK(k) /\ \A p : ~Due(k, p) /\ ~Sent(k, p)
  BY <1>2, NewTask
<1>8. k.pc = "scan" /\ k.kind = "login" /\ k.who = u /\ k.old = {} /\ Begin(u, k)
  BY <1>7 DEF Task, BeatLogin
<1>9. Lessons'
  <2>1. ingame' \subseteq Users /\ ingame' \subseteq ingame \cup {k.who} /\ dirty \cup Met(u, k.who) \subseteq dirty'
        /\ view_list' = view_list /\ invisible' = invisible
    BY <1>1, <1>2, <1>8 DEF Types, life
  <2>2. /\ \A a \in Objects : a # k.who => pos'[a] = pos[a]
        /\ \A a \in Users : a # k.who => screen'[a] = screen[a]
    BY <1>6, <1>8
  <2> QED  BY <1>1, <1>2, <1>7, <1>8, <2>1, <2>2, BeginLessons
<1>10. Goners'
  <2> SUFFICES ASSUME NEW a \in ingame', NEW v \in Users \ ingame', <<a, v>> \notin dirty'
               PROVE  Gone(a, v)'
    BY DEF Goners
  <2>1. a \in Users /\ v \in Objects /\ a # v /\ v # u /\ v \notin ingame /\ <<a, v>> \notin dirty
    BY <1>1, <1>2 DEF Types, Objects
  <2>2. Absent(v, k)
    BY <1>7, <1>8, <2>1 DEF Absent
  <2>3. CASE a # u
    <3>1. Gone(a, v)
      BY <1>1, <1>2, <2>1, <2>3 DEF Goners
    <3> QED  BY <1>1, <1>2, <1>6, <1>7, <1>8, <2>1, <2>2, <2>3, <3>1, BeginGone
  <2>4. CASE a = u
    <3>1. u \notin used
      BY <1>2, <2>1, <2>4, PairsIs
    <3>2. view_list[u] = {}
      BY <1>1, <3>1 DEF Unknown, Fresh
    <3>3. \A x \in Threads : Active(x) => task[x].who \notin {a, v}
      BY <1>1, <1>2, <1>8, <2>1, <2>4, AloneAtFirst DEF Begin
    <3>4. Gone(a, v)'
      <4>1. \A x \in Threads \ {u} : task'[x] = task[x]
        BY <1>1, <1>2, <1>7, <1>8, BeginTypes
      <4>2. task'[u] = k
        BY <1>1, <1>2, <1>7, <1>8, BeginTypes
      <4>3. \A x \in Threads : Active(x)' => task'[x].who # v /\ (task'[x].who = a => Absent(v, task'[x]))
        BY <1>8, <2>1, <2>2, <3>3, <4>1, <4>2 DEF Active
      <4>4. \A x : Absent(v, task'[x]) => Absent(v, task[x])'
        BY Zenon DEF Absent, Packets, Due, Sent, Elements
      <4>5. v \notin view_list'[a] /\ screen'[a][v].how = "none"
        BY <1>2, <1>6, <2>1, <2>4, <3>2 DEF Nothing, Entry
      <4> QED  BY <4>3, <4>4, <4>5 DEF Gone
    <3> QED  BY <3>4
  <2> QED  BY <2>3, <2>4
<1> QED  BY <1>4, <1>5, <1>9, <1>10 DEF LInv

LEMMA BeatMoveKeeps ==
  ASSUME LInv, NEW u \in Users, BeatMove(u)
  PROVE  LInv'
<1>1. IInv /\ Types /\ Ground /\ Lessons /\ Goners
  BY DEF LInv, IInv
<1>2. u \in Objects /\ u \in Threads /\ u \in ingame
      /\ UNCHANGED <<ingame, registered, life, view_list, screen, used>>
      /\ dirty' = dirty \cup Met(u, u)
  BY DEF Objects, Threads, BeatMove
<1> PICK c \in Cells : pos' = [pos EXCEPT ![u] = c]
  BY DEF BeatMove, Near
<1>3. IInv'
  BY <1>1, <1>2, WalkKeeps DEF BeatMove
<1>4. Ground'
  BY <1>1, <1>2 DEF Ground, life
<1>5. \A a \in Objects : a # u => pos'[a] = pos[a]
  BY <1>1 DEF Types
<1>6. PICK k \in Tasks : /\ k = Task("copy", "move", u, {}, {}, <<>>)
                         /\ TaskOK(k) /\ \A p : ~Due(k, p) /\ ~Sent(k, p)
  BY <1>2, NewTask
<1>7. k.pc = "copy" /\ k.kind = "move" /\ k.who = u /\ k.old = {} /\ k.out = {} /\ Begin(u, k)
  BY <1>6 DEF Task, BeatMove
<1>8. Lessons'
  <2>1. ingame' \subseteq Users /\ ingame' \subseteq ingame \cup {k.who} /\ dirty \cup Met(u, k.who) \subseteq dirty'
        /\ view_list' = view_list /\ invisible' = invisible /\ screen' = screen
    BY <1>1, <1>2, <1>7 DEF Types, life
  <2> QED  BY <1>1, <1>2, <1>5, <1>6, <1>7, <2>1, BeginLessons
<1>9. Goners'
  <2>1. k.who \in registered /\ dirty \subseteq dirty'
    BY <1>1, <1>2, <1>7 DEF Ground
  <2> QED  BY <1>1, <1>2, <1>6, <1>7, <2>1, BeginGoners
<1> QED  BY <1>3, <1>4, <1>8, <1>9 DEF LInv

LEMMA BeatNpcMoveKeeps ==
  ASSUME LInv, NEW n \in Npcs, NEW t \in Threads, BeatNpcMove(t, n)
  PROVE  LInv'
<1>1. IInv /\ Types /\ Ground /\ Lessons /\ Goners
  BY DEF LInv, IInv
<1>2. n \in Objects /\ n \notin invisible
      /\ UNCHANGED <<ingame, registered, pos, invisible, graves, view_list, screen, used>>
      /\ dirty' = dirty \cup Met(t, n)
  BY <1>1 DEF Objects, BeatNpcMove, world, life, Ground
<1>3. Begin(t, Task("step", "npc", n, InSight(n), {}, <<>>))
  BY BeatLooksSame DEF BeatNpcMove
<1>4. IInv'
  BY <1>1, <1>2, <1>3, RoamKeeps DEF BeatNpcMove
<1>5. Ground'
  BY <1>1, <1>2 DEF Ground
<1>6. PICK k \in Tasks : /\ k = Task("step", "npc", n, InSight(n), {}, <<>>)
                         /\ TaskOK(k) /\ \A p : ~Due(k, p) /\ ~Sent(k, p)
  BY <1>1, <1>2, NewTask, LookTypes
<1>7. k.pc = "step" /\ k.kind = "npc" /\ k.who = n /\ k.old = InSight(n) /\ k.out = {} /\ Begin(t, k)
  BY <1>3, <1>6 DEF Task
<1>8. Lessons'
  <2>1. ingame' \subseteq Users /\ ingame' \subseteq ingame \cup {k.who} /\ dirty \cup Met(t, k.who) \subseteq dirty'
    BY <1>1, <1>2, <1>7 DEF Types
  <2> QED  BY <1>1, <1>2, <1>6, <1>7, <2>1, BeginLessons
<1>9. Goners'
  <2>1. k.who \in registered /\ k.old \subseteq registered /\ dirty \subseteq dirty'
    BY <1>1, <1>2, <1>7 DEF Ground, InSight
  <2> QED  BY <1>1, <1>2, <1>6, <1>7, <2>1, BeginGoners
<1> QED  BY <1>4, <1>5, <1>8, <1>9 DEF LInv

\* What disconnect has to send: first to the session itself, then to both sides
\* of every pair in sight.
Bye(u, near) == Task("build", "bye", u, {}, {Vanish(u, b) : b \in near}, Tell("remove", u, u))

LEMMA ByeTask ==
  ASSUME NEW u \in Users, NEW near \in SUBSET Objects, u \notin near
  PROVE  LET k == Bye(u, near) IN
         /\ k \in Tasks /\ TaskOK(k)
         /\ k.pc = "build" /\ k.kind = "bye" /\ k.who = u /\ k.old = {} /\ k.out = {}
         /\ \A p \in Packets : \A b \in Objects \ {u} :
              Between(p, u, b) => (Due(k, p) <=> b \in near /\ p.op = "remove")
<1> DEFINE S == Updates("move", u, near, {})
<1> DEFINE m == Tell("remove", u, u)
<1> DEFINE k == Task("build", "bye", u, {}, S, m)
<1>1. u \in Objects /\ u \in Threads /\ "remove" \in Ops /\ {} \in SUBSET Objects
  BY DEF Objects, Threads, Ops
<1>2. {Vanish(u, b) : b \in near} = S
  BY DEF Updates
<1>3. k = Bye(u, near)
  BY <1>2 DEF Bye
<1>4. S \subseteq Msgs /\ \A s \in S : \A p \in Elements(s) : u \in {p.to, p.of}
  BY <1>1, UpdatesMsg
<1>5. /\ m \in Msgs /\ m # <<>>
      /\ \A p : p \in Elements(m) <=> p = Packet("remove", u, u)
  BY <1>1, TellMsg
<1>6. <<>> \notin S
  <2>1. \A b \in Objects : Vanish(u, b) # <<>>
    <3> TAKE b \in Objects
    <3>1. Packet("remove", u, b) \in Elements(Pair("remove", u, b))
      BY <1>1, PairMsg
    <3> QED  BY <3>1, Empty DEF Vanish
  <2> QED  BY <1>2, <2>1
<1>7. \A p \in Packets : \A b \in Objects \ {u} :
        Between(p, u, b) => ((\E s \in S : p \in Elements(s)) <=> b \in near /\ p.op = "remove")
  <2> TAKE p \in Packets
  <2> TAKE b \in Objects \ {u}
  <2> HAVE Between(p, u, b)
  <2>1. (\E s \in S : p \in Elements(s)) <=> Wanted("move", near, {}, b, p)
    BY <1>1, UpdatesDue
  <2> QED  BY <2>1 DEF Wanted
<1> HIDE DEF S, m
<1>8. /\ k.pc = "build" /\ k.kind = "bye" /\ k.who = u /\ k.old = {} /\ k.out = {}
      /\ k.todo = S /\ k.now = m
  BY DEF Task
<1>9. k \in Tasks
  BY <1>1, <1>4, <1>5 DEF Task, Tasks, Stages, Kinds
<1> HIDE DEF k
<1>10. \A p : Due(k, p) <=> (\E s \in S : p \in Elements(s)) \/ p = Packet("remove", u, u)
  BY <1>5, <1>8, Zenon DEF Due
<1>11. \A p \in Packets : Due(k, p) \/ Sent(k, p) => u \in {p.to, p.of}
  BY <1>4, <1>8, <1>10 DEF Packet, Sent
<1>12. KindOK(k)
  BY <1>1, <1>8 DEF KindOK
<1>13. TaskOK(k)
  BY <1>5, <1>6, <1>8, <1>11, <1>12 DEF TaskOK
<1>14. \A p \in Packets : \A b \in Objects \ {u} :
         Between(p, u, b) => (Due(k, p) <=> b \in near /\ p.op = "remove")
  BY <1>7, <1>10 DEF Between, Packet
<1> QED  BY <1>3, <1>8, <1>9, <1>13, <1>14

LEMMA BeatDisconnectKeeps ==
  ASSUME LInv, NEW u \in Users, BeatDisconnect(u)
  PROVE  LInv'
<1>1. IInv /\ Types /\ Ground /\ Lessons /\ Goners /\ Present /\ PairsOK
  BY DEF LInv, IInv, Marks
<1>2. u \in Objects /\ Other \in Threads /\ u \in ingame
      /\ UNCHANGED <<ingame, registered, pos, invisible, graves, view_list, screen, used>>
      /\ UNCHANGED <<world, view_list, screen, used>>
      /\ dirty' = dirty \cup Met(Other, u)
  BY DEF Objects, Threads, BeatDisconnect, world, life
<1>3. Begin(Other, Bye(u, InSight(u)))
  BY BeatLooksSame DEF BeatDisconnect, Bye
<1>4. InSight(u) \in SUBSET Objects /\ u \notin InSight(u) /\ InSight(u) \subseteq registered
  BY <1>1, <1>2, LookTypes DEF InSight
<1>5. PICK k \in Tasks :
        /\ k = Bye(u, InSight(u)) /\ TaskOK(k)
        /\ k.pc = "build" /\ k.kind = "bye" /\ k.who = u /\ k.old = {} /\ k.out = {}
        /\ \A p \in Packets : \A b \in Objects \ {u} :
             Between(p, u, b) => (Due(k, p) <=> b \in InSight(u) /\ p.op = "remove")
  BY <1>4, ByeTask
<1>6. Begin(Other, k)
  BY <1>3, <1>5
<1>7. \A p \in Packets : Due(k, p) => p.to \in registered /\ p.of \in registered
  <2> SUFFICES ASSUME NEW p \in Packets, Due(k, p)
               PROVE  p.to \in registered /\ p.of \in registered
    OBVIOUS
  <2>1. p.to \in Objects /\ p.of \in Objects /\ u \in {p.to, p.of} /\ u \in registered
    BY <1>1, <1>2, <1>5 DEF TaskOK, Packets, Objects, Ground
  <2>2. \A b \in Objects \ {u} : Between(p, u, b) => b \in registered
    BY <1>4, <1>5
  <2> QED  BY <2>1, <2>2 DEF Between
<1>8. IInv'
  <2>1. \A v \in Users \ used : \A p \in Packets : Due(k, p) => p.to # v /\ p.of # v
    BY <1>1, <1>7, ObjectAssumption DEF Present, Ground
  <2> QED  BY <1>1, <1>2, <1>5, <1>6, <2>1, FarewellKeeps DEF Farewell
<1>9. Ground'
  BY <1>1, <1>2 DEF Ground
<1>10. Lessons'
  <2>1. ASSUME NEW x \in ingame, x # u, <<x, u>> \notin dirty'
        PROVE  Parting(x, u, task[Other])'
    <3>1. task'[Other] = k
      BY <1>1, <1>2, <1>5, <1>6, BeginTypes
    <3>2. x \in Users /\ x \in Objects /\ x \in registered /\ <<x, u>> \notin dirty /\ <<x, u>> \notin Met(Other, u)
      BY <1>1, <1>2, <2>1 DEF Types, Objects, Ground
    <3>3. PairOK(x, u)
      BY <1>1, <1>2, <2>1, <3>2 DEF PairsOK
    <3>4. Sound(x, u)
      BY <1>1, <1>2, <1>5, <1>6, <3>2, <3>3, BeginSound
    <3>5. ASSUME NEW p \in Packets, p.to = x, p.of = u
          PROVE  Due(task[Other], p)' <=> can_see(u, x) /\ p.op = "remove"
      <4>1. Due(task[Other], p)' <=> Due(k, p)
        BY <3>1 DEF Due, Elements
      <4>2. x \in InSight(u) <=> can_see(u, x)
        BY <2>1, <3>2 DEF InSight
      <4> QED  BY <1>5, <2>1, <3>2, <3>5, <4>1, <4>2 DEF Between
    <3>6. (task[Other].out)' = {}
      BY <1>5, <3>1
    <3>7. Quiet(x, u, task[Other])' => ~can_see(u, x)
      <4>1. Packet("remove", x, u) \in Packets
            /\ Packet("remove", x, u).to = x /\ Packet("remove", x, u).of = u
            /\ Packet("remove", x, u).op = "remove"
        BY <1>2, <3>2 DEF Packet, Packets
      <4> QED  BY <3>5, <4>1 DEF Quiet, Packets
    <3>8. ~can_see(u, x) => u \notin view_list[x] /\ screen[x][u].how = "none"
      BY <1>1, <1>2, <3>2, <3>4, SeeSym DEF Sound, Tidy
    <3> QED  BY <1>2, <3>5, <3>6, <3>7, <3>8 DEF Parting, Packets
  <2>2. ingame' \subseteq Users /\ ingame' \subseteq ingame \cup {k.who} /\ dirty \cup Met(Other, k.who) \subseteq dirty'
    BY <1>1, <1>2, <1>5 DEF Types
  <2> QED  BY <1>1, <1>2, <1>5, <1>6, <2>1, <2>2, BeginLessons
<1>11. Goners'
  <2>1. k.who \in registered /\ k.old \subseteq registered /\ dirty \subseteq dirty'
    BY <1>1, <1>2, <1>5 DEF Ground
  <2> QED  BY <1>1, <1>2, <1>5, <1>6, <1>7, <2>1, BeginGoners
<1> QED  BY <1>8, <1>9, <1>10, <1>11 DEF LInv

LEMMA PartingOf ==
  ASSUME NEW t, NEW j, task'[t] = j, NEW u, NEW o,
         \A p \in Packets : p.to = u /\ p.of = o /\ Due(j, p) => p.op = "remove",
         \A m \in j.out : m.p.to = u /\ m.p.of = o => m.p.op = "remove" /\ o \notin view_list'[u],
         Quiet(u, o, j) => o \notin view_list'[u] /\ screen'[u][o].how = "none"
  PROVE  Parting(u, o, task[t])'
<1>1. \A p : (Due(task[t], p)' <=> Due(j, p)) /\ (Sent(task[t], p)' <=> Sent(j, p))
  BY DEF Due, Sent, Elements
<1>2. Quiet(u, o, task[t])' => Quiet(u, o, j)
  BY <1>1 DEF Quiet, Packets
<1> QED  BY <1>1, <1>2 DEF Parting, Packets

\* Handlers go on that learn of nobody who is gone.
LEMMA SetGoners ==
  ASSUME Types, Goners, NEW t \in Threads, Active(t), NEW j \in Tasks, Set(t, j),
         j.pc # "idle" => j.who = task[t].who,
         UNCHANGED <<ingame, dirty>>,
         \A u \in ingame, v \in Users \ ingame : <<u, v>> \notin dirty /\ Gone(u, v) =>
           /\ v \notin view_list'[u] /\ screen'[u][v].how = "none"
           /\ task[t].who = u /\ Absent(v, task[t]) /\ j.pc # "idle" => Absent(v, j)
  PROVE  Goners'
<1> SUFFICES ASSUME NEW u \in ingame, NEW v \in Users \ ingame, <<u, v>> \notin dirty
             PROVE  Gone(u, v)'
  BY DEF Goners
<1>1. u \in Users /\ Gone(u, v)
  BY DEF Goners, Types
<1> QED  BY <1>1, SetGone

LEMMA BeatCopyKeeps ==
  ASSUME LInv, NEW t \in Threads, BeatCopy(t)
  PROVE  LInv'
<1>1. IInv /\ Types /\ Ground /\ Lessons /\ Goners /\ Apart /\ Symmetric
  BY DEF LInv, IInv, Marks
<1>2. Copy(t) /\ Active(t)
      /\ UNCHANGED <<ingame, registered, pos, invisible, view_list, screen, dirty>>
  BY DEF BeatCopy, Copy, world, life, past, Active
<1> PICK k \in Tasks : k = task[t]
  BY <1>1 DEF Types
<1> PICK j \in Tasks :
      /\ TaskOK(j) /\ Set(t, j) /\ j.pc = "scan" /\ j.kind = "move" /\ j.who = k.who
      /\ j.old = view_list[k.who] /\ j.out = {} /\ \A p : ~Due(j, p)
  BY <1>1, <1>2, CopyTask
<1>3. IInv'
  BY <1>1, <1>2, CopyKeeps
<1>4. Ground'
  BY <1>1, <1>2 DEF Ground
<1>5. Lessons'
  <2>1. task'[t] = j
    BY <1>1 DEF Set, Types
  <2>2. \A u, o : Lesson(u, o, task[t])'
    BY <2>1 DEF Lesson
  <2>3. \A u \in Users, o \in Objects : Same(u, o)
    BY <1>2 DEF Same
  <2> QED  BY <1>1, <1>2, <2>2, <2>3, SetLessons
<1>6. Goners'
  <2>1. ASSUME NEW u \in ingame, NEW v \in Users \ ingame, Gone(u, v), k.who = u, Absent(v, k)
        PROVE  Absent(v, j)
    BY <2>1 DEF Absent, Gone, Sent
  <2>2. \A u, v : Gone(u, v) => v \notin view_list'[u] /\ screen'[u][v].how = "none"
    BY <1>2 DEF Gone
  <2>3. \A u \in ingame, v \in Users \ ingame : <<u, v>> \notin dirty /\ Gone(u, v) =>
          /\ v \notin view_list'[u] /\ screen'[u][v].how = "none"
          /\ task[t].who = u /\ Absent(v, task[t]) /\ j.pc # "idle" => Absent(v, j)
    BY <2>1, <2>2
  <2> QED  BY <1>1, <1>2, <2>3, SetGoners
<1> QED  BY <1>3, <1>4, <1>5, <1>6 DEF LInv

LEMMA BeatStepKeeps ==
  ASSUME LInv, NEW t \in Threads, BeatStep(t)
  PROVE  LInv'
<1>1. IInv /\ Types /\ Ground /\ Lessons /\ Goners /\ Apart /\ Symmetric
  BY DEF LInv, IInv, Marks
<1>2. Step(t) /\ Active(t)
      /\ UNCHANGED <<ingame, registered, invisible, view_list, screen, dirty>>
  BY DEF BeatStep, Step, life, past, Active
<1> PICK k \in Tasks : k = task[t]
  BY <1>1 DEF Types
<1> PICK j \in Tasks :
      /\ TaskOK(j) /\ Set(t, j) /\ j.pc = "scan" /\ j.kind = "npc" /\ j.who = k.who
      /\ j.old = k.old /\ j.out = {} /\ \A p : ~Due(j, p)
  BY <1>1, <1>2, StepTask
<1>3. IInv'
  BY <1>1, <1>2, StepKeeps
<1>4. Ground'
  BY <1>1, <1>2 DEF Ground
<1>5. Lessons'
  <2>1. task'[t] = j
    BY <1>1 DEF Set, Types
  <2>2. \A u, o : Lesson(u, o, task[t])'
    BY <2>1 DEF Lesson
  <2>3. \A a \in Objects : a # k.who => pos'[a] = pos[a]
    BY <1>1, <1>2 DEF Step, Types
  <2>4. \A u \in Users, o \in Objects : k.who \notin {u, o} => Same(u, o)
    BY <1>2, <2>3 DEF Same, Objects
  <2> QED  BY <1>1, <1>2, <2>2, <2>4, SetLessons
<1>6. Goners'
  <2>1. ASSUME NEW u \in ingame, NEW v \in Users \ ingame, k.who = u, Absent(v, k)
        PROVE  Absent(v, j)
    BY <2>1 DEF Absent, Sent
  <2>2. \A u, v : Gone(u, v) => v \notin view_list'[u] /\ screen'[u][v].how = "none"
    BY <1>2 DEF Gone
  <2>3. \A u \in ingame, v \in Users \ ingame : <<u, v>> \notin dirty /\ Gone(u, v) =>
          /\ v \notin view_list'[u] /\ screen'[u][v].how = "none"
          /\ task[t].who = u /\ Absent(v, task[t]) /\ j.pc # "idle" => Absent(v, j)
    BY <2>1, <2>2
  <2> QED  BY <1>1, <1>2, <2>3, SetGoners
<1> QED  BY <1>3, <1>4, <1>5, <1>6 DEF LInv

\* Both servers make the same packets of what is found, and in the lesson
\* everybody who is found is alive.
LEMMA BeatScanIs ==
  ASSUME Ground, NEW t \in Threads, BeatScan(t)
  PROVE  ScanInto(t, InSight(task[t].who))
<1>1. BeatInSight(task[t].who) = InSight(task[t].who)
      /\ Found(task[t].kind, task[t].who) = InSight(task[t].who)
  BY BeatLooksSame DEF Found
<1> QED  BY <1>1 DEF BeatScan, ScanInto

LEMMA BeatScanKeeps ==
  ASSUME LInv, NEW t \in Threads, BeatScan(t)
  PROVE  LInv'
<1>1. IInv /\ Types /\ Ground /\ Lessons /\ Goners /\ Apart /\ Symmetric
  BY DEF LInv, IInv, Marks
<1> PICK k \in Tasks : k = task[t]
  BY <1>1 DEF Types
<1>2. Active(t) /\ k.pc = "scan" /\ TaskOK(k) /\ k.who \in Objects
      /\ UNCHANGED <<ingame, registered, pos, invisible, view_list, screen, dirty>>
  BY <1>1 DEF BeatScan, world, life, past, Active, Types, TaskOK, KindOK
<1> PICK keep \in SUBSET Objects : keep = InSight(k.who)
  BY <1>1, <1>2, LookTypes
<1>3. keep \subseteq registered /\ ScanInto(t, keep)
  BY <1>1, BeatScanIs DEF InSight
<1> DEFINE P == Updates(k.kind, k.who, k.old, Found(k.kind, k.who)) \ {<<>>}
<1>8. PICK j \in Tasks :
        /\ k.kind \in {"login", "move", "npc", "regen"}
        /\ TaskOK(j) /\ Set(t, j) /\ j.out = {}
        /\ j.old \in {{}, keep} /\ (j.pc = "build" => j.old = keep)
        /\ j.pc = "idle" \/ (j.pc = "build" /\ j.who = k.who /\ j.kind = k.kind)
        /\ \A p : Due(j, p) <=> \/ \E s \in P : p \in Elements(s)
                                \/ k.kind = "move" /\ p = Packet("move", k.who, k.who)
  <2> DEFINE h == task[t]
             Q == Updates(h.kind, h.who, h.old, Found(h.kind, h.who)) \ {<<>>}
             j == Spread(h, Q, keep)
  <2>1. /\ h.kind \in {"login", "move", "npc", "regen"}
        /\ j \in Tasks /\ TaskOK(j) /\ Set(t, j) /\ j.out = {}
        /\ j.old \in {{}, keep} /\ (j.pc = "build" => j.old = keep)
        /\ j.pc = "idle" \/ (j.pc = "build" /\ j.who = h.who /\ j.kind = h.kind)
        /\ \A p : Due(j, p) <=> \/ \E s \in Q : p \in Elements(s)
                                \/ h.kind = "move" /\ p = Packet("move", h.who, h.who)
    BY <1>1, <1>3, ScanTask
  <2>2. h = k /\ P = Q
    OBVIOUS
  <2> HIDE DEF j, P, h, Q
  <2> QED  BY <2>1, <2>2
<1> HIDE DEF P
<1>4. IInv'
  BY <1>1, <1>3, ScanKeeps
<1>5. Ground'
  BY <1>1, <1>2 DEF Ground
<1>6. Lessons'
  <2>1. task'[t] = j
    BY <1>1, <1>8 DEF Set, Types
  <2>2. ASSUME NEW u \in ingame, NEW o \in Npcs \cup ingame, o # u, j.pc # "idle"
        PROVE  Lesson(u, o, task[t])'
    <3>1. can_see(u, o)' <=> can_see(u, o)
      BY <1>2 DEF can_see, Dist
    <3>2. k.who = u => (o \in keep <=> can_see(u, o))
      BY <1>1, <2>2 DEF InSight, Ground
    <3> QED  BY <1>8, <2>1, <2>2, <3>1, <3>2 DEF Lesson
  <2>3. \A u \in Users, o \in Objects : Same(u, o)
    BY <1>2 DEF Same
  <2> QED  BY <1>1, <1>2, <1>8, <2>2, <2>3, SetLessons
<1>7. Goners'
  <2>1. ASSUME NEW u \in ingame, NEW v \in Users \ ingame, Absent(v, k)
        PROVE  Absent(v, j)
    <3>1. v \notin registered
      BY <1>1, ObjectAssumption DEF Ground
    <3>2. \A p : Due(j, p) =>
            \/ \E s \in Updates(k.kind, k.who, k.old, Found(k.kind, k.who)) : p \in Elements(s)
            \/ p = Packet("move", k.who, k.who)
      BY <1>8 DEF P
    <3>3. v \notin j.old
      BY <1>3, <1>8, <3>1
    <3> QED  BY <1>1, <1>2, <1>8, <2>1, <3>1, <3>2, <3>3, ScanAbsent
  <2>2. \A u, v : Gone(u, v) => v \notin view_list'[u] /\ screen'[u][v].how = "none"
    BY <1>2 DEF Gone
  <2>3. \A u \in ingame, v \in Users \ ingame : <<u, v>> \notin dirty /\ Gone(u, v) =>
          /\ v \notin view_list'[u] /\ screen'[u][v].how = "none"
          /\ task[t].who = u /\ Absent(v, task[t]) /\ j.pc # "idle" => Absent(v, j)
    BY <2>1, <2>2
  <2> QED  BY <1>1, <1>2, <1>8, <2>3, SetGoners
<1> QED  BY <1>4, <1>5, <1>6, <1>7 DEF LInv

LEMMA BeatBuildKeeps ==
  ASSUME LInv, NEW t \in Threads, BeatBuild(t)
  PROVE  LInv'
<1>1. IInv /\ Types /\ Ground /\ Lessons /\ Goners /\ Apart /\ Symmetric
  BY DEF LInv, IInv, Marks
<1>2. Build(t) /\ Active(t)
      /\ UNCHANGED <<ingame, registered, pos, invisible, screen, dirty>>
  BY DEF BeatBuild, Build, world, life, past, Active
<1> PICK k \in Tasks : k = task[t]
  BY <1>1 DEF Types
<1>3. PICK p \in Packets, j \in Tasks :
        /\ TaskOK(k) /\ k.pc = "build" /\ k.who \in Objects /\ k.out = {}
        /\ k.who \in {p.to, p.of}
        /\ TaskOK(j) /\ Set(t, j) /\ view_list' = Listed(p)
        /\ j.pc = "send" /\ j.who = k.who /\ j.kind = k.kind /\ j.old = k.old
        /\ j.out = {[p |-> p, x |-> pos[p.of]]}
        /\ \A q : Due(k, q) => Due(j, q) \/ q = p
        /\ \A q : Due(j, q) => Due(k, q)
        /\ Due(k, p) \/ (k.kind = "leave" /\ p = Packet("remove", k.who, k.who))
  BY <1>1, <1>2, BuildStep
<1>4. /\ \A u \in Users, o \in Objects : ~(p.to = u /\ p.of = o) =>
           (o \in view_list'[u] <=> o \in view_list[u])
      /\ p.op = "remove" => p.of \notin view_list'[p.to]
  BY <1>1, <1>3, ListedIs
<1>5. IInv'
  BY <1>1, <1>2, BuildKeeps
<1>6. Ground'
  BY <1>1, <1>2 DEF Ground
<1>7. task'[t] = j /\ \A q : Sent(j, q) <=> q = p
  BY <1>1, <1>3 DEF Set, Types, Sent
<1>8. Lessons'
  <2>1. ASSUME NEW u \in ingame, NEW o \in Npcs \cup ingame, o # u, Lesson(u, o, k)
        PROVE  Lesson(u, o, task[t])'
    <3>1. can_see(u, o)' <=> can_see(u, o)
      BY <1>2 DEF can_see, Dist
    <3>2. u \in Users /\ o \in Objects
      BY <1>1 DEF Types, Objects
    <3>3. ASSUME k.kind = "bye", k.who = o  PROVE Parting(u, o, task[t])'
      <4>1. Parting(u, o, k) /\ Due(k, p)
        BY <1>3, <2>1, <3>3 DEF Lesson
      <4>2. \A q \in Packets : q.to = u /\ q.of = o /\ Due(j, q) => q.op = "remove"
        BY <1>3, <4>1 DEF Parting
      <4>3. \A m \in j.out : m.p.to = u /\ m.p.of = o => m.p.op = "remove" /\ o \notin view_list'[u]
        BY <1>3, <1>4, <4>1 DEF Parting
      <4>4. ASSUME Quiet(u, o, j)
            PROVE  o \notin view_list'[u] /\ screen'[u][o].how = "none"
        <5>1. ~(p.to = u /\ p.of = o)
          BY <1>7, <4>4 DEF Quiet
        <5>2. Quiet(u, o, k)
          BY <1>3, <4>4, <5>1 DEF Quiet, Sent
        <5> QED  BY <1>2, <1>4, <3>2, <4>1, <5>1, <5>2 DEF Parting
      <4> QED  BY <1>7, <4>2, <4>3, <4>4, PartingOf
    <3> QED  BY <1>3, <1>7, <2>1, <3>1, <3>3 DEF Lesson
  <2>2. \A u \in Users, o \in Objects : k.who \notin {u, o} => Same(u, o)
    BY <1>2, <1>3, <1>4 DEF Same, Objects
  <2>3. \A u \in ingame, o \in Npcs \cup ingame : k.who \in {u, o} => (LessonOK(u, o) => Lesson(u, o, k))
    BY <1>2 DEF LessonOK
  <2> QED  BY <1>1, <1>2, <1>3, <2>1, <2>2, <2>3, SetLessons
<1>9. Goners'
  <2>1. ASSUME NEW u \in ingame, NEW v \in Users \ ingame, Gone(u, v)
        PROVE  /\ v \notin view_list'[u] /\ screen'[u][v].how = "none"
               /\ k.who = u /\ Absent(v, k) => Absent(v, j)
    <3>1. u \in Users /\ v \in Objects /\ u # v
      BY <1>1 DEF Types, Objects
    <3>2. k.who # v /\ (k.who = u => Absent(v, k))
      BY <1>2, <2>1 DEF Gone
    <3>3. Absent(v, k) => p.to # v /\ p.of # v
      BY <1>3, <3>2 DEF Absent, Packet
    <3>4. ~(p.to = u /\ p.of = v)
      BY <1>3, <3>2, <3>3
    <3>5. v \notin view_list'[u] /\ screen'[u][v].how = "none"
      BY <1>2, <1>4, <2>1, <3>1, <3>4 DEF Gone
    <3>6. Absent(v, k) => Absent(v, j)
      BY <1>3, <1>7, <3>3 DEF Absent
    <3> QED  BY <3>5, <3>6
  <2> QED  BY <1>1, <1>2, <1>3, <2>1, SetGoners
<1> QED  BY <1>5, <1>6, <1>8, <1>9 DEF LInv

\* Nobody leaves the lesson the way the game is left.
NoLeave == \A t \in Threads : task[t].kind # "leave"

LEMMA BeatSendTask ==
  ASSUME NEW k \in Tasks, TaskOK(k), k.pc = "send"
  PROVE  LET j == CASE ~Last(k) -> [k EXCEPT !.pc = "build", !.out = {}]
                    [] Last(k) /\ k.kind = "move" -> [k EXCEPT !.pc = "store", !.out = {}]
                    [] OTHER -> Idle
         IN  /\ j \in Tasks /\ TaskOK(j) /\ j.out = {}
             /\ \A q : Due(j, q) <=> Due(k, q)
             /\ j.pc = "idle" \/ (j.pc \in {"build", "store"} /\ j.who = k.who /\ j.kind = k.kind /\ j.old = k.old)
             /\ j.pc = "idle" <=> Last(k) /\ k.kind # "move"
             /\ j.old = {} \/ j.old = k.old
             /\ j.pc = "idle" => \A q : ~Due(k, q)
<1> DEFINE j == CASE ~Last(k) -> [k EXCEPT !.pc = "build", !.out = {}]
                  [] Last(k) /\ k.kind = "move" -> [k EXCEPT !.pc = "store", !.out = {}]
                  [] OTHER -> Idle
<1>1. CASE ~Last(k) \/ k.kind # "move"
  <2> DEFINE h == IF Last(k) THEN Idle ELSE [k EXCEPT !.pc = "build", !.out = {}]
  <2>1. j = h
    <3>1. CASE ~Last(k)
      BY <3>1
    <3>2. CASE Last(k)
      BY <1>1, <3>2
    <3> QED  BY <3>1, <3>2
  <2>2. /\ h \in Tasks /\ TaskOK(h) /\ h.out = {}
        /\ \A q : Due(h, q) <=> Due(k, q)
        /\ h.pc = "idle" \/ (h.pc = "build" /\ h.who = k.who /\ h.kind = k.kind)
        /\ h.pc = "idle" <=> Last(k)
        /\ h.old = {} \/ h.old = k.old
    BY SendTask
  <2>3. h.pc # "idle" => h.old = k.old
    BY <2>2 DEF Tasks
  <2>4. Last(k) => \A q : ~Due(k, q)
    BY Empty DEF Last, Due
  <2> HIDE DEF j, h
  <2>5. /\ j \in Tasks /\ TaskOK(j) /\ j.out = {}
        /\ \A q : Due(j, q) <=> Due(k, q)
        /\ j.pc = "idle" \/ (j.pc \in {"build", "store"} /\ j.who = k.who /\ j.kind = k.kind /\ j.old = k.old)
        /\ j.pc = "idle" <=> Last(k) /\ k.kind # "move"
        /\ j.old = {} \/ j.old = k.old
        /\ j.pc = "idle" => \A q : ~Due(k, q)
    BY <1>1, <2>1, <2>2, <2>3, <2>4
  <2> QED  BY <2>5 DEF j
<1>2. CASE Last(k) /\ k.kind = "move"
  <2> DEFINE h == [k EXCEPT !.pc = "store", !.out = {}]
  <2>1. j = h
    BY <1>2
  <2>2. /\ h.pc = "store" /\ h.who = k.who /\ h.kind = k.kind /\ h.old = k.old
        /\ h.todo = k.todo /\ h.now = k.now /\ h.out = {}
    BY DEF Tasks
  <2>3. h \in Tasks
    BY DEF Tasks, Stages
  <2> HIDE DEF j, h
  <2>4. k.now = <<>> /\ k.todo = {}
    BY <1>2 DEF Last
  <2>5. \A q : Due(h, q) <=> Due(k, q)
    BY <2>2 DEF Due
  <2>6. \A q : ~Sent(h, q)
    BY <2>2 DEF Sent
  <2>7. KindOK(h)
    BY <1>2, <2>2 DEF KindOK, TaskOK
  <2>8. TaskOK(h)
    BY <2>2, <2>4, <2>5, <2>6, <2>7 DEF TaskOK
  <2>9. /\ j \in Tasks /\ TaskOK(j) /\ j.out = {}
        /\ \A q : Due(j, q) <=> Due(k, q)
        /\ j.pc \in {"build", "store"} /\ j.who = k.who /\ j.kind = k.kind /\ j.old = k.old
        /\ j.pc # "idle"
    BY <2>1, <2>2, <2>3, <2>5, <2>8
  <2> QED  BY <1>2, <2>9 DEF j
<1> QED  BY <1>1, <1>2

LEMMA BeatSendStep ==
  ASSUME Types, NEW t \in Threads, BeatSend(t)
  PROVE  \E m \in task[t].out, j \in Tasks :
           /\ Sends(t, m, j)
           /\ j.pc # "idle" => j.old = task[t].old
           /\ j.pc = "idle" => task[t].kind # "move" /\ \A q : ~Due(task[t], q)
           /\ ingame' = IF j.pc = "idle" /\ task[t].kind = "bye"
                        THEN ingame \ {task[t].who} ELSE ingame
           /\ registered' = IF j.pc = "idle" /\ task[t].kind = "bye"
                            THEN registered \ {task[t].who} ELSE registered
<1> DEFINE k == task[t]
<1>1. PICK m \in k.out :
        screen' = IF m.p.to \in ingame
                  THEN [screen EXCEPT ![m.p.to][m.p.of] = Shown(m.p, m.x)] ELSE screen
  BY Zenon DEF BeatSend, BeatDeliver, Deliver
<1> DEFINE j == CASE ~Last(k) -> [k EXCEPT !.pc = "build", !.out = {}]
                  [] Last(k) /\ k.kind = "move" -> [k EXCEPT !.pc = "store", !.out = {}]
                  [] OTHER -> Idle
<1>2. k \in Tasks /\ TaskOK(k)
  BY DEF Types
<1>3. k.pc = "send" /\ Set(t, j)
  BY Zenon DEF BeatSend
<1>4. /\ ingame' = ingame \ (IF Last(k) /\ k.kind = "bye" THEN {k.who} ELSE {})
      /\ registered' = registered \ (IF Last(k) /\ k.kind = "bye" THEN {k.who} ELSE {})
  BY Zenon DEF BeatSend
<1> HIDE DEF k
<1>5. /\ j \in Tasks /\ TaskOK(j) /\ j.out = {}
      /\ \A q : Due(j, q) <=> Due(k, q)
      /\ j.pc = "idle" \/ (j.pc \in {"build", "store"} /\ j.who = k.who /\ j.kind = k.kind /\ j.old = k.old)
      /\ j.pc = "idle" <=> Last(k) /\ k.kind # "move"
      /\ j.old = {} \/ j.old = k.old
      /\ j.pc = "idle" => \A q : ~Due(k, q)
  BY <1>2, <1>3, BeatSendTask
<1>6. /\ k.who \in Objects /\ m \in [p : Packets, x : Cells]
      /\ k.who \in {m.p.to, m.p.of} /\ \A q : Sent(k, q) <=> q = m.p
  BY <1>1, <1>2, <1>3, SentIs
<1> HIDE DEF j
<1>7. Sends(t, m, j)
  BY <1>1, <1>2, <1>3, <1>5, <1>6 DEF Sends, k
<1>8. /\ ingame' = IF j.pc = "idle" /\ k.kind = "bye" THEN ingame \ {k.who} ELSE ingame
      /\ registered' = IF j.pc = "idle" /\ k.kind = "bye" THEN registered \ {k.who} ELSE registered
  <2>1. CASE Last(k) /\ k.kind = "bye"
    BY <1>4, <1>5, <2>1
  <2>2. CASE ~(Last(k) /\ k.kind = "bye")
    BY <1>4, <1>5, <2>2
  <2> QED  BY <2>1, <2>2
<1>9. m \in task[t].out
  BY <1>1 DEF k
<1>10. j \in Tasks
  BY <1>5
<1> USE <1>9, <1>10
<1> WITNESS m \in task[t].out, j \in Tasks
<1> QED  BY <1>5, <1>7, <1>8 DEF k

LEMMA BeatSendKeeps ==
  ASSUME LInv, NoLeave, NEW t \in Threads, BeatSend(t)
  PROVE  LInv'
<1>1. IInv /\ Types /\ Ground /\ Lessons /\ Goners /\ Apart /\ Symmetric
  BY DEF LInv, IInv, Marks
<1> PICK k \in Tasks : k = task[t]
  BY <1>1 DEF Types
<1>2. Active(t) /\ k.pc = "send" /\ k.kind # "leave"
      /\ UNCHANGED <<pos, invisible, graves, view_list, deeds, used, dirty, alone>>
  BY DEF BeatSend, life, past, Active, NoLeave
<1>3. PICK m \in k.out, j \in Tasks :
        /\ Sends(t, m, j)
        /\ j.pc # "idle" => j.old = k.old
        /\ j.pc = "idle" => \A q : ~Due(k, q)
        /\ ingame' = IF j.pc = "idle" /\ k.kind = "bye" THEN ingame \ {k.who} ELSE ingame
        /\ registered' = IF j.pc = "idle" /\ k.kind = "bye" THEN registered \ {k.who} ELSE registered
  BY <1>1, BeatSendStep
<1>4. /\ TaskOK(k) /\ k.who \in Objects /\ m \in [p : Packets, x : Cells]
      /\ k.who \in {m.p.to, m.p.of} /\ \A q : Sent(k, q) <=> q = m.p
      /\ TaskOK(j) /\ Set(t, j) /\ j.out = {}
      /\ \A q : Due(j, q) <=> Due(k, q)
      /\ j.pc = "idle" \/ (j.pc \in {"build", "store"} /\ j.who = k.who /\ j.kind = k.kind)
      /\ j.old = {} \/ j.old = k.old
  BY <1>3 DEF Sends
<1>5. /\ \A u \in Users, o \in Objects : ~(m.p.to = u /\ m.p.of = o) => screen'[u][o] = screen[u][o]
      /\ m.p.to \in ingame => screen'[m.p.to][m.p.of] = Shown(m.p, m.x)
  BY <1>1, <1>3, <1>4, ShownIs DEF Sends
<1>6. task'[t] = j /\ \A x \in Threads \ {t} : task'[x] = task[x]
  BY <1>1, <1>4 DEF Set, Types
<1>7. /\ ingame' \subseteq ingame /\ registered' \subseteq registered /\ ingame' \cup Npcs \subseteq registered'
      /\ registered' = Npcs \cup ingame'
      /\ j.pc = "idle" /\ k.kind = "bye" => k.who \in Users /\ k.who \notin ingame'
      /\ \A v \in ingame \ ingame' : v = k.who /\ k.kind = "bye" /\ j.pc = "idle"
  <2>1. k.kind = "bye" => k.who \in Users \ Npcs
    BY <1>4, ObjectAssumption DEF TaskOK, KindOK
  <2> QED  BY <1>1, <1>3, <2>1 DEF Ground
<1>8. IInv'
  <2>1. j.pc = "idle" /\ task[t].kind \in Farewell => task[t].who \notin ingame'
    BY <1>2, <1>7 DEF Farewell
  <2>2. Sends(t, m, j)
    BY <1>3
  <2> HIDE DEF Farewell
  <2> QED  BY <1>1, <1>2, <1>7, <2>1, <2>2, SendKept
<1>9. Ground'
  BY <1>1, <1>2, <1>7 DEF Ground
<1>10. ASSUME NEW u \in ingame, NEW o \in Objects, u # o, Parting(u, o, k), NEW q, q = m.p, q.to = u, q.of = o
       PROVE  o \notin view_list'[u] /\ screen'[u][o].how = "none"
  <2>1. q.op = "remove" /\ o \notin view_list[u]
    BY <1>3, <1>10 DEF Parting
  <2>2. screen'[u][o] = Nothing
    BY <1>5, <1>10, <2>1 DEF Shown
  <2> QED  BY <1>2, <2>1, <2>2 DEF Nothing, Entry
<1>11. ASSUME NEW u \in ingame, NEW o \in Objects, u # o, Parting(u, o, k), \A q : ~Due(k, q) \/ q.to # u \/ q.of # o
       PROVE  o \notin view_list'[u] /\ screen'[u][o].how = "none"
  <2>1. CASE m.p.to = u /\ m.p.of = o
    BY <1>10, <1>11, <2>1
  <2>2. CASE ~(m.p.to = u /\ m.p.of = o)
    <3>1. Quiet(u, o, k)
      BY <1>4, <1>11, <2>2 DEF Quiet
    <3>2. o \notin view_list[u] /\ screen[u][o].how = "none"
      BY <1>11, <3>1 DEF Parting
    <3> QED  BY <1>1, <1>2, <1>5, <1>11, <2>2, <3>2 DEF Types
  <2> QED  BY <2>1, <2>2
<1>12. Lessons'
  <2>1. ASSUME NEW u \in ingame, NEW o \in Npcs \cup ingame, o # u, j.pc # "idle", Lesson(u, o, k)
        PROVE  Lesson(u, o, task[t])'
    <3>1. can_see(u, o)' <=> can_see(u, o)
      BY <1>2 DEF can_see, Dist
    <3>2. u \in Users /\ o \in Objects
      BY <1>1 DEF Types, Objects
    <3>3. ASSUME k.kind = "bye", k.who = o  PROVE Parting(u, o, task[t])'
      <4>1. Parting(u, o, k)
        BY <2>1, <3>3 DEF Lesson
      <4>2. \A q \in Packets : q.to = u /\ q.of = o /\ Due(j, q) => q.op = "remove"
        BY <1>4, <4>1 DEF Parting
      <4>3. ASSUME Quiet(u, o, j)
            PROVE  o \notin view_list'[u] /\ screen'[u][o].how = "none"
        <5>1. CASE m.p.to = u /\ m.p.of = o
          BY <1>10, <2>1, <3>2, <4>1, <5>1
        <5>2. CASE ~(m.p.to = u /\ m.p.of = o)
          <6>1. Quiet(u, o, k)
            BY <1>4, <4>3, <5>2 DEF Quiet
          <6> QED  BY <1>2, <1>5, <3>2, <4>1, <5>2, <6>1 DEF Parting
        <5> QED  BY <5>1, <5>2
      <4> QED  BY <1>4, <1>6, <4>2, <4>3, PartingOf
    <3> QED  BY <1>2, <1>3, <1>4, <1>6, <2>1, <3>1, <3>3 DEF Lesson
  <2>2. \A u \in Users, o \in Objects : k.who \notin {u, o} => Same(u, o)
    BY <1>2, <1>4, <1>5 DEF Same, Objects
  <2>3. \A u \in ingame, o \in Npcs \cup ingame : k.who \in {u, o} => (LessonOK(u, o) => Lesson(u, o, k))
    BY <1>2 DEF LessonOK
  <2>4. \A u \in ingame, o \in Npcs \cup ingame :
          o # u /\ <<u, o>> \notin dirty /\ task[t].who \in {u, o} /\ j.pc # "idle" =>
            (LessonOK(u, o) => Lesson(u, o, task[t])')
    BY <2>1, <2>3
  <2> QED  BY <1>1, <1>2, <1>4, <1>7, <2>2, <2>4, SetLessons
<1>13. Goners'
  <2> SUFFICES ASSUME NEW u \in ingame', NEW v \in Users \ ingame', <<u, v>> \notin dirty'
               PROVE  Gone(u, v)'
    BY DEF Goners
  <2>1. u \in Users /\ u \in ingame /\ u \in Objects /\ v \in Objects /\ u # v /\ <<u, v>> \notin dirty
    BY <1>1, <1>2, <1>7 DEF Types, Objects
  <2>2. CASE v \notin ingame
    <3>1. Gone(u, v)
      BY <1>1, <2>1, <2>2 DEF Goners
    <3>2. k.who # v /\ (k.who = u => Absent(v, k))
      BY <1>2, <3>1 DEF Gone
    <3>3. ~(m.p.to = u /\ m.p.of = v)
      BY <1>4, <3>2 DEF Absent
    <3>4. v \notin view_list'[u] /\ screen'[u][v].how = "none"
      BY <1>2, <1>5, <2>1, <3>1, <3>3 DEF Gone
    <3>5. Absent(v, k) /\ j.pc # "idle" => Absent(v, j)
      BY <1>4 DEF Absent, Sent
    <3>6. task[t].who = u /\ Absent(v, task[t]) /\ j.pc # "idle" => Absent(v, j)
      BY <3>5
    <3> QED  BY <1>1, <1>2, <1>4, <2>1, <3>1, <3>4, <3>6, SetGone
  <2>3. CASE v \in ingame
    <3>1. v = k.who /\ k.kind = "bye" /\ j.pc = "idle" /\ \A q : ~Due(k, q)
      BY <1>3, <1>7, <2>3
    <3>2. LessonOK(u, v)
      BY <1>1, <2>1, <2>3 DEF Lessons
    <3>3. Parting(u, v, k)
      BY <1>2, <3>1, <3>2 DEF LessonOK, Lesson
    <3>4. v \notin view_list'[u] /\ screen'[u][v].how = "none"
      BY <1>11, <2>1, <3>1, <3>3
    <3>5. \A x \in Threads \ {t} : Active(x) => task[x].who \notin {u, v}
      BY <1>1, <1>2, <2>1, <3>1, AloneOn
    <3>6. \A x \in Threads : Active(x)' => task'[x].who # u /\ task'[x].who # v
      BY <1>6, <3>1, <3>5 DEF Active
    <3> QED  BY <3>4, <3>6 DEF Gone
  <2> QED  BY <2>2, <2>3
<1> QED  BY <1>8, <1>9, <1>12, <1>13 DEF LInv

\* What a move stores is what its client has been told, and what is in sight.
LEMMA BeatStoreKeeps ==
  ASSUME LInv, NEW t \in Threads, BeatStore(t)
  PROVE  LInv'
<1>1. /\ IInv /\ Types /\ Marks /\ Unknown /\ PairsOK /\ Avatars /\ Apart /\ Symmetric
      /\ Ground /\ Lessons /\ Goners
  BY DEF LInv, IInv, Marks
<1> PICK k \in Tasks : k = task[t]
  BY <1>1 DEF Types
<1>2. Active(t) /\ k.pc = "store" /\ TaskOK(k) /\ k.kind = "move" /\ k.who \in Users /\ k.old \in SUBSET Objects
      /\ UNCHANGED <<ingame, registered, pos, invisible, graves, screen, deeds, used, dirty, alone>>
  BY <1>1 DEF BeatStore, world, life, past, Active, Types, TaskOK, KindOK, Tasks
<1>3. PICK j \in Tasks : j = Idle /\ TaskOK(j) /\ j.pc = "idle" /\ Set(t, j)
  BY IdleOK DEF BeatStore, Idle, Task
<1>4. /\ view_list' \in [Users -> SUBSET Objects] /\ view_list'[k.who] = k.old
      /\ \A u \in Users : u # k.who => view_list'[u] = view_list[u]
  BY <1>1, <1>2 DEF BeatStore, Types
<1>5. Types'
  <2>1. task' \in [Threads -> Tasks] /\ \A x \in Threads : TaskOK(task'[x])
    BY <1>1, <1>3, SetTypes
  <2>2. \A x \in Threads : TaskOK(task[x])'
    BY <2>1 DEF TaskOK, KindOK, Due, Sent, Elements, Packets, Idle, Task
  <2> QED  BY <1>1, <1>2, <1>4, <2>1, <2>2 DEF Types
<1>6. Marks'
  BY <1>1, <1>2, <1>3, SetMarks
<1>7. Unknown'
  <2> SUFFICES ASSUME NEW v \in Users \ used  PROVE Fresh(v)'
    BY <1>2 DEF Unknown
  <2>1. Fresh(v) /\ Absent(v, k)
    BY <1>1 DEF Unknown, Fresh
  <2>2. Absent(v, j)
    BY <1>3, IdleAbsent
  <2>3. view_list'[v] = {} /\ \A x \in Users : v \notin view_list'[x] /\ screen'[x][v] = Nothing
    BY <1>2, <1>4, <2>1 DEF Fresh, Absent
  <2> QED  BY <1>1, <1>2, <1>3, <2>1, <2>2, <2>3, SetUnknown
<1>8. \A u \in Users, o \in Objects : k.who \notin {u, o} => Same(u, o)
  BY <1>2, <1>4 DEF Same
<1>9. PairsOK'
  <2> SUFFICES ASSUME NEW u \in ingame, NEW o \in Npcs \cup ingame, o # u, <<u, o>> \notin dirty
               PROVE  PairOK(u, o)'
    BY <1>2 DEF PairsOK
  <2>1. u \in Users /\ o \in Objects /\ PairOK(u, o)
    BY <1>1 DEF Types, Objects, PairsOK
  <2>2. CASE k.who \notin {u, o}
    BY <1>1, <1>2, <1>3, <1>8, <2>1, <2>2, SetOther
  <2>3. CASE k.who \in {u, o}
    <3>1. Sound(u, o)
      BY <1>2, <2>1, <2>3 DEF PairOK, Stage, Farewell
    <3>2. o \in view_list'[u] <=> o \in view_list[u]
      <4>1. CASE k.who # u
        BY <1>4, <2>1, <4>1
      <4>2. CASE k.who = u
        <5>1. Lesson(u, o, k)
          BY <1>1, <1>2, <4>2 DEF Lessons, LessonOK
        <5>2. o \in k.old <=> can_see(u, o)
          BY <1>2, <4>2, <5>1 DEF Lesson
        <5> QED  BY <1>1, <1>4, <3>1, <4>2, <5>2 DEF Sound, Ground
      <4> QED  BY <4>1, <4>2
    <3>3. Sound(u, o)'
      BY <1>2, <3>1, <3>2 DEF Sound, Tidy, InPlace, can_see, Dist
    <3> QED  BY <1>1, <1>2, <1>3, <2>1, <2>3, <3>3, SetPair
  <2> QED  BY <2>2, <2>3
<1>10. Avatars'
  <2> SUFFICES ASSUME NEW u \in ingame, <<u, u>> \notin dirty  PROVE Avatar(u)'
    BY <1>2 DEF Avatars
  <2>1. u \in Users /\ Avatar(u)
    BY <1>1 DEF Types, Avatars
  <2>2. CASE k.who # u
    BY <1>1, <1>2, <1>3, <2>1, <2>2, SetOwnOther
  <2>3. CASE k.who = u
    <3>1. InPlace(u, u)
      BY <1>2, <2>1, <2>3 DEF Avatar, OwnStage, Farewell
    <3>2. InPlace(u, u)'
      BY <1>2, <3>1 DEF InPlace
    <3> QED  BY <1>1, <1>2, <1>3, <2>1, <2>3, <3>2, SetOwn
  <2> QED  BY <2>2, <2>3
<1>11. IInv'
  BY <1>5, <1>6, <1>7, <1>9, <1>10 DEF IInv
<1>12. Ground'
  BY <1>1, <1>2 DEF Ground
<1>13. Lessons'
  <2>1. j.pc = "idle" /\ dirty' = dirty /\ ingame' \subseteq ingame
    BY <1>2, <1>3
  <2> QED  BY <1>1, <1>2, <1>3, <1>8, <2>1, SetLessons
<1>14. Goners'
  <2>1. ASSUME NEW u \in ingame, NEW v \in Users \ ingame, Gone(u, v)
        PROVE  v \notin view_list'[u] /\ screen'[u][v].how = "none"
    <3>1. u \in Users /\ (k.who = u => v \notin k.old)
      BY <1>1, <1>2, <2>1 DEF Gone, Absent, Types
    <3> QED  BY <1>2, <1>4, <2>1, <3>1 DEF Gone
  <2>2. \A u \in ingame, v \in Users \ ingame : <<u, v>> \notin dirty /\ Gone(u, v) =>
          /\ v \notin view_list'[u] /\ screen'[u][v].how = "none"
          /\ task[t].who = u /\ Absent(v, task[t]) /\ j.pc # "idle" => Absent(v, j)
    BY <1>3, <2>1
  <2> QED  BY <1>1, <1>2, <1>3, <2>2, SetGoners
<1> QED  BY <1>11, <1>12, <1>13, <1>14 DEF LInv

LEMMA InitLInv == Init => LInv /\ NoLeave
<1> SUFFICES ASSUME Init PROVE LInv /\ NoLeave
  OBVIOUS
<1>1. IInv /\ Types
  BY InitIInv DEF IInv
<1>2. /\ registered = Npcs \cup ingame /\ invisible = {}
      /\ \A u \in Users : view_list[u] = IF u \in ingame THEN InSight(u) ELSE {}
      /\ \A t \in Threads : task[t] = Idle
  BY Zenon DEF Init
<1>3. \A u \in Users, o \in Objects :
        screen[u][o] = IF u \in ingame /\ o \in InSight(u) \cup {u} THEN Entry("shown", pos[o]) ELSE Nothing
  BY Zenon DEF Init
<1>4. Idle.pc = "idle" /\ Idle.kind = "none"
  BY DEF Idle, Task
<1>5. \A t \in Threads : ~Active(t)
  BY <1>2, <1>4 DEF Active
<1>6. Ground /\ NoLeave
  BY <1>2, <1>4 DEF Ground, NoLeave
<1>7. Lessons
  BY <1>5 DEF Lessons, LessonOK
<1>8. Goners
  <2> SUFFICES ASSUME NEW u \in ingame, NEW v \in Users \ ingame  PROVE Gone(u, v)
    BY DEF Goners
  <2>1. u \in Users /\ v \in Objects /\ v # u /\ v \notin registered
    BY <1>1, <1>2, ObjectAssumption DEF Types, Objects
  <2>2. v \notin InSight(u)
    BY <2>1 DEF InSight
  <2>3. v \notin view_list[u] /\ screen[u][v] = Nothing
    BY <1>2, <1>3, <2>1, <2>2
  <2> QED  BY <1>5, <2>3 DEF Gone, Nothing, Entry
<1> QED  BY <1>1, <1>6, <1>7, <1>8 DEF LInv

LEMMA NextNoLeave ==
  ASSUME Types, NoLeave, [BeatNext]_vars
  PROVE  NoLeave'
<1>1. ASSUME NEW t \in Threads, NEW k, k.kind # "leave", task' = [task EXCEPT ![t] = k]
      PROVE  NoLeave'
  <2>1. \A x \in Threads : task'[x] = IF x = t THEN k ELSE task[x]
    BY <1>1 DEF Types
  <2> QED  BY <1>1, <2>1 DEF NoLeave
<1>2. ASSUME NEW t \in Threads, NEW pc, NEW kind, NEW w, NEW old, NEW todo, NEW now,
             Begin(t, Task(pc, kind, w, old, todo, now)), kind # "leave"
      PROVE  NoLeave'
  <2>1. Task(pc, kind, w, old, todo, now).kind = kind
    BY DEF Task
  <2> QED  BY <1>1, <1>2, <2>1 DEF Begin
<1>3. Users \subseteq Threads /\ Npcs \subseteq Threads /\ Other \in Threads /\ Idle.kind = "none"
  BY DEF Threads, Objects, Idle, Task
<1>4. CASE UNCHANGED vars
  BY <1>4 DEF NoLeave, vars
<1>5. ASSUME NEW u \in Users, BeatLogin(u) \/ BeatMove(u) \/ BeatDisconnect(u)  PROVE NoLeave'
  BY <1>2, <1>3, <1>5 DEF BeatLogin, BeatMove, BeatDisconnect
<1>6. ASSUME NEW n \in Npcs, NEW t \in {n, Other}, BeatNpcMove(t, n)  PROVE NoLeave'
  BY <1>2, <1>3, <1>6 DEF BeatNpcMove
<1>7. ASSUME NEW t \in Threads, BeatCopy(t) \/ BeatStep(t) \/ BeatBuild(t) \/ BeatStore(t)
      PROVE  NoLeave'
  <2>1. task[t].kind # "leave" /\ task[t] \in Tasks
    BY DEF NoLeave, Types
  <2>2. CASE BeatCopy(t)
    BY <1>1, <2>1, <2>2 DEF BeatCopy, Copy, Set, Tasks
  <2>3. CASE BeatStep(t)
    BY <1>1, <2>1, <2>3 DEF BeatStep, Step, Set, Tasks
  <2>4. CASE BeatBuild(t)
    <3>1. PICK j \in Tasks : Set(t, j) /\ j.kind = task[t].kind
      BY <2>4, BuildStep DEF BeatBuild
    <3> QED  BY <1>1, <2>1, <3>1 DEF Set
  <2>5. CASE BeatStore(t)
    BY <1>1, <1>3, <2>5 DEF BeatStore, Set
  <2> QED  BY <1>7, <2>2, <2>3, <2>4, <2>5
<1>8. ASSUME NEW t \in Threads, BeatScan(t)  PROVE NoLeave'
  <2>1. task[t].kind # "leave" /\ task[t] \in Tasks
    BY DEF NoLeave, Types
  <2>2. ASSUME NEW P, NEW keep
        PROVE  Spread(task[t], P, keep).kind # "leave"
    BY <1>3, <2>1 DEF Spread, Tasks
  <2> QED  BY <1>1, <1>8, <2>2 DEF BeatScan, Set
<1>9. ASSUME NEW t \in Threads, BeatSend(t)  PROVE NoLeave'
  <2>1. task[t].kind # "leave"
    BY DEF NoLeave
  <2>2. PICK m \in task[t].out, j \in Tasks : Sends(t, m, j)
    BY <1>9, BeatSendStep
  <2>3. Set(t, j) /\ TaskOK(j) /\ (j.pc = "idle" \/ j.kind = task[t].kind)
    BY <2>2 DEF Sends
  <2>4. j.kind # "leave"
    BY <1>3, <2>1, <2>3 DEF TaskOK
  <2> QED  BY <1>1, <2>3, <2>4 DEF Set
<1> QED  BY <1>4, <1>5, <1>6, <1>7, <1>8, <1>9 DEF BeatNext

LEMMA NextLInv ==
  ASSUME LInv, NoLeave, [BeatNext]_vars
  PROVE  LInv'
<1>1. CASE UNCHANGED vars
  <2>1. UNCHANGED <<ingame, registered, pos, invisible, view_list, screen, task, dirty>>
    BY <1>1 DEF vars, world, life, past
  <2>2. IInv /\ Types /\ Ground /\ Lessons /\ Goners
    BY DEF LInv, IInv
  <2>3. Lessons'
    <3> SUFFICES ASSUME NEW u \in ingame, NEW o \in Npcs \cup ingame, o # u, <<u, o>> \notin dirty
                 PROVE  LessonOK(u, o)'
      BY <2>1 DEF Lessons
    <3>1. u \in Users /\ o \in Objects /\ LessonOK(u, o) /\ Same(u, o)
      BY <2>1, <2>2 DEF Types, Objects, Lessons, Same
    <3> QED  BY <2>1, <2>2, <3>1, LessonFrame
  <2>4. Goners'
    <3>1. \A v, x : Absent(v, task[x])' <=> Absent(v, task[x])
      BY <2>1, Zenon DEF Absent, Packets, Due, Sent, Elements
    <3>2. \A u, v : Gone(u, v) => Gone(u, v)'
      BY <2>1, <3>1 DEF Gone, Active
    <3> QED  BY <2>1, <2>2, <3>2 DEF Goners
  <2>5. IInv' /\ Ground'
    BY <1>1, <2>1, <2>2, StillIInv DEF Ground
  <2> QED  BY <2>3, <2>4, <2>5 DEF LInv
<1>2. ASSUME NEW u \in Users, BeatLogin(u) \/ BeatMove(u) \/ BeatDisconnect(u)  PROVE LInv'
  BY <1>2, BeatLoginKeeps, BeatMoveKeeps, BeatDisconnectKeeps
<1>3. ASSUME NEW n \in Npcs, NEW t \in {n, Other}, BeatNpcMove(t, n)  PROVE LInv'
  <2>1. t \in Threads
    BY DEF Threads, Objects
  <2> QED  BY <1>3, <2>1, BeatNpcMoveKeeps
<1>4. ASSUME NEW t \in Threads,
             BeatCopy(t) \/ BeatStep(t) \/ BeatScan(t) \/ BeatBuild(t) \/ BeatSend(t) \/ BeatStore(t)
      PROVE  LInv'
  BY <1>4, BeatCopyKeeps, BeatStepKeeps, BeatScanKeeps, BeatBuildKeeps, BeatSendKeeps, BeatStoreKeeps
<1> QED  BY <1>1, <1>2, <1>3, <1>4 DEF BeatNext

\* The invariant of the lesson's server.
THEOREM BeatInvariance == BeatSpec => [](LInv /\ NoLeave)
<1>1. LInv /\ NoLeave /\ [BeatNext]_vars => (LInv /\ NoLeave)'
  BY NextLInv, NextNoLeave DEF LInv, IInv
<1> QED  BY <1>1, InitLInv, PTL DEF BeatSpec

\* TypeOK, in the lesson: its variables keep their types, whatever overlaps.
THEOREM BeatTypeCorrect == BeatSpec => []TypeOK
<1>1. LInv => TypeOK
  BY TypesAre DEF LInv, IInv
<1> QED  BY <1>1, BeatInvariance, PTL

\* ShownIsListed, in the lesson: although two workers may move one monster and
\* every CS_MOVE stores its scan over the list, between two objects whose
\* handlers never overlapped the client shows what the list holds.
THEOREM BeatShownIsListed == BeatSpec => []ShownIsListed
<1>1. LInv => ShownIsListed
  BY CleanPromises DEF LInv
<1> QED  BY <1>1, BeatInvariance, PTL

\* ListedIsSeen, in the lesson: ... and the list holds what is in sight.
THEOREM BeatListedIsSeen == BeatSpec => []ListedIsSeen
<1>1. LInv => ListedIsSeen
  BY CleanPromises DEF LInv
<1> QED  BY <1>1, BeatInvariance, PTL

\* Placed, in the lesson: ... and what is shown is shown where it is.
THEOREM BeatPlaced == BeatSpec => []Placed
<1>1. LInv => Placed
  BY CleanPromises DEF LInv
<1> QED  BY <1>1, BeatInvariance, PTL

\* GoneIsForgotten, in the lesson: when a user has left, nobody it never
\* overlapped with has it in a list or on a screen, because disconnect tells
\* both sides of every pair in sight before it gives the slot back.
THEOREM BeatGoneIsForgotten == BeatSpec => []GoneIsForgotten
<1>1. ASSUME LInv  PROVE GoneIsForgotten
  <2> SUFFICES ASSUME NEW u \in ingame, NEW v \in Users \ registered, <<u, v>> \notin dirty
               PROVE  v \notin view_list[u] /\ screen[u][v].how = "none"
    BY DEF GoneIsForgotten
  <2>1. v \in Users \ ingame
    BY <1>1 DEF LInv, Ground
  <2> QED  BY <1>1, <2>1 DEF LInv, Goners, Gone
<1> QED  BY <1>1, BeatInvariance, PTL

-----------------------------------------------------------------------------
(* A move of the lesson that nobody runs beside. *)

\* In alone, and still on its way.
Single(u) == u \in Users /\ u \in alone /\ Active(u) /\ task[u].kind = "move"

\* It keeps what it has found.
BeatSolo ==
  \A u \in Users : Single(u) =>
    task[u].who = u /\ (task[u].pc \in {"build", "send", "store"} => task[u].old = Alive(u))

BeatSoloInv == LInv /\ NoLeave /\ Lone /\ BeatSolo

LEMMA BeatBeginSolo ==
  ASSUME Types, Lone, NEW t \in Threads, NEW k \in Tasks, TaskOK(k), Begin(t, k),
         k.kind = "move" /\ t \in Users => k.pc = "copy" /\ k.who = t
  PROVE  Lone' /\ BeatSolo'
<1>1. /\ Lone'
      /\ \A u \in alone' : Active(u)' => u = t
      /\ task'[t] = k
  BY BeginLone
<1> QED  BY <1>1 DEF BeatSolo, Single

LEMMA BeatSetSolo ==
  ASSUME Types, Lone, BeatSolo, NEW t \in Threads, Active(t), NEW j \in Tasks, TaskOK(j), Set(t, j), alone' = alone,
         j.pc # "idle" => j.who = task[t].who /\ j.kind = task[t].kind,
         Single(t) /\ j.pc \in {"build", "send", "store"} => j.old = Alive(t)'
  PROVE  Lone' /\ BeatSolo'
<1>1. /\ Lone'
      /\ \A u \in alone : Active(u) \/ Active(u)' => u = t
      /\ task'[t] = j /\ \A x \in Threads \ {t} : task'[x] = task[x]
  BY SetLone
<1>2. ASSUME NEW u \in Users, Single(u)'
      PROVE  task'[u].who = u /\ (task'[u].pc \in {"build", "send", "store"} => task'[u].old = Alive(u)')
  <2>1. u = t /\ j.pc # "idle"
    BY <1>1, <1>2 DEF Single, Active
  <2>2. Single(t)
    BY <1>1, <1>2, <2>1 DEF Single
  <2>3. task[t].who = t
    BY <1>2, <2>1, <2>2 DEF BeatSolo
  <2> QED  BY <1>1, <2>1, <2>2, <2>3
<1>3. BeatSolo'
  BY <1>2 DEF BeatSolo
<1> QED  BY <1>1, <1>3

\* Every step of it but the last leaves a handler, and the last one stores what
\* is in sight.
LEMMA BeatStepSolo ==
  ASSUME BeatSoloInv, NEW t \in Threads,
         BeatCopy(t) \/ BeatStep(t) \/ BeatScan(t) \/ BeatBuild(t) \/ BeatSend(t) \/ BeatStore(t)
  PROVE  /\ Lone' /\ BeatSolo'
         /\ Single(t) /\ task'[t] = Idle => view_list'[t] = Alive(t)
<1>1. Types /\ Ground /\ Lone /\ BeatSolo
  BY DEF BeatSoloInv, LInv, IInv
<1>2. Active(t) /\ alone' = alone
  BY DEF BeatCopy, BeatStep, BeatScan, BeatBuild, BeatSend, BeatStore, Copy, Step, Build, past, Active
<1>3. Idle.pc = "idle" /\ Idle.kind = "none" /\ Idle \in Tasks /\ TaskOK(Idle) /\ \A q : ~Due(Idle, q)
  BY IdleOK, Empty DEF Idle, Task, Due
<1>4. Single(t) => task[t].who = t
  BY <1>1 DEF BeatSolo, Single
<1>5. \A j \in Tasks : Set(t, j) => task'[t] = j
  BY <1>1 DEF Set, Types
<1>6. CASE BeatCopy(t)
  <2>1. PICK j \in Tasks : TaskOK(j) /\ Set(t, j) /\ j.pc = "scan" /\ j.kind = "move" /\ j.who = task[t].who
    BY <1>1, <1>6, CopyTask DEF BeatCopy
  <2>2. task[t].kind = "move"
    BY <1>1, <1>6, CopyTask DEF BeatCopy
  <2> QED  BY <1>1, <1>2, <1>3, <1>5, <2>1, <2>2, BeatSetSolo
<1>7. CASE BeatStep(t)
  <2>1. PICK j \in Tasks : TaskOK(j) /\ Set(t, j) /\ j.pc = "scan" /\ j.kind = "npc" /\ j.who = task[t].who
    BY <1>1, <1>7, StepTask DEF BeatStep
  <2>2. task[t].kind = "npc"
    BY <1>1, <1>7, StepTask DEF BeatStep
  <2> QED  BY <1>1, <1>2, <1>3, <1>5, <2>1, <2>2, BeatSetSolo
<1>8. CASE BeatScan(t)
  <2> PICK k \in Tasks : k = task[t]
    BY <1>1 DEF Types
  <2> PICK keep \in SUBSET Objects : keep = Alive(k.who)
    <3>1. k.who \in Objects
      BY <1>1, <1>8 DEF BeatScan, Types, TaskOK, KindOK
    <3> QED  BY <1>1, <3>1, LookTypes
  <2>1. ScanInto(t, keep)
    BY <1>1, <1>8, BeatScanIs, BeatLooksSame
  <2> DEFINE P == Updates(task[t].kind, task[t].who, task[t].old, Found(task[t].kind, task[t].who)) \ {<<>>}
             h == Spread(task[t], P, keep)
  <2>2. /\ h \in Tasks /\ TaskOK(h) /\ Set(t, h)
        /\ h.pc = "build" => h.old = keep
        /\ h.pc = "idle" \/ (h.pc = "build" /\ h.who = task[t].who /\ h.kind = task[t].kind)
        /\ task[t].kind = "move" => Due(h, Packet("move", task[t].who, task[t].who))
    BY <1>1, <2>1, ScanTask
  <2> HIDE DEF P, h
  <2>3. PICK j \in Tasks : j = h
    BY <2>2
  <2>4. Alive(t)' = Alive(t)
    BY <1>8, AliveSame DEF BeatScan, world, life
  <2>5. Single(t) /\ j.pc = "build" => j.old = Alive(t)'
    BY <1>4, <2>2, <2>3, <2>4
  <2>6. task[t].kind = "move" => j # Idle
    BY <1>3, <2>2, <2>3
  <2> QED  BY <1>1, <1>2, <1>5, <2>2, <2>3, <2>5, <2>6, BeatSetSolo DEF Single
<1>9. CASE BeatBuild(t)
  <2>1. PICK j \in Tasks :
          TaskOK(j) /\ Set(t, j) /\ j.pc = "send" /\ j.who = task[t].who /\ j.kind = task[t].kind /\ j.old = task[t].old
    BY <1>1, <1>9, BuildStep DEF BeatBuild
  <2>2. task[t].pc = "build" /\ Alive(t)' = Alive(t)
    BY <1>9, AliveSame DEF BeatBuild, Build, world, life
  <2>3. Single(t) => j.old = Alive(t)'
    BY <1>1, <2>1, <2>2 DEF BeatSolo, Single
  <2> QED  BY <1>1, <1>2, <1>3, <1>5, <2>1, <2>3, BeatSetSolo
<1>10. CASE BeatSend(t)
  <2>1. PICK m \in task[t].out, j \in Tasks :
          /\ Sends(t, m, j)
          /\ j.pc # "idle" => j.old = task[t].old
          /\ j.pc = "idle" => task[t].kind # "move"
          /\ registered' = IF j.pc = "idle" /\ task[t].kind = "bye"
                           THEN registered \ {task[t].who} ELSE registered
    BY <1>1, <1>10, BeatSendStep
  <2>2. /\ task[t].pc = "send" /\ TaskOK(j) /\ Set(t, j)
        /\ j.pc # "idle" => j.who = task[t].who /\ j.kind = task[t].kind
    BY <2>1 DEF Sends
  <2>3. task[t].kind = "move" => Alive(t)' = Alive(t)
    BY <1>10, <2>1, AliveSame DEF BeatSend, life
  <2>4. Single(t) /\ j.pc # "idle" => j.old = Alive(t)'
    BY <1>1, <2>1, <2>2, <2>3 DEF BeatSolo, Single
  <2>5. Single(t) => task'[t] # Idle
    BY <1>3, <1>5, <2>1, <2>2 DEF Single
  <2> QED  BY <1>1, <1>2, <2>2, <2>4, <2>5, BeatSetSolo
<1>11. CASE BeatStore(t)
  <2>1. Set(t, Idle) /\ task[t].pc = "store" /\ view_list' = [view_list EXCEPT ![task[t].who] = task[t].old]
    BY <1>11 DEF BeatStore
  <2>2. Single(t) => view_list'[t] = Alive(t)
    BY <1>1, <2>1 DEF BeatSolo, Single, Types
  <2> QED  BY <1>1, <1>2, <1>3, <2>1, <2>2, BeatSetSolo
<1> QED  BY <1>6, <1>7, <1>8, <1>9, <1>10, <1>11

LEMMA BeatNextSolo ==
  ASSUME BeatSoloInv, [BeatNext]_vars
  PROVE  /\ BeatSoloInv'
         /\ \A u \in Users : task[u].kind = "move" /\ u \in alone /\ task'[u] = Idle =>
              view_list'[u] = Alive(u)
<1> DEFINE Good == \A u \in Users : task[u].kind = "move" /\ u \in alone /\ task'[u] = Idle =>
                     view_list'[u] = Alive(u)
<1>1. Types /\ Lone /\ BeatSolo /\ LInv' /\ NoLeave'
  BY NextLInv, NextNoLeave DEF BeatSoloInv, LInv, IInv
<1>2. /\ Users \subseteq Threads /\ Npcs \subseteq Threads /\ Other \in Threads
      /\ Idle.kind = "none" /\ Idle.pc = "idle"
  BY DEF Threads, Objects, Idle, Task
<1>3. ASSUME NEW t \in Threads, NEW k \in Tasks, TaskOK(k), Begin(t, k), k.pc # "idle",
             k.kind = "move" /\ t \in Users => k.pc = "copy" /\ k.who = t
      PROVE  Lone' /\ BeatSolo' /\ Good
  <2>1. task'[t] = k /\ \A x \in Threads \ {t} : task'[x] = task[x]
    BY <1>1, <1>3, BeginLone
  <2>2. Good
    BY <1>2, <1>3, <2>1
  <2> QED  BY <1>1, <1>3, <2>2, BeatBeginSolo
<1>4. ASSUME UNCHANGED vars  PROVE Lone' /\ BeatSolo' /\ Good
  <2>1. UNCHANGED <<registered, pos, invisible, task, alone>>
    BY <1>4 DEF vars, world, life, past
  <2>2. \A u : Alive(u)' = Alive(u)
    BY <2>1, AliveSame
  <2>3. Lone' /\ BeatSolo'
    BY <1>1, <2>1, <2>2 DEF Lone, BeatSolo, Single, Active
  <2>4. Good
    <3>1. \A u : task'[u] = task[u]
      BY <2>1
    <3> QED  BY <1>2, <3>1
  <2> QED  BY <2>3, <2>4
<1>5. ASSUME NEW u \in Users, BeatLogin(u)  PROVE Lone' /\ BeatSolo' /\ Good
  <2>1. PICK k \in Tasks : k = Task("scan", "login", u, {}, {}, <<>>) /\ TaskOK(k)
    BY NewTask DEF Objects
  <2>2. Begin(u, k) /\ k.kind = "login" /\ k.pc = "scan"
    BY <1>5, <2>1 DEF BeatLogin, Task
  <2> QED  BY <1>2, <1>3, <2>1, <2>2
<1>6. ASSUME NEW u \in Users, BeatMove(u)  PROVE Lone' /\ BeatSolo' /\ Good
  <2>1. PICK k \in Tasks : k = Task("copy", "move", u, {}, {}, <<>>) /\ TaskOK(k)
    BY NewTask DEF Objects
  <2>2. Begin(u, k) /\ k.pc = "copy" /\ k.who = u
    BY <1>6, <2>1 DEF BeatMove, Task
  <2> QED  BY <1>2, <1>3, <2>1, <2>2
<1>7. ASSUME NEW u \in Users, BeatDisconnect(u)  PROVE Lone' /\ BeatSolo' /\ Good
  <2>1. InSight(u) \in SUBSET Objects /\ u \notin InSight(u)
    BY <1>1, LookTypes DEF Objects
  <2>2. PICK k \in Tasks : k = Bye(u, InSight(u)) /\ TaskOK(k) /\ k.kind = "bye" /\ k.pc = "build"
    BY <2>1, ByeTask
  <2>3. Begin(Other, k)
    BY <1>7, <2>2, BeatLooksSame DEF BeatDisconnect, Bye
  <2> QED  BY <1>2, <1>3, <2>2, <2>3
<1>8. ASSUME NEW n \in Npcs, NEW t \in {n, Other}, BeatNpcMove(t, n)  PROVE Lone' /\ BeatSolo' /\ Good
  <2>1. PICK k \in Tasks : k = Task("step", "npc", n, InSight(n), {}, <<>>) /\ TaskOK(k)
    BY <1>1, NewTask, LookTypes DEF Objects
  <2>2. Begin(t, k) /\ k.kind = "npc" /\ k.pc = "step"
    BY <1>8, <2>1, BeatLooksSame DEF BeatNpcMove, Task
  <2> QED  BY <1>2, <1>3, <2>1, <2>2
<1>9. ASSUME NEW t \in Threads,
             BeatCopy(t) \/ BeatStep(t) \/ BeatScan(t) \/ BeatBuild(t) \/ BeatSend(t) \/ BeatStore(t)
      PROVE  Lone' /\ BeatSolo' /\ Good
  <2>1. \A x \in Threads \ {t} : task'[x] = task[x]
    BY <1>1, <1>9 DEF BeatCopy, BeatStep, BeatScan, BeatBuild, BeatSend, BeatStore, Copy, Step, Build, Set, Types
  <2>2. Lone' /\ BeatSolo' /\ (Single(t) /\ task'[t] = Idle => view_list'[t] = Alive(t))
    BY <1>9, BeatStepSolo
  <2>3. Active(t)
    BY <1>9 DEF BeatCopy, BeatStep, BeatScan, BeatBuild, BeatSend, BeatStore, Copy, Step, Build, Active
  <2>4. Good
    BY <1>2, <2>1, <2>2, <2>3 DEF Single
  <2> QED  BY <2>2, <2>4
<1> HIDE DEF Good
<1>10. Lone' /\ BeatSolo' /\ Good
  <2>1. CASE BeatNext
    BY <1>5, <1>6, <1>7, <1>8, <1>9, <2>1 DEF BeatNext
  <2> QED  BY <1>4, <2>1
<1> QED  BY <1>1, <1>10 DEF Good, BeatSoloInv

\* SoloMoveRepairs, in the lesson: a CS_MOVE stores what its scan has found, so
\* one that nothing else ran beside ends with what is in sight, however wrong
\* the list was.
THEOREM BeatSoloMoveRepairs == BeatSpec => SoloMoveRepairs
<1>1. Init => BeatSoloInv
  <2>1. ASSUME Init  PROVE Lone /\ BeatSolo
    <3>1. alone = {}
      BY <2>1 DEF Init
    <3> QED  BY <3>1 DEF Lone, BeatSolo, Single
  <2> QED  BY <2>1, InitLInv DEF BeatSoloInv
<1>2. BeatSoloInv /\ [BeatNext]_vars => BeatSoloInv'
  BY BeatNextSolo
<1>3. BeatSoloInv /\ [BeatNext]_vars =>
        [\A u \in Users : task[u].kind = "move" /\ u \in alone /\ task'[u] = Idle =>
           view_list'[u] = Alive(u)]_vars
  BY BeatNextSolo
<1> QED  BY <1>1, <1>2, <1>3, PTL DEF BeatSpec, SoloMoveRepairs
=============================================================================
