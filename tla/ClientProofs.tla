----------------------------- MODULE ClientProofs -----------------------------
(***************************************************************************)
(* The two client programs: the stress test and the first lesson.  For any *)
(* number of workers, clients and ids of the stress test: the count of the *)
(* active clients, the room for their points, that no connected client is  *)
(* deaf, and that client_map leads from an id to the client that has it.   *)
(* For any number of clients on the board: that each shows whom the server *)
(* has, draws its own piece as its own, and waits for nothing in vain.     *)
(***************************************************************************)
EXTENDS StressTest, BoardGame, FiniteSetTheorems, WellFoundedInduction, TLAPS

Threads == Workers \cup {Test}
Stages  == {"idle", "close", "loop", "count", "later", "sooner"}
Reading == {"loop", "count", "later", "sooner"}

(* Thread t has the last completion of client c in hand, and the one whose  *)
(* login it is about to count.                                              *)
Reads(t, c)  == thread[t].pc \in Reading /\ thread[t].c = c
Counts(t, c) == thread[t].pc = "count" /\ thread[t].c = c

Connected == {c \in Clients : connected[c]}
Untold    == {c \in Clients : sock[c] # "none" /\ c \notin told}

Types ==
  /\ connected \in [Clients -> BOOLEAN] /\ active \in Int
  /\ client_map \in [Ids -> Clients \cup {NoOne}]
  /\ num_connections \in 0..MAX_CLIENTS /\ client_to_close \in Nat
  /\ sock \in [Clients -> {"none", "open", "reset", "closed"}]
  /\ posted \in [Clients -> BOOLEAN]
  /\ given \in [Clients -> Ids \cup {NoOne}] /\ told \subseteq Clients
  /\ thread \in [Threads -> [pc : Stages, c : Clients \cup {NoOne}]]
  /\ flight \in Nat

(* The clients made are the first places, and the server knows those only.  *)
Made ==
  /\ \A c \in Clients : sock[c] # "none" <=> c < num_connections
  /\ \A c \in Clients : given[c] # NoOne => sock[c] # "none"
  /\ \A c \in told : given[c] # NoOne
  /\ \A c \in Clients : connected[c] => c \in told

(* A client's completions are read by one thread at a time, and not while a *)
(* WSARecv is pending.                                                      *)
Readers ==
  /\ \A t \in Threads : thread[t].pc # "idle" => thread[t].c \in Clients
  /\ \A t \in Threads : thread[t].pc = "close" => sock[thread[t].c] # "none"
  /\ \A t \in Threads, c \in Clients : Reads(t, c) => given[c] # NoOne /\ ~posted[c]
  /\ \A t \in Threads : thread[t].pc \in {"count", "later", "sooner"} => thread[t].c \in told
  /\ \A t, u \in Threads, c \in Clients : Reads(t, c) /\ Reads(u, c) => t = u

TShape == Types /\ Made /\ Readers
-----------------------------------------------------------------------------
LEMMA NoOneIsNobody == NoOne \notin Clients /\ Idle.pc = "idle" /\ Idle.c = NoOne
BY DEF NoOne, Clients, Idle, Job

LEMMA JobIs ==
  ASSUME NEW stage \in Stages, NEW c \in Clients
  PROVE  /\ Job(stage, c).pc = stage /\ Job(stage, c).c = c
         /\ Job(stage, c) \in [pc : Stages, c : Clients \cup {NoOne}]
BY DEF Job

LEMMA IdleIs == Idle \in [pc : Stages, c : Clients \cup {NoOne}]
BY DEF Idle, Job, Stages

LEMMA StagesAre ==
  /\ "close" \in Stages /\ "loop" \in Stages /\ "count" \in Stages /\ "later" \in Stages
  /\ "sooner" \in Stages /\ Reading \subseteq Stages /\ "idle" \notin Reading /\ "close" \notin Reading
  /\ "loop" \in Reading /\ "count" \in Reading /\ "later" \in Reading /\ "sooner" \in Reading
BY DEF Stages, Reading

(* Where a step leaves the threads. *)
LEMMA Went ==
  ASSUME Types, NEW t \in Threads, NEW k \in [pc : Stages, c : Clients \cup {NoOne}], Goto(t, k)
  PROVE  /\ thread' \in [Threads -> [pc : Stages, c : Clients \cup {NoOne}]]
         /\ thread'[t] = k /\ \A u \in Threads \ {t} : thread'[u] = thread[u]
BY DEF Types, Goto

(* A step of one thread that leaves what the network and the server know.   *)
LEMMA StepShape ==
  ASSUME TShape, Types', NEW t \in Threads, NEW k, thread'[t] = k,
         \A u \in Threads \ {t} : thread'[u] = thread[u],
         UNCHANGED <<num_connections, given>>,
         \A c \in Clients : sock'[c] = "none" <=> sock[c] = "none",
         told \subseteq told', \A c \in told' : given[c] # NoOne,
         \A c \in Clients : connected'[c] => c \in told',
         \A c \in Clients : posted'[c] => posted[c] \/ (Reads(t, c) /\ k.pc \notin Reading),
         k.pc # "idle" => k.c \in Clients,
         k.pc = "close" => sock[k.c] # "none",
         k.pc \in Reading => (Reads(t, k.c) \/ posted[k.c]) /\ given[k.c] # NoOne /\ ~posted'[k.c],
         k.pc \in {"count", "later", "sooner"} => k.c \in told'
  PROVE  TShape'
<1>1. Made'
  BY DEF TShape, Made
<1>2. \A u \in Threads : thread'[u].pc # "idle" => thread'[u].c \in Clients
  BY DEF TShape, Readers
<1>3. \A u \in Threads : thread'[u].pc = "close" => sock'[thread'[u].c] # "none"
  BY <1>2 DEF TShape, Readers
<1>4. \A u \in Threads, c \in Clients : Reads(u, c)' => given'[c] # NoOne /\ ~posted'[c]
  <2>1. SUFFICES ASSUME NEW u \in Threads, NEW c \in Clients, Reads(u, c)'
                 PROVE  given'[c] # NoOne /\ ~posted'[c]
    OBVIOUS
  <2>2. CASE u = t
    BY <2>1, <2>2 DEF Reads
  <2>3. CASE u # t
    <3>1. Reads(u, c)
      BY <2>1, <2>3 DEF Reads
    <3>2. ~Reads(t, c) /\ ~posted[c] /\ given[c] # NoOne
      BY <2>3, <3>1 DEF TShape, Readers
    <3>3. QED
      BY <3>2
  <2>4. QED
    BY <2>2, <2>3
<1>5. \A u \in Threads : thread'[u].pc \in {"count", "later", "sooner"} => thread'[u].c \in told'
  BY DEF TShape, Readers
<1>6. ASSUME NEW u \in Threads, NEW v \in Threads, NEW c \in Clients, Reads(u, c)', Reads(v, c)'
      PROVE  u = v
  <2>1. ASSUME NEW x \in Threads \ {t}, Reads(x, c)', Reads(t, c)' PROVE FALSE
    <3>1. Reads(x, c)
      BY <2>1 DEF Reads
    <3>2. Reads(t, c) \/ posted[c]
      BY <2>1 DEF Reads
    <3>3. QED
      BY <2>1, <3>1, <3>2 DEF TShape, Readers
  <2>2. CASE u # t /\ v # t
    <3>1. Reads(u, c) /\ Reads(v, c)
      BY <1>6, <2>2 DEF Reads
    <3>2. QED
      BY <3>1 DEF TShape, Readers
  <2>3. QED
    BY <1>6, <2>1, <2>2
<1>7. QED
  BY <1>1, <1>2, <1>3, <1>4, <1>5, <1>6 DEF TShape, Readers

(* DisconnectClient at thread t, which had no or client c's last completion. *)
LEMMA DisconnectShape ==
  ASSUME TShape, NEW t \in Threads, NEW c \in Clients, DisconnectClient(t, c),
         posted' \in [Clients -> BOOLEAN], \A d \in Clients : posted'[d] => posted[d],
         client_to_close' \in Nat,
         UNCHANGED <<active, client_map, num_connections, sock, given, told, flight>>
  PROVE  TShape'
<1> DEFINE k == IF connected[c] THEN Job("close", c) ELSE Idle
<1>1. /\ Goto(t, k) /\ connected' = [connected EXCEPT ![c] = FALSE]
      /\ k \in [pc : Stages, c : Clients \cup {NoOne}]
      /\ k.pc \in {"idle", "close"} /\ (k.pc = "close" => connected[c] /\ k.c = c)
  BY JobIs, IdleIs, NoOneIsNobody, StagesAre DEF DisconnectClient
<1> HIDE DEF k
<1>2. connected' \in [Clients -> BOOLEAN] /\ \A d \in Clients : connected'[d] => connected[d]
  BY <1>1 DEF TShape, Types
<1>3. /\ thread' \in [Threads -> [pc : Stages, c : Clients \cup {NoOne}]]
      /\ thread'[t] = k /\ \A u \in Threads \ {t} : thread'[u] = thread[u]
  BY <1>1, Went DEF TShape
<1>4. Types'
  BY <1>2, <1>3 DEF TShape, Types
<1>5. k.pc = "close" => sock[k.c] # "none"
  BY <1>1 DEF TShape, Made
<1>6. k.pc \notin Reading /\ k.pc \notin {"count", "later", "sooner"} /\ (k.pc # "idle" => k.c \in Clients)
  BY <1>1, StagesAre
<1>7. \A d \in told' : given[d] # NoOne
  BY DEF TShape, Made
<1>8. \A d \in Clients : connected'[d] => d \in told'
  BY <1>2 DEF TShape, Made
<1>9. QED
  BY <1>2, <1>3, <1>4, <1>5, <1>6, <1>7, <1>8, StepShape

(* What the test thread and the server do with no thread going anywhere. *)
LEMMA QuietShape ==
  ASSUME TShape, Types', UNCHANGED <<thread, given, posted, told, connected>>,
         UNCHANGED num_connections, \A c \in Clients : sock'[c] = "none" <=> sock[c] = "none"
  PROVE  TShape'
<1>1. Made'
  BY DEF TShape, Made
<1>2. Readers'
  BY DEF TShape, Readers, Reads
<1>3. QED
  BY <1>1, <1>2 DEF TShape

(***************************************************************************)
(* Every step keeps the shape.                                             *)
(***************************************************************************)
LEMMA GrantShape ==
  ASSUME TShape, NEW c \in Clients, Grant(c)
  PROVE  TShape'
<1>1. PICK i \in Ids : given' = [given EXCEPT ![c] = i]
  BY DEF Grant
<1>2. /\ sock[c] = "open" /\ given[c] = NoOne
      /\ UNCHANGED <<connected, active, client_map, num_connections, client_to_close, sock, posted, told,
                     thread, flight>>
  BY DEF Grant, limits, network
<1>3. given' \in [Clients -> Ids \cup {NoOne}] /\ given'[c] # NoOne
  BY <1>1, IdsAssumption DEF TShape, Types
<1>4. \A d \in Clients : d # c => given'[d] = given[d]
  BY <1>1 DEF TShape, Types
<1>5. Types'
  BY <1>2, <1>3 DEF TShape, Types
<1>6. Made'
  BY <1>2, <1>3, <1>4 DEF TShape, Made, Types
<1>7. \A t \in Threads, d \in Clients : Reads(t, d)' => given'[d] # NoOne /\ ~posted'[d]
  BY <1>2, <1>3, <1>4 DEF TShape, Readers, Reads
<1>8. Readers'
  BY <1>2, <1>7 DEF TShape, Readers, Reads
<1>9. QED
  BY <1>5, <1>6, <1>8 DEF TShape

LEMMA DropShape ==
  ASSUME TShape, NEW c \in Clients, Drop(c)
  PROVE  TShape'
<1>1. /\ sock[c] = "open" /\ sock' = [sock EXCEPT ![c] = "reset"]
      /\ UNCHANGED <<connected, active, client_map, num_connections, client_to_close, posted, given, told,
                     thread, flight>>
  BY DEF Drop, limits, server
<1>2. Types'
  BY <1>1 DEF TShape, Types
<1>3. \A d \in Clients : sock'[d] = "none" <=> sock[d] = "none"
  BY <1>1 DEF TShape, Types
<1>4. QED
  BY <1>1, <1>2, <1>3, QuietShape

LEMMA CloseShape ==
  ASSUME TShape, NEW t \in Threads, Close(t)
  PROVE  TShape'
<1>1. PICK c \in Clients : c = thread[t].c /\ sock[c] # "none"
  BY DEF TShape, Readers, Close
<1>2. /\ sock' = [sock EXCEPT ![c] = "closed"] /\ active' = active - 1 /\ Goto(t, Idle)
      /\ thread[t].pc = "close"
      /\ UNCHANGED <<connected, client_map, num_connections, client_to_close, posted, given, told, flight>>
  BY <1>1 DEF Close, limits, server
<1>3. /\ thread' \in [Threads -> [pc : Stages, c : Clients \cup {NoOne}]]
      /\ thread'[t] = Idle /\ \A u \in Threads \ {t} : thread'[u] = thread[u]
  BY <1>2, Went, IdleIs DEF TShape
<1>4. Types'
  BY <1>2, <1>3 DEF TShape, Types
<1>5. \A d \in Clients : sock'[d] = "none" <=> sock[d] = "none"
  BY <1>1, <1>2 DEF TShape, Types
<1>6. /\ \A d \in told' : given[d] # NoOne
      /\ \A d \in Clients : connected'[d] => d \in told'
  BY <1>2 DEF TShape, Made
<1>7. QED
  BY <1>2, <1>3, <1>4, <1>5, <1>6, NoOneIsNobody, StagesAre, StepShape

LEMMA OverloadShape ==
  ASSUME TShape, Overload
  PROVE  TShape'
<1>1. UNCHANGED <<active, client_map, num_connections, flight, sock, posted, given, told>>
  BY DEF Overload, network, server
<1>2. CASE MIN_ACTIVE > active
  <2>1. UNCHANGED <<connected, client_to_close, thread>>
    BY <1>2 DEF Overload
  <2>2. Types'
    BY <1>1, <2>1 DEF TShape, Types
  <2>3. QED
    BY <1>1, <2>1, <2>2, QuietShape
<1>3. CASE ~ (MIN_ACTIVE > active)
  <2>1. /\ client_to_close < MAX_CLIENTS /\ client_to_close' = client_to_close + 1
        /\ DisconnectClient(Test, client_to_close)
    BY <1>3 DEF Overload
  <2>2. client_to_close \in Clients /\ client_to_close' \in Nat
    BY <2>1, SizesAssumption DEF TShape, Types, Clients
  <2>3. Test \in Threads /\ posted' \in [Clients -> BOOLEAN]
    BY <1>1 DEF TShape, Types, Threads
  <2>4. \A d \in Clients : posted'[d] => posted[d]
    BY <1>1
  <2>5. QED
    BY <1>1, <2>1, <2>2, <2>3, <2>4, DisconnectShape
<1>4. QED
  BY <1>2, <1>3

LEMMA ConnectShape ==
  ASSUME TShape, Connect, flight' \in Nat
  PROVE  TShape'
<1>1. UNCHANGED <<connected, active, client_map, client_to_close, given, told, thread>>
  BY DEF Connect, server
<1>2. CASE UNCHANGED <<sock, posted, num_connections, flight>>
  <2>1. Types'
    BY <1>1, <1>2 DEF TShape, Types
  <2>2. QED
    BY <1>1, <1>2, <2>1, QuietShape
<1>3. CASE ~ UNCHANGED <<sock, posted, num_connections, flight>>
  <2>1. PICK n \in Clients :
           /\ n = num_connections /\ num_connections' = n + 1
           /\ sock' = [sock EXCEPT ![n] = "open"] /\ posted' = [posted EXCEPT ![n] = TRUE]
    <3>1. num_connections \in Clients
      BY SizesAssumption DEF Connect, MayConnect, Room, TShape, Types, Clients
    <3>2. /\ num_connections' = num_connections + 1
          /\ sock' = [sock EXCEPT ![num_connections] = "open"]
          /\ posted' = [posted EXCEPT ![num_connections] = TRUE]
      BY <1>3 DEF Connect, network
    <3>3. QED
      BY <3>1, <3>2
  <2>2. num_connections' \in 0..MAX_CLIENTS
    BY <2>1, SizesAssumption DEF Clients
  <2>3. Types'
    BY <1>1, <2>1, <2>2 DEF TShape, Types
  <2>4. sock[n] = "none" /\ n \notin told /\ given[n] = NoOne
    <3>1. ~ (n < n) /\ n \in Int
      BY SizesAssumption DEF Clients
    <3>2. sock[n] = "none"
      BY <2>1, <3>1 DEF TShape, Made
    <3>3. QED
      BY <3>2 DEF TShape, Made
  <2>5. \A d \in Clients : sock'[d] # "none" <=> d < num_connections'
    <3>1. \A d \in Clients : d < n + 1 <=> d < n \/ d = n
      BY SizesAssumption DEF Clients
    <3>2. \A d \in Clients : sock'[d] # "none" <=> (sock[d] # "none" \/ d = n)
      BY <2>1 DEF TShape, Types
    <3>3. QED
      BY <2>1, <3>1, <3>2 DEF TShape, Made
  <2>6. \A d \in Clients : sock[d] # "none" => sock'[d] = sock[d] /\ posted'[d] = posted[d]
    BY <2>1, <2>4 DEF TShape, Types
  <2>7. Made'
    BY <1>1, <2>5, <2>6 DEF TShape, Made
  <2>8. \A t \in Threads, d \in Clients : Reads(t, d)' => given'[d] # NoOne /\ ~posted'[d]
    BY <1>1, <2>4, <2>6 DEF TShape, Readers, Reads, Made
  <2>9. \A t \in Threads : thread'[t].pc = "close" => sock'[thread'[t].c] # "none"
    <3>1. SUFFICES ASSUME NEW t \in Threads, thread[t].pc = "close" PROVE sock'[thread[t].c] # "none"
      BY <1>1
    <3>2. thread[t].c \in Clients /\ sock[thread[t].c] # "none"
      BY <3>1 DEF TShape, Readers
    <3>3. QED
      BY <2>6, <3>2
  <2>10. Readers'
    BY <1>1, <2>8, <2>9 DEF TShape, Readers, Reads
  <2>11. QED
    BY <2>3, <2>7, <2>10 DEF TShape
<1>4. QED
  BY <1>2, <1>3

LEMMA SendDoneShape ==
  ASSUME TShape, NEW w \in Threads, NEW c \in Clients, SendDone(w, c)
  PROVE  TShape'
<1>1. UNCHANGED <<active, client_map, num_connections, client_to_close, sock, posted, given, told, flight>>
  BY DEF SendDone, limits, server
<1>2. CASE UNCHANGED <<connected, thread>>
  <2>1. Types'
    BY <1>1, <1>2 DEF TShape, Types
  <2>2. QED
    BY <1>1, <1>2, <2>1, QuietShape
<1>3. CASE DisconnectClient(w, c)
  <2>1. /\ posted' \in [Clients -> BOOLEAN] /\ client_to_close' \in Nat
        /\ \A d \in Clients : posted'[d] => posted[d]
    BY <1>1 DEF TShape, Types
  <2>2. QED
    BY <1>1, <1>3, <2>1, DisconnectShape
<1>4. QED
  BY <1>2, <1>3 DEF SendDone

LEMMA RecvEndsShape ==
  ASSUME TShape, NEW w \in Threads, NEW c \in Clients, RecvEnds(w, c)
  PROVE  TShape'
<1>1. /\ posted' = [posted EXCEPT ![c] = FALSE] /\ DisconnectClient(w, c)
      /\ UNCHANGED <<active, client_map, num_connections, client_to_close, sock, given, told, flight>>
  BY DEF RecvEnds, limits, server
<1>2. /\ posted' \in [Clients -> BOOLEAN] /\ client_to_close' \in Nat
      /\ \A d \in Clients : posted'[d] => posted[d]
  BY <1>1 DEF TShape, Types
<1>3. QED
  BY <1>1, <1>2, DisconnectShape

LEMMA RecvDataShape ==
  ASSUME TShape, NEW w \in Threads, NEW c \in Clients, RecvData(w, c)
  PROVE  TShape'
<1> DEFINE k == Job("loop", c)
<1>1. /\ posted[c] /\ given[c] # NoOne /\ posted' = [posted EXCEPT ![c] = FALSE] /\ Goto(w, k)
      /\ UNCHANGED <<connected, active, client_map, num_connections, client_to_close, sock, given, told,
                     flight>>
  BY DEF RecvData, limits, server
<1>2. k.pc = "loop" /\ k.c = c /\ k \in [pc : Stages, c : Clients \cup {NoOne}]
  BY JobIs, StagesAre
<1> HIDE DEF k
<1>3. /\ thread' \in [Threads -> [pc : Stages, c : Clients \cup {NoOne}]]
      /\ thread'[w] = k /\ \A u \in Threads \ {w} : thread'[u] = thread[u]
  BY <1>1, <1>2, Went DEF TShape
<1>4. Types'
  BY <1>1, <1>3 DEF TShape, Types
<1>5. ~posted'[c] /\ \A d \in Clients : posted'[d] => posted[d]
  BY <1>1 DEF TShape, Types
<1>6. /\ \A d \in told' : given[d] # NoOne
      /\ \A d \in Clients : connected'[d] => d \in told'
      /\ \A d \in Clients : sock'[d] = "none" <=> sock[d] = "none"
  BY <1>1 DEF TShape, Made
<1>7. QED
  BY <1>1, <1>2, <1>3, <1>4, <1>5, <1>6, StagesAre, StepShape

(* A thread that goes on with the completion it has in hand. *)
LEMMA GoesOnShape ==
  ASSUME TShape, Types', NEW w \in Threads, NEW c \in Clients, Reads(w, c),
         NEW stage \in Reading, Goto(w, Job(stage, c)),
         UNCHANGED <<num_connections, given, sock, posted>>,
         told' = told \cup (IF stage = "loop" THEN {} ELSE {c}),
         \A d \in Clients : connected'[d] => d \in told'
  PROVE  TShape'
<1> DEFINE k == Job(stage, c)
<1>1. k.pc = stage /\ k.c = c /\ k \in [pc : Stages, c : Clients \cup {NoOne}]
  BY JobIs, StagesAre
<1>2. Goto(w, k)
  OBVIOUS
<1> HIDE DEF k
<1>3. thread'[w] = k /\ \A u \in Threads \ {w} : thread'[u] = thread[u]
  BY <1>1, <1>2, Went DEF TShape
<1>4. given[c] # NoOne /\ ~posted[c]
  BY DEF TShape, Readers
<1>5. told \subseteq told' /\ \A d \in told' : given[d] # NoOne
  BY <1>4 DEF TShape, Made
<1>6. \A d \in Clients : sock'[d] = "none" <=> sock[d] = "none"
  OBVIOUS
<1>7. /\ k.pc # "idle" /\ k.pc # "close" /\ k.c \in Clients
      /\ (k.pc \in {"count", "later", "sooner"} => k.c \in told')
  BY <1>1, StagesAre
<1>8. (Reads(w, k.c) \/ posted[k.c]) /\ given[k.c] # NoOne /\ ~posted'[k.c]
  BY <1>1, <1>4
<1>9. \A d \in Clients : posted'[d] => posted[d] \/ (Reads(w, d) /\ k.pc \notin Reading)
  OBVIOUS
<1>10. QED
  BY <1>3, <1>5, <1>6, <1>7, <1>8, <1>9, StepShape

(* The client of the completion that thread w has in hand. *)
LEMMA InHand ==
  ASSUME TShape, NEW w \in Threads, thread[w].pc \in Reading
  PROVE  thread[w].c \in Clients /\ Reads(w, thread[w].c)
BY StagesAre DEF TShape, Readers, Reads

LEMMA RearmShape ==
  ASSUME TShape, NEW w \in Threads, Rearm(w)
  PROVE  TShape'
<1>1. PICK c \in Clients : c = thread[w].c /\ Reads(w, c)
  BY InHand, StagesAre DEF Rearm
<1>2. UNCHANGED <<active, client_map, num_connections, client_to_close, sock, given, told, flight>>
  BY DEF Rearm, limits, server
<1>3. \/ posted' = [posted EXCEPT ![c] = TRUE] /\ Goto(w, Idle) /\ UNCHANGED connected
      \/ DisconnectClient(w, c) /\ UNCHANGED posted
  BY <1>1 DEF Rearm
<1>4. CASE DisconnectClient(w, c) /\ UNCHANGED posted
  <2>1. /\ posted' \in [Clients -> BOOLEAN] /\ client_to_close' \in Nat
        /\ \A d \in Clients : posted'[d] => posted[d]
    BY <1>2, <1>4 DEF TShape, Types
  <2>2. QED
    BY <1>2, <1>4, <2>1, DisconnectShape
<1>5. CASE posted' = [posted EXCEPT ![c] = TRUE] /\ Goto(w, Idle) /\ UNCHANGED connected
  <2>1. /\ thread' \in [Threads -> [pc : Stages, c : Clients \cup {NoOne}]]
        /\ thread'[w] = Idle /\ \A u \in Threads \ {w} : thread'[u] = thread[u]
    BY <1>5, Went, IdleIs DEF TShape
  <2>2. Types'
    BY <1>2, <1>5, <2>1 DEF TShape, Types
  <2>3. Idle.pc \notin Reading
    BY NoOneIsNobody, StagesAre
  <2>4. \A d \in Clients : posted'[d] => posted[d] \/ (Reads(w, d) /\ Idle.pc \notin Reading)
    BY <1>1, <1>5, <2>3 DEF TShape, Types
  <2>5. /\ \A d \in told' : given[d] # NoOne
        /\ \A d \in Clients : connected'[d] => d \in told'
        /\ \A d \in Clients : sock'[d] = "none" <=> sock[d] = "none"
    BY <1>2, <1>5 DEF TShape, Made
  <2>6. QED
    BY <1>2, <2>1, <2>2, <2>3, <2>4, <2>5, NoOneIsNobody, StepShape
<1>6. QED
  BY <1>3, <1>4, <1>5

LEMMA LoginInfoShape ==
  ASSUME TShape, NEW w \in Threads, LoginInfo(w)
  PROVE  TShape'
<1>1. PICK c \in Clients : c = thread[w].c /\ Reads(w, c)
  BY InHand, StagesAre DEF LoginInfo
<1>2. /\ told' = told \cup {c} /\ connected' = [connected EXCEPT ![c] = TRUE]
      /\ Goto(w, Job("count", c))
      /\ UNCHANGED <<active, client_map, num_connections, client_to_close, sock, posted, given, flight>>
  BY <1>1 DEF LoginInfo, limits, network, server
<1>3. thread' \in [Threads -> [pc : Stages, c : Clients \cup {NoOne}]]
  BY <1>2, Went, JobIs, StagesAre DEF TShape
<1>4. Types'
  BY <1>2, <1>3 DEF TShape, Types
<1>5. \A d \in Clients : connected'[d] => d \in told'
  BY <1>2 DEF TShape, Types, Made
<1>6. QED
  BY <1>1, <1>2, <1>4, <1>5, GoesOnShape, StagesAre

LEMMA LoginCountShape ==
  ASSUME TShape, NEW w \in Threads, LoginCount(w)
  PROVE  TShape'
<1>1. PICK c \in Clients : c = thread[w].c /\ Reads(w, c)
  BY InHand, StagesAre DEF LoginCount
<1>2. /\ client_map' = [client_map EXCEPT ![given[c]] = c] /\ active' = active + 1
      /\ Goto(w, Job("loop", c))
      /\ UNCHANGED <<connected, num_connections, client_to_close, sock, posted, given, told, flight>>
  BY <1>1 DEF LoginCount, limits, network, server
<1>3. thread' \in [Threads -> [pc : Stages, c : Clients \cup {NoOne}]]
  BY <1>2, Went, JobIs, StagesAre DEF TShape
<1>4. Types'
  <2>1. client_map \in [Ids -> Clients \cup {NoOne}] /\ active \in Int
    BY DEF TShape, Types
  <2>2. client_map' \in [Ids -> Clients \cup {NoOne}]
    <3>1. client_map' = [client_map EXCEPT ![given[c]] = c]
      BY <1>2
    <3>2. QED
      BY <2>1, <3>1
  <2>3. active' \in Int
    BY <1>2, <2>1
  <2>4. QED
    BY <1>2, <1>3, <2>2, <2>3 DEF TShape, Types
<1>5. \A d \in Clients : connected'[d] => d \in told'
  BY <1>2 DEF TShape, Made
<1>6. told' = told \cup {}
  BY <1>2
<1>7. QED
  BY <1>1, <1>2, <1>4, <1>5, <1>6, GoesOnShape, StagesAre

LEMMA MoveObjectShape ==
  ASSUME TShape, NEW w \in Threads, MoveObject(w)
  PROVE  TShape'
<1>1. PICK c \in Clients : c = thread[w].c /\ Reads(w, c) /\ c \in told
  BY InHand, StagesAre DEF MoveObject
<1>2. PICK stage \in {"later", "sooner"} : Goto(w, Job(stage, c))
  BY <1>1 DEF MoveObject
<1>3. UNCHANGED <<connected, active, client_map, num_connections, client_to_close, sock, posted, given, told,
                  flight>>
  BY DEF MoveObject, limits, network, server
<1>4. thread' \in [Threads -> [pc : Stages, c : Clients \cup {NoOne}]]
  BY <1>2, Went, JobIs, StagesAre DEF TShape
<1>5. Types'
  BY <1>3, <1>4 DEF TShape, Types
<1>6. \A d \in Clients : connected'[d] => d \in told'
  BY <1>3 DEF TShape, Made
<1>7. told' = told \cup {c} /\ stage \in Reading /\ stage # "loop"
  BY <1>1, <1>3, StagesAre
<1>8. QED
  BY <1>1, <1>2, <1>3, <1>5, <1>6, <1>7, GoesOnShape

LEMMA DelayStepShape ==
  ASSUME TShape, NEW w \in Threads, DelayStep(w)
  PROVE  TShape'
<1>1. PICK c \in Clients : c = thread[w].c /\ Reads(w, c)
  BY InHand, StagesAre DEF DelayStep
<1>2. /\ Goto(w, Job("loop", c))
      /\ UNCHANGED <<connected, active, client_map, num_connections, client_to_close, sock, posted, given,
                     told, flight>>
  BY <1>1 DEF DelayStep, limits, network, server
<1>3. thread' \in [Threads -> [pc : Stages, c : Clients \cup {NoOne}]]
  BY <1>2, Went, JobIs, StagesAre DEF TShape
<1>4. Types'
  BY <1>2, <1>3 DEF TShape, Types
<1>5. \A d \in Clients : connected'[d] => d \in told'
  BY <1>2 DEF TShape, Made
<1>6. told' = told \cup {}
  BY <1>2
<1>7. QED
  BY <1>1, <1>2, <1>4, <1>5, <1>6, GoesOnShape, StagesAre

LEMMA TestMoveShape ==
  ASSUME TShape, NEW c \in Clients, TestMove(c)
  PROVE  TShape'
<1>1. UNCHANGED <<connected, active, client_map, num_connections, client_to_close, sock, posted, given, told,
                  thread, flight>>
  BY DEF TestMove, limits, server
<1>2. Types'
  BY <1>1 DEF TShape, Types
<1>3. QED
  BY <1>1, <1>2, QuietShape
-----------------------------------------------------------------------------
(***************************************************************************)
(* The counting.                                                           *)
(***************************************************************************)
At(stage) == {t \in Threads : thread[t].pc = stage}

Tally == active = Cardinality(Connected) - Cardinality(At("count")) + Cardinality(At("close"))
Enough == Cardinality(Connected) + Cardinality(Untold) <= MAX_TEST + flight

LEMMA MaxOfTwo ==
  ASSUME NEW a \in Nat, NEW b \in Nat
  PROVE  Max({a, b}) \in Nat /\ Max({a, b}) >= a /\ Max({a, b}) >= b
BY DEF Max

LEMMA AllFinite ==
  /\ IsFiniteSet(Clients) /\ IsFiniteSet(Threads)
  /\ \A X \in SUBSET Clients : IsFiniteSet(X) /\ Cardinality(X) \in Nat
  /\ \A X \in SUBSET Threads : IsFiniteSet(X) /\ Cardinality(X) \in Nat
<1>1. IsFiniteSet(Clients)
  <2>1. MAX_CLIENTS - 1 \in Int
    BY SizesAssumption
  <2>2. QED
    BY <2>1, FS_Interval DEF Clients
<1>2. IsFiniteSet(Threads)
  <2>1. IsFiniteSet(Workers)
    BY SizesAssumption
  <2>2. QED
    BY <2>1, FS_AddElement DEF Threads
<1>3. QED
  BY <1>1, <1>2, FS_Subset, FS_CardinalityType

LEMMA Counted ==
  /\ Cardinality(Connected) \in Nat /\ Cardinality(Untold) \in Nat
  /\ \A stage \in Stages : Cardinality(At(stage)) \in Nat
<1>1. Connected \in SUBSET Clients /\ Untold \in SUBSET Clients
  BY DEF Connected, Untold
<1>2. \A stage \in Stages : At(stage) \in SUBSET Threads
  BY DEF At
<1>3. QED
  BY <1>1, <1>2, AllFinite

LEMMA TallyIsExact ==
  ASSUME Types
  PROVE  CountExact <=> Tally
<1>1. DOMAIN thread = Threads
  BY DEF Types
<1>2. AtStep("count") = At("count") /\ AtStep("close") = At("close")
  BY <1>1 DEF AtStep, At
<1>3. QED
  BY <1>2 DEF CountExact, Tally, Connected

(* A thread leaves a stage, comes to one, or does neither. *)
LEMMA Moves ==
  ASSUME NEW t \in Threads, NEW k, thread'[t] = k,
         \A u \in Threads \ {t} : thread'[u] = thread[u], NEW stage \in Stages
  PROVE  /\ thread[t].pc = stage /\ k.pc # stage => Cardinality(At(stage)') = Cardinality(At(stage)) - 1
         /\ thread[t].pc # stage /\ k.pc = stage => Cardinality(At(stage)') = Cardinality(At(stage)) + 1
         /\ (thread[t].pc = stage <=> k.pc = stage) => Cardinality(At(stage)') = Cardinality(At(stage))
<1>1. IsFiniteSet(At(stage))
  <2>1. At(stage) \in SUBSET Threads
    BY DEF At
  <2>2. QED
    BY <2>1, AllFinite
<1>2. ASSUME thread[t].pc = stage, k.pc # stage PROVE Cardinality(At(stage)') = Cardinality(At(stage)) - 1
  <2>1. At(stage)' = At(stage) \ {t} /\ t \in At(stage)
    BY <1>2 DEF At
  <2>2. QED
    BY <1>1, <2>1, FS_RemoveElement
<1>3. ASSUME thread[t].pc # stage, k.pc = stage PROVE Cardinality(At(stage)') = Cardinality(At(stage)) + 1
  <2>1. At(stage)' = At(stage) \cup {t} /\ t \notin At(stage)
    BY <1>3 DEF At
  <2>2. QED
    BY <1>1, <2>1, FS_AddElement
<1>4. ASSUME thread[t].pc = stage <=> k.pc = stage PROVE At(stage)' = At(stage)
  BY <1>4 DEF At
<1>5. QED
  BY <1>2, <1>3, <1>4

-----------------------------------------------------------------------------
(***************************************************************************)
(* Who listens to a client, and where client_map leads.                    *)
(***************************************************************************)
Listened == \A c \in Clients : connected[c] => posted[c] \/ \E w \in Workers : Reads(w, c)

(* A client whose id nobody else can claim by an answer that is still       *)
(* unread.                                                                 *)
Latest(c)  == sock[c] = "open" /\ c \notin late
Counted1(c) == \A t \in Threads : ~Counts(t, c)

Unclaimed ==
  \A c, d \in Clients :
    Latest(c) /\ given[c] # NoOne /\ given[d] = given[c] /\ d # c => d \in told /\ Counted1(d)
Mapped == \A c \in told : Latest(c) /\ Counted1(c) => client_map[given[c]] = c

Ledger == Tally /\ Enough /\ Listened /\ Unclaimed /\ Mapped

LEMMA CloserOrReader ==
  ASSUME TShape, NEW t \in Threads, thread[t].pc \in {"idle", "close"}
  PROVE  \A c \in Clients : ~Reads(t, c) /\ ~Counts(t, c)
BY StagesAre DEF Reads, Counts

(* Counts only changes for the client of a thread that comes to the stage  *)
(* or leaves it.                                                           *)
LEMMA SameCounts ==
  ASSUME NEW t \in Threads, NEW k, thread'[t] = k, \A u \in Threads \ {t} : thread'[u] = thread[u],
         thread[t].pc # "count", k.pc # "count", NEW c
  PROVE  Counted1(c)' <=> Counted1(c)
BY DEF Counted1, Counts

(* Steps with which no thread goes anywhere. *)
LEMMA QuietLedger ==
  ASSUME TShape, Ledger, UNCHANGED <<thread, given, posted, told, connected, active, flight, client_map, late>>,
         \A c \in Clients : sock'[c] = "none" <=> sock[c] = "none",
         \A c \in Clients : sock'[c] = "open" => sock[c] = "open"
  PROVE  Ledger'
<1>1. Tally'
  BY DEF Ledger, Tally, Connected, At
<1>2. Untold' = Untold /\ Connected' = Connected
  BY DEF Untold, Connected
<1>3. Enough'
  BY <1>2 DEF Ledger, Enough
<1>4. Listened'
  BY DEF Ledger, Listened, Reads
<1>5. /\ \A c \in Clients : Latest(c)' => Latest(c)
      /\ \A c \in Clients : Counted1(c)' <=> Counted1(c)
  BY DEF Latest, Counted1, Counts
<1>6. Unclaimed'
  BY <1>5 DEF Ledger, Unclaimed
<1>7. Mapped'
  BY <1>5 DEF Ledger, Mapped, TShape, Types
<1>8. QED
  BY <1>1, <1>3, <1>4, <1>6, <1>7 DEF Ledger

(* DisconnectClient at a thread that is not counting. *)
LEMMA DisconnectLedger ==
  ASSUME TShape, Ledger, NEW t \in Threads, NEW c \in Clients, DisconnectClient(t, c),
         thread[t].pc \notin {"count", "close"}, \A d \in Clients : Reads(t, d) => d = c,
         \A d \in Clients : d # c /\ posted[d] => posted'[d],
         UNCHANGED <<active, client_map, sock, given, told, flight, late>>
  PROVE  Ledger'
<1> DEFINE k == IF connected[c] THEN Job("close", c) ELSE Idle
<1>1. /\ Goto(t, k) /\ connected' = [connected EXCEPT ![c] = FALSE]
      /\ k \in [pc : Stages, c : Clients \cup {NoOne}]
      /\ k.pc = IF connected[c] THEN "close" ELSE "idle"
  BY JobIs, IdleIs, NoOneIsNobody, StagesAre DEF DisconnectClient
<1> HIDE DEF k
<1>2. thread'[t] = k /\ \A u \in Threads \ {t} : thread'[u] = thread[u]
  BY <1>1, Went DEF TShape
<1>3. ~connected'[c] /\ \A d \in Clients : d # c => connected'[d] = connected[d]
  BY <1>1 DEF TShape, Types
<1>4. k.pc # "count" /\ (k.pc = "close" <=> connected[c])
  BY <1>1
<1>5. Connected' = Connected \ {c} /\ (connected[c] <=> c \in Connected) /\ IsFiniteSet(Connected)
  <2>1. Connected \in SUBSET Clients
    BY DEF Connected
  <2>2. QED
    BY <1>3, <2>1, AllFinite DEF Connected
<1>6. Cardinality(At("count")') = Cardinality(At("count"))
  BY <1>2, <1>4, Moves, StagesAre
<1>7. Cardinality(At("count")) \in Nat /\ Cardinality(At("close")) \in Nat /\ Cardinality(Connected) \in Nat
  BY Counted, StagesAre
<1>8. ASSUME connected[c]
      PROVE  Tally' /\ Cardinality(Connected') \in Int /\ Cardinality(Connected') <= Cardinality(Connected)
  <2>1. Cardinality(Connected') = Cardinality(Connected) - 1
    BY <1>5, <1>8, FS_RemoveElement
  <2>2. Cardinality(At("close")') = Cardinality(At("close")) + 1
    BY <1>2, <1>4, <1>8, Moves, StagesAre
  <2>3. Tally'
    BY <1>6, <1>7, <2>1, <2>2 DEF Ledger, Tally
  <2>4. QED
    BY <1>7, <2>1, <2>3
<1>9. ASSUME ~connected[c]
      PROVE  Tally' /\ Cardinality(Connected') \in Int /\ Cardinality(Connected') <= Cardinality(Connected)
  <2>1. Connected' = Connected
    BY <1>5, <1>9
  <2>2. Cardinality(At("close")') = Cardinality(At("close"))
    BY <1>2, <1>4, <1>9, Moves, StagesAre
  <2>3. Tally'
    BY <1>6, <1>7, <2>1, <2>2 DEF Ledger, Tally
  <2>4. QED
    BY <1>7, <2>1, <2>3
<1>10. Tally' /\ Cardinality(Connected') \in Int /\ Cardinality(Connected') <= Cardinality(Connected)
  BY <1>8, <1>9
<1>11. Enough'
  <2>1. Untold' = Untold
    BY DEF Untold
  <2>2. Cardinality(Untold) \in Nat
    BY Counted
  <2>3. MAX_TEST + flight \in Int /\ flight' = flight
    BY SizesAssumption DEF TShape, Types
  <2>4. QED
    BY <1>7, <1>10, <2>1, <2>2, <2>3 DEF Ledger, Enough
<1>12. Listened'
  <2>1. SUFFICES ASSUME NEW d \in Clients, connected'[d]
                 PROVE  posted'[d] \/ \E w \in Workers : Reads(w, d)'
    BY DEF Listened
  <2>2. d # c /\ connected[d]
    BY <1>3, <2>1
  <2>3. CASE posted[d]
    BY <2>2, <2>3
  <2>4. CASE \E w \in Workers : Reads(w, d)
    <3>1. PICK w \in Workers : Reads(w, d)
      BY <2>4
    <3>2. w # t /\ w \in Threads
      BY <2>2, <3>1 DEF Threads
    <3>3. Reads(w, d)'
      BY <1>2, <3>1, <3>2 DEF Reads
    <3>4. QED
      BY <3>3
  <2>5. QED
    BY <2>2, <2>3, <2>4 DEF Ledger, Listened
<1>13. \A d \in Clients : (Latest(d)' <=> Latest(d)) /\ (Counted1(d)' <=> Counted1(d))
  BY <1>2, <1>4, SameCounts DEF Latest
<1>14. Unclaimed'
  BY <1>13 DEF Ledger, Unclaimed
<1>15. Mapped'
  BY <1>13 DEF Ledger, Mapped, TShape, Types
<1>16. QED
  BY <1>10, <1>11, <1>12, <1>14, <1>15 DEF Ledger

(* A worker that takes client c's completion, or goes on with it.           *)
LEMMA GoesOnLedger ==
  ASSUME TShape, Ledger, NEW w \in Workers, NEW c \in Clients,
         NEW stage \in {"loop", "later", "sooner"}, Goto(w, Job(stage, c)),
         thread[w].pc \notin {"count", "close"}, \A d \in Clients : Reads(w, d) => d = c,
         \A d \in Clients : d # c /\ posted[d] => posted'[d],
         UNCHANGED <<connected, active, client_map, sock, given, told, flight, late>>
  PROVE  Ledger'
<1> DEFINE k == Job(stage, c)
<1>1. w \in Threads /\ Goto(w, k) /\ k.pc = stage /\ k.c = c /\ k \in [pc : Stages, c : Clients \cup {NoOne}]
  BY JobIs, StagesAre DEF Threads
<1> HIDE DEF k
<1>2. thread'[w] = k /\ \A u \in Threads \ {w} : thread'[u] = thread[u]
  BY <1>1, Went DEF TShape
<1>3. /\ Cardinality(At("count")') = Cardinality(At("count"))
      /\ Cardinality(At("close")') = Cardinality(At("close"))
  BY <1>1, <1>2, Moves, StagesAre
<1>4. Connected' = Connected /\ Untold' = Untold
  BY DEF Connected, Untold
<1>5. Tally' /\ Enough'
  BY <1>3, <1>4 DEF Ledger, Tally, Enough
<1>6. Listened'
  <2>1. SUFFICES ASSUME NEW d \in Clients, connected[d]
                 PROVE  posted'[d] \/ \E v \in Workers : Reads(v, d)'
    BY DEF Listened
  <2>2. CASE d = c
    <3>1. Reads(w, c)'
      BY <1>1, <1>2, StagesAre DEF Reads
    <3>2. QED
      BY <2>2, <3>1
  <2>3. CASE d # c /\ posted[d]
    BY <2>3
  <2>4. CASE d # c /\ \E v \in Workers : Reads(v, d)
    <3>1. PICK v \in Workers : Reads(v, d)
      BY <2>4
    <3>2. v # w /\ v \in Threads
      BY <2>4, <3>1 DEF Threads
    <3>3. Reads(v, d)'
      BY <1>2, <3>1, <3>2 DEF Reads
    <3>4. QED
      BY <3>3
  <2>5. QED
    BY <2>1, <2>2, <2>3, <2>4 DEF Ledger, Listened
<1>7. \A d \in Clients : (Latest(d)' <=> Latest(d)) /\ (Counted1(d)' <=> Counted1(d))
  BY <1>1, <1>2, SameCounts DEF Latest
<1>8. Unclaimed'
  BY <1>7 DEF Ledger, Unclaimed
<1>9. Mapped'
  BY <1>7 DEF Ledger, Mapped, TShape, Types
<1>10. QED
  BY <1>5, <1>6, <1>8, <1>9 DEF Ledger

LEMMA GrantLedger ==
  ASSUME TShape, Ledger, NEW c \in Clients, Grant(c)
  PROVE  Ledger'
<1>1. PICK i \in Ids :
        /\ ~ \E d \in Clients : given[d] = i /\ sock[d] = "open"
        /\ given' = [given EXCEPT ![c] = i]
        /\ late' = late \cup {x \in {c} : \E d \in Clients :
                given[d] = i /\ (d \notin told \/ \E t \in AtStep("count") : thread[t].c = d)}
  BY DEF Grant
<1>2. /\ sock[c] = "open" /\ given[c] = NoOne
      /\ UNCHANGED <<connected, active, client_map, sock, posted, told, thread, flight>>
  BY DEF Grant, limits, network
<1>3. c \notin told /\ i # NoOne
  BY <1>2, IdsAssumption DEF TShape, Made
<1>4. given'[c] = i /\ \A d \in Clients : d # c => given'[d] = given[d]
  BY <1>1 DEF TShape, Types
<1>5. Tally' /\ Enough' /\ Listened'
  BY <1>2 DEF Ledger, Tally, Enough, Listened, Connected, Untold, At, Reads
<1>6. /\ \A d \in Clients : Latest(d)' => Latest(d)
      /\ \A d \in Clients : Counted1(d)' <=> Counted1(d)
  BY <1>1, <1>2 DEF Latest, Counted1, Counts
<1>7. ASSUME Latest(c)', NEW d \in Clients, given[d] = i PROVE d \in told /\ Counted1(d)
  <2>1. ~ \E x \in Clients : given[x] = i /\ (x \notin told \/ \E t \in AtStep("count") : thread[t].c = x)
    BY <1>1, <1>7 DEF Latest
  <2>2. d \in told /\ \A t \in AtStep("count") : thread[t].c # d
    BY <1>7, <2>1
  <2>3. DOMAIN thread = Threads
    BY DEF TShape, Types
  <2>4. QED
    BY <2>2, <2>3 DEF AtStep, Counted1, Counts
<1>8. Unclaimed'
  <2>1. SUFFICES ASSUME NEW x \in Clients, NEW d \in Clients, Latest(x)', given'[x] # NoOne,
                        given'[d] = given'[x], d # x
                 PROVE  d \in told' /\ Counted1(d)'
    BY DEF Unclaimed
  <2>2. CASE x = c
    BY <1>2, <1>4, <1>6, <1>7, <2>1, <2>2
  <2>3. CASE d = c
    <3>1. given[x] = i /\ sock[x] = "open"
      BY <1>4, <1>6, <2>1, <2>3 DEF Latest
    <3>2. QED
      BY <1>1, <3>1
  <2>4. CASE x # c /\ d # c
    <3>1. given[d] = given[x] /\ given[x] # NoOne /\ Latest(x)
      BY <1>4, <1>6, <2>1, <2>4
    <3>2. d \in told /\ Counted1(d)
      BY <2>1, <3>1 DEF Ledger, Unclaimed
    <3>3. QED
      BY <1>2, <1>6, <3>2
  <2>5. QED
    BY <2>2, <2>3, <2>4
<1>9. Mapped'
  <2>1. SUFFICES ASSUME NEW d \in told, Latest(d)', Counted1(d)'
                 PROVE  client_map[given'[d]] = d
    BY <1>2 DEF Mapped
  <2>2. d \in Clients /\ d # c /\ given'[d] = given[d] /\ Latest(d) /\ Counted1(d)
    BY <1>3, <1>4, <1>6, <2>1 DEF TShape, Types
  <2>3. QED
    BY <2>2 DEF Ledger, Mapped
<1>10. QED
  BY <1>5, <1>8, <1>9 DEF Ledger

LEMMA CloseLedger ==
  ASSUME TShape, Ledger, NEW t \in Threads, Close(t)
  PROVE  Ledger'
<1>1. PICK c \in Clients : c = thread[t].c /\ sock[c] # "none"
  BY DEF TShape, Readers, Close
<1>2. /\ sock' = [sock EXCEPT ![c] = "closed"] /\ active' = active - 1 /\ Goto(t, Idle)
      /\ thread[t].pc = "close"
      /\ UNCHANGED <<connected, client_map, posted, given, told, flight, late>>
  BY <1>1 DEF Close, limits, server
<1>3. thread'[t] = Idle /\ \A u \in Threads \ {t} : thread'[u] = thread[u]
  BY <1>2, Went, IdleIs DEF TShape
<1>4. /\ \A d \in Clients : sock'[d] = "none" <=> sock[d] = "none"
      /\ \A d \in Clients : sock'[d] = "open" => sock[d] = "open"
  BY <1>1, <1>2 DEF TShape, Types
<1>5. Connected' = Connected /\ Untold' = Untold
  BY <1>2, <1>4 DEF Connected, Untold
<1>6. /\ Cardinality(At("count")') = Cardinality(At("count"))
      /\ Cardinality(At("close")') = Cardinality(At("close")) - 1
  BY <1>2, <1>3, Moves, StagesAre, NoOneIsNobody
<1>7. Cardinality(At("count")) \in Nat /\ Cardinality(At("close")) \in Nat /\ Cardinality(Connected) \in Nat
  BY Counted, StagesAre
<1>8. Tally'
  BY <1>2, <1>5, <1>6, <1>7 DEF Ledger, Tally
<1>9. Enough'
  BY <1>2, <1>5 DEF Ledger, Enough
<1>10. Listened'
  <2>1. \A w \in Workers, d \in Clients : Reads(w, d) => Reads(w, d)'
    BY <1>2, <1>3, StagesAre DEF Reads, Threads
  <2>2. QED
    BY <1>2, <2>1 DEF Ledger, Listened
<1>11. \A d \in Clients : (Latest(d)' => Latest(d)) /\ (Counted1(d)' <=> Counted1(d))
  <2>1. thread[t].pc # "count" /\ Idle.pc # "count"
    BY <1>2, NoOneIsNobody
  <2>2. QED
    BY <1>2, <1>3, <1>4, <2>1, SameCounts DEF Latest
<1>12. Unclaimed'
  BY <1>2, <1>11 DEF Ledger, Unclaimed
<1>13. Mapped'
  BY <1>2, <1>11 DEF Ledger, Mapped, TShape, Types
<1>14. QED
  BY <1>8, <1>9, <1>10, <1>12, <1>13 DEF Ledger

(* The next WSARecv: the worker lets go of the client, which is pending.    *)
LEMMA RearmLedger ==
  ASSUME TShape, Ledger, NEW w \in Workers, Rearm(w)
  PROVE  Ledger'
<1>1. w \in Threads /\ thread[w].pc = "loop"
  BY DEF Threads, Rearm
<1>2. PICK c \in Clients : c = thread[w].c
  BY <1>1, InHand, StagesAre
<1>3. \A d \in Clients : Reads(w, d) => d = c
  BY <1>2 DEF Reads
<1>4. UNCHANGED <<active, client_map, sock, given, told, flight, late>>
  BY DEF Rearm, limits, server
<1>5. \/ posted' = [posted EXCEPT ![c] = TRUE] /\ Goto(w, Idle) /\ UNCHANGED connected
      \/ DisconnectClient(w, c) /\ UNCHANGED posted
  BY <1>2 DEF Rearm
<1>6. CASE DisconnectClient(w, c) /\ UNCHANGED posted
  <2>1. \A d \in Clients : d # c /\ posted[d] => posted'[d]
    BY <1>6
  <2>2. QED
    BY <1>1, <1>3, <1>4, <1>6, <2>1, DisconnectLedger
<1>7. CASE posted' = [posted EXCEPT ![c] = TRUE] /\ Goto(w, Idle) /\ UNCHANGED connected
  <2>1. thread'[w] = Idle /\ \A u \in Threads \ {w} : thread'[u] = thread[u]
    BY <1>1, <1>7, Went, IdleIs DEF TShape
  <2>2. posted'[c] /\ \A d \in Clients : posted[d] => posted'[d]
    BY <1>7 DEF TShape, Types
  <2>3. Connected' = Connected /\ Untold' = Untold
    BY <1>4, <1>7 DEF Connected, Untold
  <2>4. /\ Cardinality(At("count")') = Cardinality(At("count"))
        /\ Cardinality(At("close")') = Cardinality(At("close"))
    BY <1>1, <2>1, Moves, StagesAre, NoOneIsNobody
  <2>5. Tally' /\ Enough'
    BY <1>4, <2>3, <2>4 DEF Ledger, Tally, Enough
  <2>6. Listened'
    <3>1. SUFFICES ASSUME NEW d \in Clients, connected[d], ~posted'[d]
                   PROVE  \E v \in Workers : Reads(v, d)'
      BY <1>7 DEF Listened
    <3>2. d # c /\ ~posted[d]
      BY <2>2, <3>1
    <3>3. PICK v \in Workers : Reads(v, d)
      BY <3>1, <3>2 DEF Ledger, Listened
    <3>4. v # w /\ v \in Threads
      BY <1>3, <3>2, <3>3 DEF Threads
    <3>5. Reads(v, d)'
      BY <2>1, <3>3, <3>4 DEF Reads
    <3>6. QED
      BY <3>5
  <2>7. \A d \in Clients : (Latest(d)' <=> Latest(d)) /\ (Counted1(d)' <=> Counted1(d))
    <3>1. thread[w].pc # "count" /\ Idle.pc # "count"
      BY <1>1, NoOneIsNobody
    <3>2. QED
      BY <1>1, <1>4, <2>1, <3>1, SameCounts DEF Latest
  <2>8. Unclaimed'
    BY <1>4, <2>7 DEF Ledger, Unclaimed
  <2>9. Mapped'
    BY <1>4, <2>7 DEF Ledger, Mapped, TShape, Types
  <2>10. QED
    BY <2>5, <2>6, <2>8, <2>9 DEF Ledger
<1>8. QED
  BY <1>5, <1>6, <1>7

(* The login is told: one more connected, one less untold, and one more to *)
(* be counted.                                                             *)
LEMMA LoginInfoLedger ==
  ASSUME TShape, Ledger, NEW w \in Workers, LoginInfo(w)
  PROVE  Ledger'
<1>1. w \in Threads /\ thread[w].pc = "loop"
  BY DEF Threads, LoginInfo
<1>2. PICK c \in Clients : c = thread[w].c /\ Reads(w, c) /\ c \notin told
  BY <1>1, InHand, StagesAre DEF LoginInfo
<1> DEFINE k == Job("count", c)
<1>3. /\ told' = told \cup {c} /\ connected' = [connected EXCEPT ![c] = TRUE] /\ Goto(w, k)
      /\ UNCHANGED <<active, client_map, sock, posted, given, flight, late>>
  BY <1>2 DEF LoginInfo, limits, network, server
<1>4. k.pc = "count" /\ k.c = c /\ k \in [pc : Stages, c : Clients \cup {NoOne}]
  BY JobIs, StagesAre
<1> HIDE DEF k
<1>5. thread'[w] = k /\ \A u \in Threads \ {w} : thread'[u] = thread[u]
  BY <1>1, <1>3, <1>4, Went DEF TShape
<1>6. ~connected[c] /\ sock[c] # "none"
  BY <1>1, <1>2 DEF TShape, Made, Readers
<1>7. connected'[c] /\ \A d \in Clients : d # c => connected'[d] = connected[d]
  BY <1>3 DEF TShape, Types
<1>8. Connected' = Connected \cup {c} /\ c \notin Connected
  BY <1>6, <1>7 DEF Connected
<1>9. Untold' = Untold \ {c} /\ c \in Untold
  BY <1>2, <1>3, <1>6 DEF Untold
<1>10. Connected \in SUBSET Clients /\ Untold \in SUBSET Clients
  BY DEF Connected, Untold
<1>11. Cardinality(Connected') = Cardinality(Connected) + 1
  BY <1>8, <1>10, AllFinite, FS_AddElement
<1>12. Cardinality(Untold') = Cardinality(Untold) - 1
  BY <1>9, <1>10, AllFinite, FS_RemoveElement
<1>13. Cardinality(At("count")') = Cardinality(At("count")) + 1
  BY <1>1, <1>4, <1>5, Moves, StagesAre
<1>14. Cardinality(At("close")') = Cardinality(At("close"))
  BY <1>1, <1>4, <1>5, Moves, StagesAre
<1>15. /\ Cardinality(At("count")) \in Nat /\ Cardinality(At("close")) \in Nat
       /\ Cardinality(Connected) \in Nat /\ Cardinality(Untold) \in Nat
  BY Counted, StagesAre
<1>16. Tally'
  BY <1>3, <1>11, <1>13, <1>14, <1>15 DEF Ledger, Tally
<1>17. Enough'
  BY <1>3, <1>11, <1>12, <1>15 DEF Ledger, Enough
<1>18. Listened'
  <2>1. Reads(w, c)'
    BY <1>4, <1>5, StagesAre DEF Reads
  <2>2. SUFFICES ASSUME NEW d \in Clients, d # c, connected[d]
                 PROVE  posted'[d] \/ \E v \in Workers : Reads(v, d)'
    BY <1>7, <2>1 DEF Listened
  <2>3. CASE posted[d]
    BY <1>3, <2>3
  <2>4. CASE \E v \in Workers : Reads(v, d)
    <3>1. PICK v \in Workers : Reads(v, d)
      BY <2>4
    <3>2. v # w /\ v \in Threads
      BY <1>2, <2>2, <3>1 DEF Reads, Threads
    <3>3. Reads(v, d)'
      BY <1>5, <3>1, <3>2 DEF Reads
    <3>4. QED
      BY <3>3
  <2>5. QED
    BY <2>2, <2>3, <2>4 DEF Ledger, Listened
<1>19. /\ ~Counted1(c)'
       /\ \A d \in Clients : Latest(d)' <=> Latest(d)
       /\ \A d \in Clients : d # c => (Counted1(d)' <=> Counted1(d))
  <2>1. ~Counted1(c)'
    BY <1>1, <1>4, <1>5 DEF Counted1, Counts
  <2>2. \A d \in Clients : Latest(d)' <=> Latest(d)
    BY <1>3 DEF Latest
  <2>3. \A d \in Clients : d # c => (Counted1(d)' <=> Counted1(d))
    BY <1>1, <1>4, <1>5 DEF Counted1, Counts
  <2>4. QED
    BY <2>1, <2>2, <2>3
<1>20. Unclaimed'
  <2>1. SUFFICES ASSUME NEW x \in Clients, NEW d \in Clients, Latest(x)', given'[x] # NoOne,
                        given'[d] = given'[x], d # x
                 PROVE  d \in told' /\ Counted1(d)'
    BY DEF Unclaimed
  <2>2. d \in told /\ Counted1(d)
    BY <1>3, <1>19, <2>1 DEF Ledger, Unclaimed
  <2>3. d # c
    BY <1>2, <2>2
  <2>4. QED
    BY <1>3, <1>19, <2>2, <2>3
<1>21. Mapped'
  <2>1. SUFFICES ASSUME NEW d \in told', Latest(d)', Counted1(d)' PROVE client_map'[given'[d]] = d
    BY DEF Mapped
  <2>2. d # c /\ d \in told /\ d \in Clients
    BY <1>3, <1>19, <2>1 DEF TShape, Types
  <2>3. QED
    BY <1>3, <1>19, <2>1, <2>2 DEF Ledger, Mapped
<1>22. QED
  BY <1>16, <1>17, <1>18, <1>20, <1>21 DEF Ledger

(* The login is counted, and client_map leads to the client.               *)
LEMMA LoginCountLedger ==
  ASSUME TShape, Ledger, NEW w \in Workers, LoginCount(w)
  PROVE  Ledger'
<1>1. w \in Threads /\ thread[w].pc = "count"
  BY DEF Threads, LoginCount
<1>2. PICK c \in Clients : c = thread[w].c /\ Reads(w, c) /\ given[c] \in Ids
  <2>1. thread[w].c \in Clients /\ Reads(w, thread[w].c)
    BY <1>1, InHand, StagesAre
  <2>2. given[thread[w].c] \in Ids
    BY <1>1, <2>1 DEF TShape, Types, Readers
  <2>3. QED
    BY <2>1, <2>2
<1> DEFINE k == Job("loop", c)
<1>3. /\ client_map' = [client_map EXCEPT ![given[c]] = c] /\ active' = active + 1 /\ Goto(w, k)
      /\ UNCHANGED <<connected, sock, posted, given, told, flight, late>>
  BY <1>2 DEF LoginCount, limits, network, server
<1>4. k.pc = "loop" /\ k.c = c /\ k \in [pc : Stages, c : Clients \cup {NoOne}]
  BY JobIs, StagesAre
<1> HIDE DEF k
<1>5. thread'[w] = k /\ \A u \in Threads \ {w} : thread'[u] = thread[u]
  BY <1>1, <1>3, <1>4, Went DEF TShape
<1>6. Connected' = Connected /\ Untold' = Untold
  BY <1>3 DEF Connected, Untold
<1>7. Cardinality(At("count")') = Cardinality(At("count")) - 1
  BY <1>1, <1>4, <1>5, Moves, StagesAre
<1>8. Cardinality(At("close")') = Cardinality(At("close"))
  BY <1>1, <1>4, <1>5, Moves, StagesAre
<1>9. Cardinality(At("count")) \in Nat /\ Cardinality(At("close")) \in Nat /\ Cardinality(Connected) \in Nat
  BY Counted, StagesAre
<1>10. Tally'
  BY <1>3, <1>6, <1>7, <1>8, <1>9 DEF Ledger, Tally
<1>11. Enough'
  BY <1>3, <1>6 DEF Ledger, Enough
<1>12. Listened'
  <2>1. \A v \in Workers, d \in Clients : Reads(v, d) => Reads(v, d)'
    BY <1>2, <1>4, <1>5, StagesAre DEF Reads, Threads
  <2>2. QED
    BY <1>3, <2>1 DEF Ledger, Listened
<1>13. ~Counted1(c)
  BY <1>1, <1>2 DEF Counted1, Counts
<1>14. /\ \A d \in Clients : Latest(d)' <=> Latest(d)
       /\ \A d \in Clients : Counted1(d) => Counted1(d)'
       /\ \A d \in Clients : d # c => (Counted1(d)' => Counted1(d))
  <2>1. \A d \in Clients : Latest(d)' <=> Latest(d)
    BY <1>3 DEF Latest
  <2>2. \A d \in Clients : Counted1(d) => Counted1(d)'
    BY <1>4, <1>5 DEF Counted1, Counts
  <2>3. \A d \in Clients : d # c => (Counted1(d)' => Counted1(d))
    BY <1>2, <1>5 DEF Counted1, Counts
  <2>4. QED
    BY <2>1, <2>2, <2>3
<1>15. Unclaimed'
  BY <1>3, <1>14 DEF Ledger, Unclaimed
<1>16. Mapped'
  <2>1. SUFFICES ASSUME NEW d \in told, Latest(d), Counted1(d)' PROVE client_map'[given[d]] = d
    BY <1>3, <1>14 DEF Mapped, TShape, Types
  <2>2. client_map'[given[c]] = c /\ \A i \in Ids : i # given[c] => client_map'[i] = client_map[i]
    BY <1>2, <1>3 DEF TShape, Types
  <2>3. CASE d = c
    BY <2>2, <2>3
  <2>4. CASE d # c
    <3>1. d \in Clients /\ given[d] # NoOne /\ given[d] \in Ids /\ Counted1(d)
      BY <1>14, <2>1, <2>4 DEF TShape, Types, Made
    <3>2. given[d] # given[c]
      BY <1>13, <2>1, <2>4, <3>1 DEF Ledger, Unclaimed
    <3>3. client_map[given[d]] = d
      BY <2>1, <3>1 DEF Ledger, Mapped
    <3>4. QED
      BY <2>2, <3>1, <3>2, <3>3
  <2>5. QED
    BY <2>3, <2>4
<1>17. QED
  BY <1>10, <1>11, <1>12, <1>15, <1>16 DEF Ledger

(***************************************************************************)
(* The clients made and not counted are those who are not told and those   *)
(* whose thread is about to count: none of them twice.                     *)
(***************************************************************************)
LEMMA PendingIsEnough ==
  ASSUME TShape
  PROVE  /\ Cardinality(Pending) \in Nat
         /\ Cardinality(Untold) + Cardinality(At("count")) <= Cardinality(Pending)
<1> DEFINE C == {thread[t].c : t \in At("count")}
           f == [t \in At("count") |-> thread[t].c]
<1>1. Pending = Untold \cup C
  <2>1. AtStep("count") = At("count")
    BY DEF TShape, Types, AtStep, At
  <2>2. QED
    BY <2>1 DEF Pending, Untold
<1>2. \A t \in At("count") : t \in Threads /\ thread[t].c \in Clients /\ thread[t].c \in told /\ Reads(t, thread[t].c)
  BY StagesAre DEF TShape, Readers, At, Reads
<1>3. Untold \cap C = {}
  BY <1>2 DEF Untold
<1>4. C \in SUBSET Clients /\ Untold \in SUBSET Clients /\ At("count") \in SUBSET Threads
  BY <1>2 DEF Untold, At
<1>5. /\ IsFiniteSet(C) /\ IsFiniteSet(Untold) /\ IsFiniteSet(At("count"))
      /\ Cardinality(C) \in Nat /\ Cardinality(Untold) \in Nat /\ Cardinality(At("count")) \in Nat
  BY <1>4, AllFinite
<1>6. Cardinality(At("count")) <= Cardinality(C)
  <2>1. SUFFICES ASSUME Cardinality(C) < Cardinality(At("count")) PROVE FALSE
    BY <1>5
  <2>2. f \in [At("count") -> C]
    OBVIOUS
  <2>3. PICK t, u \in At("count") : t # u /\ f[t] = f[u]
    <3> HIDE DEF C, f
    <3>1. \E t, u \in At("count") : t # u /\ f[t] = f[u]
      BY <1>5, <2>1, <2>2, FS_PigeonHole, Zenon
    <3>2. QED
      BY <3>1
  <2>4. thread[t].c = thread[u].c
    BY <2>3
  <2>5. QED
    BY <1>2, <2>3, <2>4 DEF TShape, Readers
<1>7. Cardinality(Untold \cup C) = Cardinality(Untold) + Cardinality(C)
  <2> HIDE DEF C
  <2>1. Cardinality(Untold \cup C) = Cardinality(Untold) + Cardinality(C) - Cardinality(Untold \cap C)
    BY <1>5, FS_Union
  <2>2. Cardinality(Untold \cap C) = 0
    BY <1>3, FS_EmptySet
  <2>3. QED
    BY <1>5, <2>1, <2>2
<1>8. Cardinality(Pending) = Cardinality(Untold) + Cardinality(C)
  BY <1>1, <1>7
<1>9. QED
  BY <1>5, <1>6, <1>8

LEMMA FlightIsNat ==
  ASSUME TShape, Connect
  PROVE  flight' \in Nat /\ flight' >= flight
<1>1. flight \in Nat /\ Cardinality(Pending) \in Nat
  BY PendingIsEnough DEF TShape, Types
<1>2. flight' = flight \/ flight' = Max({flight, Cardinality(Pending)})
  BY DEF Connect
<1>3. QED
  BY <1>1, <1>2, MaxOfTwo

(* One more client is made: active_clients was below MAX_TEST, and those it *)
(* did not know of are pending.                                            *)
LEMMA ConnectLedger ==
  ASSUME TShape, Ledger, Connect
  PROVE  Ledger'
<1>1. UNCHANGED <<connected, active, client_map, given, told, thread, late>>
  BY DEF Connect, server
<1>2. CASE UNCHANGED <<sock, posted, num_connections, flight>>
  BY <1>1, <1>2, QuietLedger
<1>3. CASE ~ UNCHANGED <<sock, posted, num_connections, flight>>
  <2>1. PICK n \in Clients :
           /\ n = num_connections
           /\ sock' = [sock EXCEPT ![n] = "open"] /\ posted' = [posted EXCEPT ![n] = TRUE]
           /\ flight' = Max({flight, Cardinality(Pending)})
    <3>1. num_connections \in Clients
      BY SizesAssumption DEF Connect, MayConnect, Room, TShape, Types, Clients
    <3>2. /\ sock' = [sock EXCEPT ![num_connections] = "open"]
          /\ posted' = [posted EXCEPT ![num_connections] = TRUE]
          /\ flight' = Max({flight, Cardinality(Pending)})
      BY <1>3 DEF Connect, network
    <3>3. QED
      BY <3>1, <3>2
  <2>2. sock[n] = "none" /\ n \notin told /\ given[n] = NoOne
    <3>1. ~ (n < n) /\ n \in Int
      BY SizesAssumption DEF Clients
    <3>2. sock[n] = "none"
      BY <2>1, <3>1 DEF TShape, Made
    <3>3. QED
      BY <3>2 DEF TShape, Made
  <2>3. /\ sock'[n] = "open" /\ posted'[n]
        /\ \A d \in Clients : d # n => sock'[d] = sock[d] /\ posted'[d] = posted[d]
    BY <2>1 DEF TShape, Types
  <2>4. Connected' = Connected /\ At("count")' = At("count") /\ At("close")' = At("close")
    BY <1>1 DEF Connected, At
  <2>5. Tally'
    BY <1>1, <2>4 DEF Ledger, Tally
  <2>6. Untold' = Untold \cup {n} /\ n \notin Untold /\ Untold \in SUBSET Clients
    BY <1>1, <2>2, <2>3 DEF Untold
  <2>7. Cardinality(Untold') = Cardinality(Untold) + 1
    BY <2>6, AllFinite, FS_AddElement
  <2>8. Enough'
    <3>1. /\ Cardinality(Connected) \in Nat /\ Cardinality(Untold) \in Nat
          /\ Cardinality(At("count")) \in Nat /\ Cardinality(At("close")) \in Nat
      BY Counted, StagesAre
    <3>2. active < MAX_TEST /\ MAX_TEST \in Nat /\ active \in Int
      BY SizesAssumption DEF Connect, MayConnect, Room, TShape, Types
    <3>3. active >= Cardinality(Connected) - Cardinality(At("count"))
      BY <3>1, <3>2 DEF Ledger, Tally
    <3>4. flight' \in Nat /\ flight' >= Cardinality(Pending) /\ Cardinality(Pending) \in Nat
      BY <2>1, PendingIsEnough, MaxOfTwo DEF TShape, Types
    <3>5. flight' >= Cardinality(Untold) + Cardinality(At("count"))
      BY <3>1, <3>4, PendingIsEnough
    <3>6. Cardinality(Connected) + (Cardinality(Untold) + 1) <= MAX_TEST + flight'
      BY <3>1, <3>2, <3>3, <3>4, <3>5
    <3>7. QED
      BY <2>4, <2>7, <3>6 DEF Enough
  <2>9. Listened'
    BY <1>1, <2>3 DEF Ledger, Listened, Reads
  <2>10. /\ \A d \in Clients : d # n => (Latest(d)' <=> Latest(d))
         /\ \A d \in Clients : Counted1(d)' <=> Counted1(d)
    BY <1>1, <2>3 DEF Latest, Counted1, Counts
  <2>11. Unclaimed'
    BY <1>1, <2>2, <2>10 DEF Ledger, Unclaimed
  <2>12. Mapped'
    BY <1>1, <2>2, <2>10 DEF Ledger, Mapped, TShape, Types
  <2>13. QED
    BY <2>5, <2>8, <2>9, <2>11, <2>12 DEF Ledger
<1>4. QED
  BY <1>2, <1>3

-----------------------------------------------------------------------------
(***************************************************************************)
(* Together.                                                               *)
(***************************************************************************)
Books == TShape /\ Ledger

LEMMA BooksInit == ASSUME Init PROVE Books
<1>1. /\ \A t \in Threads : thread[t] = Idle
      /\ thread = [t \in Threads |-> Idle]
  BY DEF Init, Threads
<1>2. thread \in [Threads -> [pc : Stages, c : Clients \cup {NoOne}]]
  BY <1>1, IdleIs
<1>3. Types
  BY <1>2, SizesAssumption DEF Init, Types
<1>4. \A c \in Clients : ~ (c < 0)
  BY DEF Clients
<1>5. Made
  BY <1>4 DEF Init, Made
<1>6. \A t \in Threads : thread[t].pc = "idle"
  BY <1>1, NoOneIsNobody
<1>7. Readers
  BY <1>6, StagesAre DEF Readers, Reads
<1>8. Connected = {} /\ Untold = {} /\ At("count") = {} /\ At("close") = {}
  BY <1>6 DEF Init, Connected, Untold, At
<1>9. Tally
  BY <1>8, FS_EmptySet DEF Init, Tally
<1>10. Enough
  BY <1>8, FS_EmptySet, SizesAssumption DEF Init, Enough
<1>11. Listened /\ Unclaimed /\ Mapped
  BY DEF Init, Listened, Unclaimed, Mapped
<1>12. QED
  BY <1>3, <1>5, <1>7, <1>9, <1>10, <1>11 DEF Books, TShape, Ledger

LEMMA ServerBooks ==
  ASSUME Books, NEW c \in Clients, Grant(c) \/ Drop(c)
  PROVE  Books'
<1>1. TShape /\ Ledger
  BY DEF Books
<1>2. CASE Grant(c)
  BY <1>1, <1>2, GrantShape, GrantLedger DEF Books
<1>3. CASE Drop(c)
  <2>1. /\ sock' = [sock EXCEPT ![c] = "reset"] /\ sock[c] = "open"
        /\ UNCHANGED <<connected, active, client_map, posted, given, told, thread, flight, late>>
    BY <1>3 DEF Drop, limits, server
  <2>2. /\ \A d \in Clients : sock'[d] = "none" <=> sock[d] = "none"
        /\ \A d \in Clients : sock'[d] = "open" => sock[d] = "open"
    BY <1>1, <2>1 DEF TShape, Types
  <2>3. QED
    BY <1>1, <1>3, <2>1, <2>2, DropShape, QuietLedger DEF Books
<1>4. QED
  BY <1>2, <1>3

LEMMA TestBooks ==
  ASSUME Books, Overload \/ Connect \/ Close(Test) \/ \E c \in Clients : TestMove(c)
  PROVE  Books'
<1>1. TShape /\ Ledger /\ Test \in Threads
  BY DEF Books, Threads
<1>2. CASE Overload
  <2>1. UNCHANGED <<active, client_map, flight, sock, posted, given, told, late>> /\ thread[Test] = Idle
    BY <1>2 DEF Overload, network, server
  <2>2. TShape'
    BY <1>1, <1>2, OverloadShape
  <2>3. CASE MIN_ACTIVE > active
    <3>1. UNCHANGED <<connected, thread>>
      BY <1>2, <2>3 DEF Overload
    <3>2. QED
      BY <1>1, <2>1, <2>2, <3>1, QuietLedger DEF Books
  <2>4. CASE ~ (MIN_ACTIVE > active)
    <3>1. client_to_close < MAX_CLIENTS /\ DisconnectClient(Test, client_to_close)
      BY <1>2, <2>4 DEF Overload
    <3>2. client_to_close \in Clients
      BY <1>1, <3>1, SizesAssumption DEF TShape, Types, Clients
    <3>3. thread[Test].pc = "idle"
      BY <2>1, NoOneIsNobody
    <3>4. \A d \in Clients : ~Reads(Test, d)
      BY <3>3, StagesAre DEF Reads
    <3>5. \A d \in Clients : d # client_to_close /\ posted[d] => posted'[d]
      BY <2>1
    <3>6. Ledger'
      BY <1>1, <2>1, <3>1, <3>2, <3>3, <3>4, <3>5, DisconnectLedger
    <3>7. QED
      BY <2>2, <3>6 DEF Books
  <2>5. QED
    BY <2>3, <2>4
<1>3. CASE Connect
  BY <1>1, <1>3, FlightIsNat, ConnectShape, ConnectLedger DEF Books
<1>4. CASE Close(Test)
  BY <1>1, <1>4, CloseShape, CloseLedger DEF Books
<1>5. ASSUME NEW c \in Clients, TestMove(c) PROVE Books'
  <2>1. UNCHANGED <<connected, active, client_map, sock, posted, given, told, thread, flight, late>>
    BY <1>5 DEF TestMove, limits, server
  <2>2. QED
    BY <1>1, <1>5, <2>1, TestMoveShape, QuietLedger DEF Books
<1>6. QED
  BY <1>2, <1>3, <1>4, <1>5

LEMMA CompletionBooks ==
  ASSUME Books, NEW w \in Workers, NEW c \in Clients,
         SendDone(w, c) \/ RecvEnds(w, c) \/ RecvData(w, c)
  PROVE  Books'
<1>1. TShape /\ Ledger /\ w \in Threads
  BY DEF Books, Threads
<1>2. thread[w].pc = "idle" /\ \A d \in Clients : ~Reads(w, d)
  <2>1. thread[w].pc = "idle"
    BY NoOneIsNobody DEF SendDone, RecvEnds, RecvData
  <2>2. QED
    BY <2>1, StagesAre DEF Reads
<1>3. CASE SendDone(w, c)
  <2>1. UNCHANGED <<active, client_map, sock, posted, given, told, flight, late>>
    BY <1>3 DEF SendDone, limits, server
  <2>2. TShape'
    BY <1>1, <1>3, SendDoneShape
  <2>3. CASE UNCHANGED <<connected, thread>>
    BY <1>1, <2>1, <2>2, <2>3, QuietLedger DEF Books
  <2>4. CASE DisconnectClient(w, c)
    <3>1. \A d \in Clients : d # c /\ posted[d] => posted'[d]
      BY <2>1
    <3>2. Ledger'
      BY <1>1, <1>2, <2>1, <2>4, <3>1, DisconnectLedger
    <3>3. QED
      BY <2>2, <3>2 DEF Books
  <2>5. QED
    BY <1>3, <2>3, <2>4 DEF SendDone
<1>4. CASE RecvEnds(w, c)
  <2>1. /\ posted' = [posted EXCEPT ![c] = FALSE] /\ DisconnectClient(w, c)
        /\ UNCHANGED <<active, client_map, sock, given, told, flight, late>>
    BY <1>4 DEF RecvEnds, limits, server
  <2>2. \A d \in Clients : d # c /\ posted[d] => posted'[d]
    BY <1>1, <2>1 DEF TShape, Types
  <2>3. Ledger'
    BY <1>1, <1>2, <2>1, <2>2, DisconnectLedger
  <2>4. QED
    BY <1>1, <1>4, <2>3, RecvEndsShape DEF Books
<1>5. CASE RecvData(w, c)
  <2>1. /\ posted' = [posted EXCEPT ![c] = FALSE] /\ Goto(w, Job("loop", c))
        /\ UNCHANGED <<connected, active, client_map, sock, given, told, flight, late>>
    BY <1>5 DEF RecvData, limits, server
  <2>2. \A d \in Clients : d # c /\ posted[d] => posted'[d]
    BY <1>1, <2>1 DEF TShape, Types
  <2>3. Ledger'
    BY <1>1, <1>2, <2>1, <2>2, GoesOnLedger
  <2>4. QED
    BY <1>1, <1>5, <2>3, RecvDataShape DEF Books
<1>6. QED
  BY <1>3, <1>4, <1>5

LEMMA PacketBooks ==
  ASSUME Books, NEW w \in Workers, ProcessPacket(w) \/ Rearm(w) \/ Close(w)
  PROVE  Books'
<1>1. TShape /\ Ledger /\ w \in Threads
  BY DEF Books, Threads
<1>2. \A d \in Clients : Reads(w, d) => d = thread[w].c
  BY DEF Reads
<1>3. CASE LoginInfo(w)
  BY <1>1, <1>3, LoginInfoShape, LoginInfoLedger DEF Books
<1>4. CASE LoginCount(w)
  BY <1>1, <1>4, LoginCountShape, LoginCountLedger DEF Books
<1>5. CASE MoveObject(w)
  <2>1. PICK c \in Clients : c = thread[w].c /\ thread[w].pc = "loop"
    BY <1>1, <1>5, InHand, StagesAre DEF MoveObject
  <2>2. PICK stage \in {"loop", "later", "sooner"} : Goto(w, Job(stage, c))
    BY <1>5, <2>1 DEF MoveObject
  <2>3. UNCHANGED <<connected, active, client_map, sock, posted, given, told, flight, late>>
    BY <1>5 DEF MoveObject, limits, network, server
  <2>4. /\ thread[w].pc \notin {"count", "close"} /\ \A d \in Clients : Reads(w, d) => d = c
        /\ \A d \in Clients : d # c /\ posted[d] => posted'[d]
    BY <1>2, <2>1, <2>3
  <2>5. Ledger'
    BY <1>1, <2>2, <2>3, <2>4, GoesOnLedger
  <2>6. QED
    BY <1>1, <1>5, <2>5, MoveObjectShape DEF Books
<1>6. CASE DelayStep(w)
  <2>1. PICK c \in Clients : c = thread[w].c /\ thread[w].pc \in {"later", "sooner"}
    BY <1>1, <1>6, InHand, StagesAre DEF DelayStep
  <2>2. Goto(w, Job("loop", c))
    BY <1>6, <2>1 DEF DelayStep
  <2>3. UNCHANGED <<connected, active, client_map, sock, posted, given, told, flight, late>>
    BY <1>6 DEF DelayStep, limits, network, server
  <2>4. /\ thread[w].pc \notin {"count", "close"} /\ \A d \in Clients : Reads(w, d) => d = c
        /\ \A d \in Clients : d # c /\ posted[d] => posted'[d]
    BY <1>2, <2>1, <2>3
  <2>5. Ledger'
    BY <1>1, <2>2, <2>3, <2>4, GoesOnLedger
  <2>6. QED
    BY <1>1, <1>6, <2>5, DelayStepShape DEF Books
<1>7. CASE Rearm(w)
  BY <1>1, <1>7, RearmShape, RearmLedger DEF Books
<1>8. CASE Close(w)
  BY <1>1, <1>8, CloseShape, CloseLedger DEF Books
<1>9. QED
  BY <1>3, <1>4, <1>5, <1>6, <1>7, <1>8 DEF ProcessPacket

LEMMA BooksNext == ASSUME Books, [Next]_vars PROVE Books'
<1>1. CASE Environment
  BY <1>1, ServerBooks DEF Environment
<1>2. CASE Overload \/ Connect \/ Close(Test) \/ \E c \in Clients : TestMove(c)
  BY <1>2, TestBooks
<1>3. ASSUME NEW w \in Workers, ProcessPacket(w) \/ Rearm(w) \/ Close(w) PROVE Books'
  BY <1>3, PacketBooks
<1>4. ASSUME NEW w \in Workers, NEW c \in Clients, SendDone(w, c) \/ RecvEnds(w, c) \/ RecvData(w, c)
      PROVE  Books'
  BY <1>4, CompletionBooks
<1>5. CASE UNCHANGED vars
  <2>1. UNCHANGED <<connected, active, client_map, num_connections, client_to_close, sock, posted, given, told,
                    thread, flight, late>>
    BY <1>5 DEF vars, limits, network, server
  <2>2. TShape /\ Ledger
    BY DEF Books
  <2>3. Types'
    BY <2>1, <2>2 DEF TShape, Types
  <2>4. TShape'
    BY <2>1, <2>2, <2>3, QuietShape
  <2>5. Ledger'
    BY <2>1, <2>2, QuietLedger
  <2>6. QED
    BY <2>4, <2>5 DEF Books
<1>6. QED
  BY <1>1, <1>2, <1>3, <1>4, <1>5 DEF Next

(* The inductive invariant of the stress test. *)
THEOREM BooksHold == Spec => []Books
<1>1. Init => Books
  BY BooksInit
<1>2. Books /\ [Next]_vars => Books'
  BY BooksNext
<1>3. QED
  BY <1>1, <1>2, PTL DEF Spec

(* active_clients is off by exactly the changes that threads have begun.   *)
THEOREM CountExactHolds == Spec => []CountExact
<1>1. Books => CountExact
  BY TallyIsExact DEF Books, TShape, Ledger
<1>2. QED
  BY <1>1, BooksHold, PTL

(* There are never more points than point_cloud has room for, but for the  *)
(* logins that were unanswered when another client was made.               *)
THEOREM PointsFitHolds == Spec => []PointsFit
<1>1. ASSUME Books PROVE PointsFit
  <2>1. Points \in SUBSET Connected /\ Connected \in SUBSET Clients
    BY DEF Points, Connected
  <2>2. Cardinality(Points) <= Cardinality(Connected) /\ Cardinality(Points) \in Nat
    BY <2>1, AllFinite, FS_Subset
  <2>3. Cardinality(Connected) \in Nat /\ Cardinality(Untold) \in Nat
    BY Counted
  <2>4. MAX_TEST + flight \in Int /\ Cardinality(Connected) + Cardinality(Untold) <= MAX_TEST + flight
    BY <1>1, SizesAssumption DEF Books, TShape, Types, Ledger, Enough
  <2>5. Cardinality(Points) <= MAX_TEST + flight
    BY <2>2, <2>3, <2>4
  <2>6. QED
    BY <2>5 DEF PointsFit
<1>2. QED
  BY <1>1, BooksHold, PTL

(* No connected client is deaf: a receive is pending, or a worker has its  *)
(* last completion in hand and will post the next or close the sock.     *)
THEOREM ClientsHeardHolds == Spec => []Heard
<1>1. ASSUME Books PROVE Heard
  <2>1. \A w \in Workers, c \in Clients : Reads(w, c) => thread[w].c = c /\ thread[w].pc # "close"
    BY StagesAre DEF Reads
  <2>2. QED
    BY <1>1, <2>1 DEF Books, Ledger, Listened, Heard
<1>2. QED
  BY <1>1, BooksHold, PTL

(* client_map leads from an id to the client that has it now.              *)
THEOREM MapRightHolds == Spec => []MapRight
<1>1. ASSUME Books PROVE MapRight
  <2>1. DOMAIN thread = Threads
    BY <1>1 DEF Books, TShape, Types
  <2>2. SUFFICES ASSUME NEW c \in Clients, connected[c], sock[c] = "open", c \notin late,
                        \A t \in AtStep("count") : thread[t].c # c
                 PROVE  client_map[given[c]] = c
    BY DEF MapRight
  <2>3. c \in told /\ Latest(c)
    BY <1>1, <2>2 DEF Books, TShape, Made, Latest
  <2>4. Counted1(c)
    BY <2>1, <2>2 DEF AtStep, Counted1, Counts
  <2>5. QED
    BY <1>1, <2>3, <2>4 DEF Books, Ledger, Mapped
<1>2. QED
  BY <1>1, BooksHold, PTL

-----------------------------------------------------------------------------
(* The board.  What is kept of types, letters (kp) and packets (pp).        *)

Letter(type, step) == [type |-> type, step |-> step]
Letters  == [type : {"login", "connect", "online", "escape"}, step : {-1, 0, 1}]
Packets  == [id : SessionIds, x : Int, esc : BOOLEAN, last : BOOLEAN]
Pieces   == [id : SessionIds, x : Int]
Playing  == {"login", "connect", "online"}

BoardTypes ==
  /\ clients \subseteq SessionIds /\ client_pos \in [SessionIds -> Int]
  /\ cnt \in [SessionIds -> BOOLEAN] /\ hung \in BOOLEAN
  /\ up \in [SessionIds -> Seq(Letters)] /\ down \in [SessionIds -> Seq(Packets)]
  /\ pc \in [SessionIds -> Playing \cup {"off", "leaving", "gone"}]
  /\ kp_type \in [SessionIds -> {"login", "connect", "online"}]
  /\ pp \in [SessionIds -> Packets] /\ apcs \in [SessionIds -> Nat]
  /\ login \subseteq SessionIds /\ players \in [SessionIds -> Seq(Pieces)]
  /\ keys \in Nat /\ joined \subseteq SessionIds /\ crossed \subseteq SessionIds
  /\ missed \in [SessionIds -> SUBSET SessionIds]

(* Nothing about j is on its way to i; pp of i holds something unread of j. *)
Quiet(i, j) == \A n \in DOMAIN down[i] : down[i][n].id # j
Unread(i, j) == apcs[i] > 0 /\ pp[i].id = j

(* A client that has not come yet has left no trace; one that plays is on   *)
(* the server's list; the clients come in the order of their ids.           *)
Seated(i) ==
  /\ pc[i] = "off" => /\ i \notin clients /\ i \notin login /\ i \notin joined /\ ~cnt[i]
                      /\ down[i] = <<>> /\ apcs[i] = 0
                      /\ \A k \in SessionIds : Quiet(k, i) /\ ~Unread(k, i) /\ ~Has(players[k], i)
                      /\ \A k \in SessionIds : i < k => pc[k] = "off"
  /\ pc[i] \in Playing => i \in clients /\ \A n \in DOMAIN up[i] : up[i][n].type # "escape"
  /\ i \notin login => pc[i] \in {"off", "login"} /\ players[i] = <<>>

(* Only who has been told of all has packets that say so.                   *)
Reported(i) ==
  /\ pc[i] = "online" => cnt[i]
  /\ pp[i].last => cnt[i]
  /\ \A n \in DOMAIN down[i] : down[i][n].last => cnt[i]

LastPacket(i) == IF down[i] = <<>> THEN pp[i] ELSE down[i][Len(down[i])]

(* What a client waits for is a letter to the server, or already its answer. *)
Answered(i) ==
  /\ pc[i] = "login" => \/ up[i] = <<Letter("login", 0)>>
                        \/ up[i] = <<>> /\ (i \in login \/ apcs[i] > 0 \/ down[i] # <<>>)
  /\ pc[i] = "connect" => \/ up[i] = <<Letter("login", 0), Letter("connect", 0)>>
                          \/ up[i] = <<Letter("connect", 0)>>
                          \/ up[i] = <<>> /\ cnt[i] /\ LastPacket(i).last

(* A client whom nothing has crossed hears of itself first.                 *)
OwnFirst(i) ==
  /\ pc[i] \in Playing => /\ \A n \in DOMAIN down[i] : down[i][n].id = i => ~down[i][n].esc
                          /\ Unread(i, i) => ~pp[i].esc
  /\ i \notin crossed =>
       /\ i \notin joined => down[i] = <<>> /\ apcs[i] = 0 /\ i \notin login
       /\ i \in joined /\ i \notin login =>
            \/ apcs[i] = 0 /\ down[i] # <<>> /\ down[i][1].id = i
            \/ apcs[i] = 1 /\ pp[i].id = i
       /\ i \in login /\ pc[i] \in Playing => players[i] # <<>> /\ players[i][1].id = i

(* What the server has of j, and what a packet says.                        *)
Truth(j) == IF j \in clients THEN {client_pos[j]} ELSE {}
Says(p)  == IF p.esc THEN {} ELSE {p.x}

(* The last that a playing client is, or will be, told of j is the truth.   *)
Told(i, j) ==
  pc[i] \in Playing =>
    /\ \A n \in DOMAIN down[i] :
         down[i][n].id = j /\ (\A m \in DOMAIN down[i] : m > n => down[i][m].id # j)
         => Says(down[i][n]) = Truth(j)
    /\ Quiet(i, j) /\ Unread(i, j) => Says(pp[i]) = Truth(j)
    /\ Quiet(i, j) /\ ~Unread(i, j) /\ j \in joined \ missed[i] =>
         \/ Places(players[i], j) = Truth(j)
         \/ j < i /\ ~cnt[i] /\ Places(players[i], j) = {}

Distinct(s) == \A n, m \in DOMAIN s : s[n].id = s[m].id => n = m

BoardIInv ==
  /\ BoardTypes
  /\ \A i \in SessionIds : Seated(i) /\ Reported(i) /\ Answered(i) /\ OwnFirst(i) /\ Distinct(players[i])
  /\ \A i, j \in SessionIds : Told(i, j)

(* Induction over the naturals, with sets: what the recursive function in    *)
(* Callbacks does in every step, it does in any number of them.             *)
LEMMA Smallest ==
  ASSUME NEW S \in SUBSET Nat, S # {}
  PROVE  \E n \in S : \A m \in S : n <= m
<1> DEFINE R == OpToRel(<, Nat)
<1>1. IsWellFoundedOn(R, Nat)
  BY NatLessThanWellFounded
<1>2. \A x, y \in Nat : y < x => <<y, x>> \in R
  BY DEF OpToRel
<1> HIDE DEF R
<1>3. PICK n \in S : \A m \in S : ~(<<m, n>> \in R)
  BY <1>1, WFMin
<1>4. ASSUME NEW m \in S  PROVE n <= m
  <2>1. m \in Nat /\ n \in Nat
    OBVIOUS
  <2>2. ~(m < n)
    BY <1>2, <1>3, <2>1
  <2> QED  BY <2>1, <2>2
<1> QED  BY <1>4

LEMMA AllNaturals ==
  ASSUME NEW S, 0 \in S, \A n \in Nat : n \in S => n + 1 \in S
  PROVE  Nat \subseteq S
<1> DEFINE T == {n \in Nat : n \notin S}
<1>1. ASSUME T # {}  PROVE FALSE
  <2>1. PICK n \in T : \A m \in T : n <= m
    BY <1>1, Smallest
  <2>2. n # 0 /\ n - 1 \in Nat /\ n - 1 \notin T
    BY <2>1
  <2> QED  BY <2>1, <2>2
<1> QED  BY <1>1


(* Callbacks stays in any set that recv_callback does not leave.            *)
LEMMA CallbacksStay ==
  ASSUME NEW S, NEW s \in S, NEW type, NEW p, NEW n \in Nat,
         \A x \in S : recv_callback(x, type, p) \in S
  PROVE  Callbacks(s, type, p, n) \in S
<1> DEFINE Steps(m, f) == f = [k \in 0 .. m |-> IF k = 0 THEN s ELSE recv_callback(f[k - 1], type, p)]
<1> DEFINE G == {m \in Nat : \E f : Steps(m, f)}
<1>1. 0 \in G
  <2>1. Steps(0, [k \in 0 .. 0 |-> s])
    OBVIOUS
  <2> QED  BY <2>1
<1>2. ASSUME NEW m \in Nat, m \in G  PROVE m + 1 \in G
  <2>1. PICK f : Steps(m, f)
    BY <1>2
  <2> DEFINE g == [k \in 0 .. m + 1 |-> IF k <= m THEN f[k] ELSE recv_callback(f[m], type, p)]
  <2>2. ASSUME NEW k \in 0 .. m + 1
        PROVE  g[k] = IF k = 0 THEN s ELSE recv_callback(g[k - 1], type, p)
    <3>1. CASE k <= m
      BY <2>1, <3>1
    <3>2. CASE k = m + 1
      <4>1. g[k] = recv_callback(f[m], type, p) /\ k - 1 = m /\ k # 0 /\ m \in 0 .. m + 1
        BY <3>2
      <4> QED  BY <4>1
    <3> QED  BY <3>1, <3>2
  <2>3. Steps(m + 1, g)
    <3> DEFINE h == [k \in 0 .. m + 1 |-> IF k = 0 THEN s ELSE recv_callback(g[k - 1], type, p)]
    <3>1. \A k \in 0 .. m + 1 : g[k] = h[k]
      BY <2>2
    <3> QED  BY <3>1
  <2> HIDE DEF g
  <2> QED  BY <2>3
<1>3. PICK f : Steps(n, f)
  <2> HIDE DEF Steps
  <2>1. Nat \subseteq G
    <3> HIDE DEF G
    <3> QED  BY <1>1, <1>2, AllNaturals
  <2> QED  BY <2>1
<1> DEFINE step == CHOOSE h : Steps(n, h)
<1>4. Steps(n, step)
  BY <1>3
<1>5. Callbacks(s, type, p, n) = step[n]
  BY DEF Callbacks
<1> HIDE DEF step
<1> DEFINE T == {m \in Nat : m <= n => step[m] \in S}
<1>6. 0 \in T
  BY <1>4
<1>7. ASSUME NEW m \in Nat, m \in T  PROVE m + 1 \in T
  <2>1. m + 1 <= n => step[m + 1] = recv_callback(step[m], type, p)
    BY <1>4
  <2> QED  BY <1>7, <2>1
<1>8. Nat \subseteq T
  <2> HIDE DEF T
  <2> QED  BY <1>6, <1>7, AllNaturals
<1> QED  BY <1>5, <1>8

LEMMA RemoveAtIs ==
  ASSUME NEW T, NEW s \in Seq(T), NEW n \in DOMAIN s
  PROVE  /\ RemoveAt(s, n) \in Seq(T) /\ Len(RemoveAt(s, n)) = Len(s) - 1
         /\ \A k \in DOMAIN RemoveAt(s, n) : RemoveAt(s, n)[k] = IF k < n THEN s[k] ELSE s[k + 1]
<1> DEFINE a == SubSeq(s, 1, n - 1)
           b == SubSeq(s, n + 1, Len(s))
<1>1. Len(s) \in Nat /\ n \in 1 .. Len(s) /\ RemoveAt(s, n) = a \o b
  BY DEF RemoveAt
<1>2. a \in Seq(T) /\ Len(a) = n - 1 /\ \A k \in 1 .. n - 1 : a[k] = s[k]
  BY <1>1
<1>3. b \in Seq(T) /\ Len(b) = Len(s) - n /\ \A k \in 1 .. Len(s) - n : b[k] = s[k + n]
  BY <1>1
<1> HIDE DEF a, b
<1>4. a \o b \in Seq(T) /\ Len(a \o b) = Len(s) - 1
  BY <1>1, <1>2, <1>3
<1>5. ASSUME NEW k \in 1 .. Len(s) - 1
      PROVE  (a \o b)[k] = IF k < n THEN s[k] ELSE s[k + 1]
  <2>1. CASE k < n
    BY <1>1, <1>2, <1>3, <2>1
  <2>2. CASE k >= n
    <3>1. (a \o b)[k] = b[k - (n - 1)]
      BY <1>1, <1>2, <1>3, <2>2
    <3> DEFINE m == k - (n - 1)
    <3>2. m \in 1 .. Len(s) - n /\ m + n = k + 1
      BY <1>1, <2>2
    <3>3. b[m] = s[m + n]
      BY <1>3, <3>2
    <3>4. ~(k < n)
      BY <1>1, <2>2
    <3> QED  BY <3>1, <3>2, <3>3, <3>4
  <2>3. k < n \/ k >= n
    BY <1>1
  <2> QED  BY <2>1, <2>2, <2>3
<1>6. DOMAIN (a \o b) = 1 .. Len(s) - 1
  BY <1>1, <1>4
<1> QED  BY <1>1, <1>4, <1>5, <1>6

LEMMA WithoutIs ==
  ASSUME NEW s \in Seq(Pieces), NEW i, Has(s, i)
  PROVE  \E n \in DOMAIN s : s[n].id = i /\ Without(s, i) = RemoveAt(s, n)
<1> DEFINE S == {n \in DOMAIN s : s[n].id = i}
<1>1. S \subseteq Nat /\ S # {}
  BY DEF Has
<1>2. PICK n \in S : \A m \in S : n <= m
  BY <1>1, Smallest
<1>3. \E k \in DOMAIN s : s[k].id = i /\ \A m \in DOMAIN s : s[m].id = i => k <= m
  BY <1>2
<1> QED  BY <1>3 DEF Without

LEMMA MovedIs ==
  ASSUME NEW s \in Seq(Pieces), NEW p \in Packets
  PROVE  /\ Moved(s, p) \in Seq(Pieces) /\ DOMAIN Moved(s, p) = DOMAIN s
         /\ Len(Moved(s, p)) = Len(s)
         /\ \A n \in DOMAIN s : /\ Moved(s, p)[n].id = s[n].id
                                /\ s[n].id # p.id => Moved(s, p)[n] = s[n]
<1>1. \A n \in DOMAIN s : s[n] \in Pieces
  OBVIOUS
<1>2. Player(p.id, p.x) \in Pieces /\ Player(p.id, p.x).id = p.id
  BY DEF Player, Pieces, Packets
<1>3. \A n \in DOMAIN s : Moved(s, p)[n] = IF s[n].id = p.id THEN Player(p.id, p.x) ELSE s[n]
  BY DEF Moved
<1>4. DOMAIN Moved(s, p) = DOMAIN s
  BY DEF Moved
<1>5. Moved(s, p) \in Seq(Pieces) /\ Len(Moved(s, p)) = Len(s)
  <2>1. Len(s) \in Nat /\ DOMAIN s = 1 .. Len(s)
    OBVIOUS
  <2>2. Moved(s, p) \in [1 .. Len(s) -> Pieces]
    BY <1>1, <1>2, <2>1 DEF Moved
  <2> QED  BY <2>1, <2>2
<1> QED  BY <1>2, <1>3, <1>4, <1>5

(* What one routine makes of the vector.                                    *)
LEMMA RecvIs ==
  ASSUME NEW s \in Seq(Pieces), NEW type, NEW p \in Packets
  PROVE  LET r == recv_callback(s, type, p) IN
         /\ r \in Seq(Pieces)
         /\ \/ r = s
            \/ ~Has(s, p.id) /\ r = Append(s, Player(p.id, p.x))
            \/ p.esc /\ \E n \in DOMAIN s : s[n].id = p.id /\ r = RemoveAt(s, n)
            \/ r = Moved(s, p)
<1>1. CASE ~Has(s, p.id)
  <2>1. Player(p.id, p.x) \in Pieces
    BY DEF Player, Pieces, Packets
  <2> QED  BY <1>1, <2>1 DEF recv_callback
<1>2. CASE Has(s, p.id) /\ type = "connect"
  BY <1>2 DEF recv_callback
<1>3. CASE Has(s, p.id) /\ type # "connect" /\ p.esc
  <2>1. recv_callback(s, type, p) = Without(s, p.id)
    BY <1>3 DEF recv_callback
  <2>2. PICK n \in DOMAIN s : s[n].id = p.id /\ Without(s, p.id) = RemoveAt(s, n)
    BY <1>3, WithoutIs
  <2> QED  BY <1>3, <2>1, <2>2, RemoveAtIs
<1>4. CASE Has(s, p.id) /\ type # "connect" /\ ~p.esc
  BY <1>4, MovedIs DEF recv_callback
<1> QED  BY <1>1, <1>2, <1>3, <1>4

(* A packet leaves the places of everyone else alone.                       *)
LEMMA RecvKeepsOthers ==
  ASSUME NEW s \in Seq(Pieces), NEW type, NEW p \in Packets, NEW j, j # p.id
  PROVE  Places(recv_callback(s, type, p), j) = Places(s, j)
<1> DEFINE r == recv_callback(s, type, p)
<1>0. r \in Seq(Pieces)
  BY RecvIs
<1>1. CASE r = s
  BY <1>1
<1>2. ASSUME ~Has(s, p.id) /\ r = Append(s, Player(p.id, p.x))
      PROVE  Places(r, j) = Places(s, j)
  <2>1. \A n \in DOMAIN s : n \in DOMAIN r /\ r[n] = s[n]
    BY <1>2
  <2>2. \A n \in DOMAIN r : n \in DOMAIN s \/ r[n].id = p.id
    BY <1>2 DEF Player
  <2> HIDE DEF r
  <2> QED  BY <2>1, <2>2 DEF Places
<1>3. ASSUME NEW n \in DOMAIN s, s[n].id = p.id, r = RemoveAt(s, n)
      PROVE  Places(r, j) = Places(s, j)
  <2>1. /\ Len(r) = Len(s) - 1 /\ Len(s) \in Nat /\ n \in 1 .. Len(s)
        /\ DOMAIN r = 1 .. Len(r) /\ DOMAIN s = 1 .. Len(s)
        /\ \A k \in DOMAIN r : r[k] = IF k < n THEN s[k] ELSE s[k + 1]
    BY <1>0, <1>3, RemoveAtIs
  <2> HIDE DEF r
  <2>2. ASSUME NEW m \in DOMAIN s, s[m].id = j  PROVE \E k \in DOMAIN r : r[k] = s[m]
    <3>1. m # n
      BY <1>3, <2>2
    <3>2. CASE m < n
      BY <2>1, <3>2
    <3>3. CASE m > n
      <4>1. m - 1 \in DOMAIN r /\ ~(m - 1 < n) /\ (m - 1) + 1 = m
        BY <2>1, <3>3
      <4> QED  BY <2>1, <4>1
    <3> QED  BY <2>1, <3>1, <3>2, <3>3
  <2>3. \A k \in DOMAIN r : \E m \in DOMAIN s : r[k] = s[m]
    BY <2>1
  <2> QED  BY <2>2, <2>3 DEF Places
<1>4. ASSUME r = Moved(s, p)
      PROVE  Places(r, j) = Places(s, j)
  <2>1. DOMAIN r = DOMAIN s /\ \A n \in DOMAIN s : r[n].id = s[n].id /\ (s[n].id # p.id => r[n] = s[n])
    BY <1>4, MovedIs
  <2> HIDE DEF r
  <2> QED  BY <2>1 DEF Places
<1> QED  BY <1>1, <1>2, <1>3, <1>4, RecvIs

(* The first piece stays the first, unless the packet takes it away.        *)
LEMMA RecvKeepsFirst ==
  ASSUME NEW s \in Seq(Pieces), NEW type, NEW p \in Packets, NEW i,
         s # <<>>, s[1].id = i, p.id = i => ~p.esc
  PROVE  recv_callback(s, type, p) # <<>> /\ recv_callback(s, type, p)[1].id = i
<1> DEFINE r == recv_callback(s, type, p)
<1>0. r \in Seq(Pieces) /\ Len(s) \in Nat \ {0} /\ 1 \in DOMAIN s
  BY RecvIs
<1>1. CASE r = s
  BY <1>1
<1>2. ASSUME ~Has(s, p.id) /\ r = Append(s, Player(p.id, p.x))
      PROVE  r # <<>> /\ r[1].id = i
  BY <1>0, <1>2
<1>3. ASSUME p.esc, NEW n \in DOMAIN s, s[n].id = p.id, r = RemoveAt(s, n)
      PROVE  r # <<>> /\ r[1].id = i
  <2>1. /\ Len(r) = Len(s) - 1 /\ n \in 1 .. Len(s) /\ DOMAIN r = 1 .. Len(r)
        /\ \A k \in DOMAIN r : r[k] = IF k < n THEN s[k] ELSE s[k + 1]
    BY <1>0, <1>3, RemoveAtIs
  <2> HIDE DEF r
  <2>2. n # 1
    BY <1>3
  <2>3. 1 \in DOMAIN r /\ 1 < n
    BY <1>0, <2>1, <2>2
  <2> QED  BY <2>1, <2>3
<1>4. ASSUME r = Moved(s, p)
      PROVE  r # <<>> /\ r[1].id = i
  <2>1. DOMAIN r = DOMAIN s /\ \A n \in DOMAIN s : r[n].id = s[n].id
    BY <1>4, MovedIs
  <2> HIDE DEF r
  <2> QED  BY <1>0, <2>1
<1> QED  BY <1>1, <1>2, <1>3, <1>4, RecvIs

(* No id has two pieces.                                                    *)
LEMMA RecvKeepsDistinct ==
  ASSUME NEW s \in Seq(Pieces), NEW type, NEW p \in Packets, Distinct(s)
  PROVE  Distinct(recv_callback(s, type, p))
<1> DEFINE r == recv_callback(s, type, p)
<1>0. r \in Seq(Pieces)
  BY RecvIs
<1>1. CASE r = s
  BY <1>1
<1>2. ASSUME ~Has(s, p.id) /\ r = Append(s, Player(p.id, p.x))
      PROVE  Distinct(r)
  <2>1. \A n \in DOMAIN r : \/ n \in DOMAIN s /\ r[n] = s[n] /\ r[n].id # p.id
                            \/ n = Len(s) + 1 /\ r[n].id = p.id
    BY <1>2 DEF Has, Player
  <2> HIDE DEF r
  <2> QED  BY <2>1 DEF Distinct
<1>3. ASSUME NEW n \in DOMAIN s, s[n].id = p.id, r = RemoveAt(s, n)
      PROVE  Distinct(r)
  <2>1. /\ Len(r) = Len(s) - 1 /\ Len(s) \in Nat /\ n \in 1 .. Len(s)
        /\ DOMAIN r = 1 .. Len(r) /\ DOMAIN s = 1 .. Len(s)
        /\ \A k \in DOMAIN r : r[k] = IF k < n THEN s[k] ELSE s[k + 1]
    BY <1>0, <1>3, RemoveAtIs
  <2> HIDE DEF r
  <2>2. ASSUME NEW k \in DOMAIN r, NEW m \in DOMAIN r, r[k].id = r[m].id  PROVE k = m
    <3> DEFINE F(l) == IF l < n THEN l ELSE l + 1
    <3>1. /\ F(k) \in DOMAIN s /\ r[k] = s[F(k)] /\ F(m) \in DOMAIN s /\ r[m] = s[F(m)]
      BY <2>1
    <3>2. F(k) = F(m)
      BY <2>2, <3>1 DEF Distinct
    <3> QED  BY <2>1, <3>2
  <2> QED  BY <2>2 DEF Distinct
<1>4. ASSUME r = Moved(s, p)
      PROVE  Distinct(r)
  <2>1. DOMAIN r = DOMAIN s /\ \A n \in DOMAIN s : r[n].id = s[n].id
    BY <1>4, MovedIs
  <2> HIDE DEF r
  <2> QED  BY <2>1 DEF Distinct
<1> QED  BY <1>1, <1>2, <1>3, <1>4, RecvIs

(* The same of all routines that are due.                                   *)
LEMMA CallbacksKeep ==
  ASSUME NEW s \in Seq(Pieces), NEW type, NEW p \in Packets, NEW n \in Nat
  PROVE  LET r == Callbacks(s, type, p, n) IN
         /\ r \in Seq(Pieces)
         /\ \A j : j # p.id => Places(r, j) = Places(s, j)
         /\ \A i : s # <<>> /\ s[1].id = i /\ (p.id = i => ~p.esc) => r # <<>> /\ r[1].id = i
         /\ Distinct(s) => Distinct(r)
<1>1. Callbacks(s, type, p, n) \in Seq(Pieces)
  <2> DEFINE S == Seq(Pieces)
  <2>1. \A x \in S : recv_callback(x, type, p) \in S
    BY RecvIs
  <2> QED  BY <2>1, CallbacksStay
<1>2. ASSUME NEW j, j # p.id  PROVE Places(Callbacks(s, type, p, n), j) = Places(s, j)
  <2> DEFINE S == {x \in Seq(Pieces) : Places(x, j) = Places(s, j)}
  <2>1. \A x \in S : recv_callback(x, type, p) \in S
    BY <1>2, RecvIs, RecvKeepsOthers
  <2>2. s \in S
    OBVIOUS
  <2> HIDE DEF S
  <2>3. Callbacks(s, type, p, n) \in S
    BY <2>1, <2>2, CallbacksStay
  <2> QED  BY <2>3 DEF S
<1>3. ASSUME NEW i, s # <<>>, s[1].id = i, p.id = i => ~p.esc
      PROVE  Callbacks(s, type, p, n) # <<>> /\ Callbacks(s, type, p, n)[1].id = i
  <2> DEFINE S == {x \in Seq(Pieces) : x # <<>> /\ x[1].id = i}
  <2>1. \A x \in S : recv_callback(x, type, p) \in S
    BY <1>3, RecvIs, RecvKeepsFirst
  <2>2. s \in S
    BY <1>3
  <2> HIDE DEF S
  <2>3. Callbacks(s, type, p, n) \in S
    BY <2>1, <2>2, CallbacksStay
  <2> QED  BY <2>3 DEF S
<1>4. ASSUME Distinct(s)  PROVE Distinct(Callbacks(s, type, p, n))
  <2> DEFINE S == {x \in Seq(Pieces) : Distinct(x)}
  <2>1. \A x \in S : recv_callback(x, type, p) \in S
    BY RecvIs, RecvKeepsDistinct
  <2>2. s \in S
    BY <1>4
  <2> HIDE DEF S
  <2>3. Callbacks(s, type, p, n) \in S
    BY <2>1, <2>2, CallbacksStay
  <2> QED  BY <2>3 DEF S
<1> QED  BY <1>1, <1>2, <1>3, <1>4

(* Counted from above, the members of a finite set have the numbers from 1. *)
LEMMA Ranked ==
  ASSUME NEW T \in SUBSET Nat, IsFiniteSet(T)
  PROVE  LET rank(j) == Cardinality({m \in T : m >= j}) IN
         /\ \A j \in T : rank(j) \in 1 .. Cardinality(T)
         /\ \A j, k \in T : rank(j) = rank(k) => j = k
         /\ \A n \in 1 .. Cardinality(T) : \E j \in T : rank(j) = n
<1> DEFINE U(j)    == {m \in T : m >= j}
           rank(j) == Cardinality(U(j))
<1>0. Cardinality(T) \in Nat
  BY FS_CardinalityType
<1>1. ASSUME NEW j \in T  PROVE rank(j) \in 1 .. Cardinality(T) /\ IsFiniteSet(U(j))
  <2>1. U(j) \in SUBSET T /\ j \in U(j)
    OBVIOUS
  <2> HIDE DEF U
  <2>2. IsFiniteSet(U(j)) /\ Cardinality(U(j)) <= Cardinality(T)
    BY <2>1, FS_Subset
  <2>3. Cardinality(U(j)) \in Nat /\ Cardinality(U(j)) # 0
    BY <2>1, <2>2, FS_CardinalityType, FS_EmptySet
  <2> QED  BY <1>0, <2>2, <2>3
<1>2. ASSUME NEW j \in T, NEW k \in T, j < k  PROVE rank(j) # rank(k)
  <2>0. j \in Nat /\ k \in Nat /\ \A m \in T : m \in Nat
    OBVIOUS
  <2>1. U(k) \in SUBSET U(j) /\ j \in U(j) /\ j \notin U(k)
    <3>1. \A m \in T : m >= k => m >= j
      BY <1>2, <2>0
    <3>2. ~(j >= k) /\ j >= j
      BY <1>2, <2>0
    <3> QED  BY <3>1, <3>2
  <2>2. IsFiniteSet(U(j))
    BY <1>1
  <2> HIDE DEF U
  <2> QED  BY <2>1, <2>2, FS_Subset
<1>3. \A j, k \in T : rank(j) = rank(k) => j = k
  <2> SUFFICES ASSUME NEW j \in T, NEW k \in T, rank(j) = rank(k), j # k  PROVE FALSE
    OBVIOUS
  <2>1. j < k \/ k < j
    OBVIOUS
  <2> HIDE DEF rank
  <2> QED  BY <1>2, <2>1
<1> DEFINE f == [j \in T |-> rank(j)]
<1>4. f \in Injection(T, 1 .. Cardinality(T))
  <2> HIDE DEF rank
  <2> QED  BY <1>1, <1>3 DEF Injection, IsInjective
<1>5. f \in Surjection(T, 1 .. Cardinality(T))
  <2>1. IsFiniteSet(1 .. Cardinality(T)) /\ Cardinality(1 .. Cardinality(T)) = Cardinality(T)
    BY <1>0, FS_Interval
  <2> HIDE DEF f
  <2> QED  BY <1>4, <2>1, FS_Injection
<1>6. \A n \in 1 .. Cardinality(T) : \E j \in T : rank(j) = n
  <2> HIDE DEF rank
  <2> QED  BY <1>5 DEF Surjection
<1> QED  BY <1>1, <1>3, <1>6

(* The places E_CONNECT is answered with: of all who came before, as the     *)
(* server has them.                                                         *)
LEMMA BeforeIs ==
  ASSUME BoardTypes, NEW i \in SessionIds
  PROVE  /\ Before(i) \in Seq(Packets)
         /\ \A n \in DOMAIN Before(i) :
              \E j \in clients : j < i /\ Before(i)[n] = Packet(j, client_pos[j], FALSE, cnt[i])
         /\ \A j \in clients : j < i => \E n \in DOMAIN Before(i) : Before(i)[n].id = j
<1> DEFINE T == {j \in clients : j < i}
           rank(j) == Cardinality({m \in T : m >= j})
           who(n) == CHOOSE j \in T : rank(j) = n
<1>1. T \in SUBSET Nat /\ IsFiniteSet(T) /\ T \subseteq SessionIds
  <2>1. T \in SUBSET SessionIds /\ N \in Nat
    BY BoardAssumption DEF BoardTypes
  <2>2. IsFiniteSet(SessionIds)
    BY <2>1, FS_Interval DEF SessionIds
  <2> QED  BY <2>1, <2>2, FS_Subset DEF SessionIds
<1>2. Cardinality(T) \in Nat
  BY <1>1, FS_CardinalityType
<1>3. /\ \A j \in T : rank(j) \in 1 .. Cardinality(T)
      /\ \A j, k \in T : rank(j) = rank(k) => j = k
      /\ \A n \in 1 .. Cardinality(T) : \E j \in T : rank(j) = n
  <2> HIDE DEF T
  <2> QED  BY <1>1, Ranked
<1>4. Before(i) = [n \in 1 .. Cardinality(T) |-> Packet(who(n), client_pos[who(n)], FALSE, cnt[i])]
  BY DEF Before
<1>5. \A n \in 1 .. Cardinality(T) : who(n) \in T /\ rank(who(n)) = n
  <2> HIDE DEF T, rank
  <2> QED  BY <1>3
<1> HIDE DEF rank, who
<1>6. Before(i) \in Seq(Packets)
  <2>1. \A n \in 1 .. Cardinality(T) : Packet(who(n), client_pos[who(n)], FALSE, cnt[i]) \in Packets
    <3> SUFFICES ASSUME NEW n \in 1 .. Cardinality(T)
                 PROVE  Packet(who(n), client_pos[who(n)], FALSE, cnt[i]) \in Packets
      OBVIOUS
    <3>1. who(n) \in SessionIds
      BY <1>1, <1>5
    <3> QED  BY <3>1 DEF Packet, Packets, BoardTypes
  <2>2. Before(i) \in [1 .. Cardinality(T) -> Packets]
    BY <1>4, <2>1
  <2> HIDE DEF T
  <2> QED  BY <1>2, <2>2
<1>7. \A j \in T : Before(i)[rank(j)].id = j /\ rank(j) \in DOMAIN Before(i)
  <2> SUFFICES ASSUME NEW j \in T  PROVE Before(i)[rank(j)].id = j /\ rank(j) \in DOMAIN Before(i)
    OBVIOUS
  <2>1. rank(j) \in 1 .. Cardinality(T)
    BY <1>3
  <2>2. who(rank(j)) = j
    BY <1>3, <1>5, <2>1
  <2> QED  BY <1>4, <2>1, <2>2 DEF Packet
<1>8. DOMAIN Before(i) = 1 .. Cardinality(T)
  BY <1>4
<1>9. \A n \in DOMAIN Before(i) : /\ who(n) \in clients /\ who(n) < i
                                  /\ Before(i)[n] = Packet(who(n), client_pos[who(n)], FALSE, cnt[i])
  BY <1>4, <1>5, <1>8
<1> QED  BY <1>6, <1>7, <1>9

(* A queue d that a broadcast makes longer by the packets a, and p at last. *)
Lengthens(e, d, a, p) ==
  /\ e \in Seq(Packets) /\ e # <<>> /\ e[Len(e)] = p /\ Len(e) \in DOMAIN e
  /\ \A n \in DOMAIN d : n \in DOMAIN e /\ e[n] = d[n] /\ n < Len(e)
  /\ \A n \in DOMAIN e : \/ n \in DOMAIN d /\ e[n] = d[n]
                         \/ n > Len(d) /\ \E m \in DOMAIN a : e[n] = a[m]
                         \/ n = Len(e) /\ n > Len(d) /\ e[n] = p
  /\ \A m \in DOMAIN a : \E n \in DOMAIN e : e[n] = a[m]
  /\ d = <<>> /\ a = <<>> => e[1] = p

LEMMA Longer ==
  ASSUME NEW d \in Seq(Packets), NEW a \in Seq(Packets), NEW p \in Packets,
         NEW e, e = d \o a \o <<p>>
  PROVE  Lengthens(e, d, a, p)
<1> DEFINE b == d \o a
<1>0. e = b \o <<p>>
  OBVIOUS
<1>1. Len(d) \in Nat /\ Len(a) \in Nat /\ DOMAIN d = 1 .. Len(d) /\ DOMAIN a = 1 .. Len(a)
  OBVIOUS
<1>2. b \in Seq(Packets) /\ Len(b) = Len(d) + Len(a)
  BY <1>1
<1>3. /\ \A n \in 1 .. Len(d) : b[n] = d[n]
      /\ \A n \in 1 .. Len(b) : n > Len(d) => b[n] = a[n - Len(d)]
  BY <1>1, <1>2
<1>4. b = <<>> => d = <<>>
  BY <1>1, <1>2
<1>a. d = <<>> /\ a = <<>> => b = <<>>
  OBVIOUS
<1> HIDE DEF b
<1>5. e \in Seq(Packets) /\ Len(e) = Len(b) + 1 /\ DOMAIN e = 1 .. Len(b) + 1
  BY <1>0, <1>2
<1>6. /\ \A n \in 1 .. Len(b) : e[n] = b[n]
      /\ e[Len(b) + 1] = p
  BY <1>0, <1>2
<1>7. b = <<>> => e[1] = p
  BY <1>0
<1>8. \A n \in DOMAIN d : n \in DOMAIN e /\ e[n] = d[n] /\ n < Len(e)
  BY <1>1, <1>2, <1>3, <1>5, <1>6
<1>9. ASSUME NEW n \in DOMAIN e
      PROVE  \/ n \in DOMAIN d /\ e[n] = d[n]
             \/ n > Len(d) /\ \E m \in DOMAIN a : e[n] = a[m]
             \/ n = Len(e) /\ n > Len(d) /\ e[n] = p
  <2>1. CASE n \in 1 .. Len(d)
    BY <1>1, <1>8, <2>1
  <2>2. CASE n \in 1 .. Len(b) /\ n > Len(d)
    <3>1. n - Len(d) \in DOMAIN a /\ e[n] = a[n - Len(d)]
      BY <1>1, <1>2, <1>3, <1>6, <2>2
    <3> QED  BY <2>2, <3>1
  <2>3. CASE n = Len(b) + 1
    <3>1. n > Len(d)
      BY <1>1, <1>2, <2>3
    <3> QED  BY <1>5, <1>6, <2>3, <3>1
  <2>4. n \in 1 .. Len(d) \/ (n \in 1 .. Len(b) /\ n > Len(d)) \/ n = Len(b) + 1
    <3>1. n \in 1 .. Len(b) + 1
      BY <1>5
    <3> QED  BY <1>1, <1>2, <3>1
  <2> QED  BY <2>1, <2>2, <2>3, <2>4
<1>10. ASSUME NEW m \in DOMAIN a  PROVE \E n \in DOMAIN e : e[n] = a[m]
  <2> DEFINE n == m + Len(d)
  <2>1. n \in 1 .. Len(b) /\ n > Len(d) /\ n - Len(d) = m /\ n \in DOMAIN e
    BY <1>1, <1>2, <1>5
  <2> HIDE DEF n
  <2>2. e[n] = a[m]
    BY <1>3, <1>6, <2>1
  <2> QED  BY <2>1, <2>2
<1>11. e # <<>> /\ e[Len(e)] = p /\ Len(e) \in DOMAIN e
  <2>1. Len(e) \in DOMAIN e /\ Len(e) # 0
    BY <1>1, <1>2, <1>5
  <2> QED  BY <1>5, <1>6, <2>1
<1> QED  BY <1>5, <1>7, <1>8, <1>9, <1>10, <1>11, <1>a DEF Lengthens

(* The head of a queue and what remains of it.                              *)
LEMMA Shorter ==
  ASSUME NEW T, NEW q \in Seq(T), q # <<>>
  PROVE  /\ Head(q) = q[1] /\ Head(q) \in T /\ 1 \in DOMAIN q /\ Tail(q) \in Seq(T)
         /\ \A n \in DOMAIN Tail(q) : n + 1 \in DOMAIN q /\ Tail(q)[n] = q[n + 1]
         /\ \A n \in DOMAIN q : n = 1 \/ (n - 1 \in DOMAIN Tail(q) /\ Tail(q)[n - 1] = q[n])
         /\ Tail(q) # <<>> => Tail(q)[Len(Tail(q))] = q[Len(q)]
         /\ Tail(q) = <<>> => Len(q) = 1
<1>1. Len(q) \in Nat /\ Len(q) >= 1 /\ DOMAIN q = 1 .. Len(q)
  OBVIOUS
<1>2. Head(q) = q[1] /\ Tail(q) \in Seq(T) /\ Len(Tail(q)) = Len(q) - 1
  OBVIOUS
<1>3. DOMAIN Tail(q) = 1 .. Len(q) - 1
  BY <1>1, <1>2
<1>4. \A n \in 1 .. Len(q) - 1 : Tail(q)[n] = q[n + 1]
  BY <1>1
<1>5. ASSUME NEW n \in DOMAIN q, n # 1
      PROVE  n - 1 \in DOMAIN Tail(q) /\ Tail(q)[n - 1] = q[n]
  <2>1. n - 1 \in 1 .. Len(q) - 1 /\ (n - 1) + 1 = n
    BY <1>1, <1>5
  <2> QED  BY <1>3, <1>4, <2>1
<1>6. Tail(q) # <<>> => Tail(q)[Len(Tail(q))] = q[Len(q)]
  <2> SUFFICES ASSUME Tail(q) # <<>>  PROVE Tail(q)[Len(Tail(q))] = q[Len(q)]
    OBVIOUS
  <2>1. Len(q) - 1 # 0
    BY <1>2
  <2>2. Len(q) - 1 \in 1 .. Len(q) - 1 /\ (Len(q) - 1) + 1 = Len(q)
    BY <1>1, <2>1
  <2> QED  BY <1>2, <1>4, <2>2
<1>7. Tail(q) = <<>> => Len(q) = 1
  <2>1. Len(<<>>) = 0
    OBVIOUS
  <2>2. Tail(q) = <<>> => Len(Tail(q)) = 0
    BY <2>1
  <2> QED  BY <1>1, <1>2, <2>2
<1>8. q[1] \in T /\ 1 \in DOMAIN q
  BY <1>1
<1> QED  BY <1>1, <1>2, <1>3, <1>4, <1>5, <1>6, <1>7, <1>8

(* What the handler of i's letter k does: places a to i alone, and to all   *)
(* that i is at x, or has gone.                                             *)
Announces(i, k, a, x, esc) ==
  /\ Handle(i, k) /\ Broadcast(i, a, x, esc, cnt')
  /\ k \in Letters /\ a \in Seq(Packets) /\ x \in Int /\ esc \in BOOLEAN
  /\ \A n \in DOMAIN a : \E j \in clients : j < i /\ a[n] = Packet(j, client_pos[j], FALSE, cnt[i])
  /\ clients' = (IF esc THEN clients \ {i} ELSE clients)
  /\ client_pos' = [client_pos EXCEPT ![i] = x]
  /\ joined' = (IF k.type = "login" THEN joined \cup {i} ELSE joined)
  /\ cnt' = [cnt EXCEPT ![i] = @ \/ k.type = "connect"]
  /\ k.type = "login" => a = <<>>
  /\ k.type = "connect" => \A j \in clients : j < i => \E n \in DOMAIN a : a[n].id = j
  /\ esc => k.type = "escape"

LEMMA HandlersAnnounce ==
  ASSUME BoardTypes, NEW i \in SessionIds, Server(i)
  PROVE  \E k, a, x, esc : Announces(i, k, a, x, esc)
<1>0. /\ client_pos \in [SessionIds -> Int] /\ cnt \in [SessionIds -> BOOLEAN]
      /\ up[i] \in Seq(Letters) /\ client_pos[i] \in Int /\ cnt[i] \in BOOLEAN
  BY DEF BoardTypes
<1>1. client_pos = [client_pos EXCEPT ![i] = client_pos[i]]
  BY <1>0, Zenon
<1>2. cnt = [cnt EXCEPT ![i] = @ \/ FALSE]
  <2> DEFINE g == [cnt EXCEPT ![i] = @ \/ FALSE]
  <2>1. g \in [SessionIds -> BOOLEAN] /\ \A j \in SessionIds : g[j] = cnt[j]
    BY <1>0
  <2> HIDE DEF g
  <2> QED  BY <1>0, <2>1
<1>3. ASSUME NEW k, Handle(i, k)  PROVE k \in Letters
  BY <1>0, <1>3, Shorter DEF Handle
<1>4. <<>> \in Seq(Packets) /\ DOMAIN <<>> = {}
  OBVIOUS
<1>5. CASE HandleLogin(i)
  <2> DEFINE k == [type |-> "login", step |-> 0]
  <2>1. /\ Handle(i, k) /\ Broadcast(i, <<>>, client_pos[i], FALSE, cnt)
        /\ joined' = joined \cup {i} /\ clients' = clients /\ client_pos' = client_pos /\ cnt' = cnt
    BY <1>5 DEF HandleLogin
  <2>2. Broadcast(i, <<>>, client_pos[i], FALSE, cnt')
    BY <2>1
  <2>3. k \in Letters
    BY <1>3, <2>1
  <2>4. k.type = "login" /\ (k.type = "connect") = FALSE
    OBVIOUS
  <2> HIDE DEF k
  <2>5. Announces(i, k, <<>>, client_pos[i], FALSE)
    BY <1>0, <1>1, <1>2, <1>4, <2>1, <2>2, <2>3, <2>4 DEF Announces
  <2> QED  BY <2>5
<1>6. CASE HandleConnect(i)
  <2> DEFINE k == [type |-> "connect", step |-> 0]
  <2>1. /\ Handle(i, k) /\ Broadcast(i, Before(i), client_pos[i], FALSE, cnt')
        /\ cnt' = [cnt EXCEPT ![i] = TRUE]
        /\ joined' = joined /\ clients' = clients /\ client_pos' = client_pos
    BY <1>6 DEF HandleConnect
  <2>2. [cnt EXCEPT ![i] = TRUE] = [cnt EXCEPT ![i] = @ \/ TRUE]
    <3> DEFINE g == [cnt EXCEPT ![i] = @ \/ TRUE]
               h == [cnt EXCEPT ![i] = TRUE]
    <3>1. DOMAIN g = SessionIds /\ DOMAIN h = SessionIds /\ \A j \in SessionIds : g[j] = h[j]
      BY <1>0
    <3>2. g = [j \in SessionIds |-> g[j]] /\ h = [j \in SessionIds |-> h[j]]
      BY <1>0, Zenon
    <3> HIDE DEF g, h
    <3>3. g = h
      BY <3>1, <3>2
    <3> QED  BY <3>3 DEF g, h
  <2>3. k \in Letters
    BY <1>3, <2>1
  <2>4. k.type # "login" /\ (k.type = "connect") = TRUE
    OBVIOUS
  <2> HIDE DEF k
  <2>5. Announces(i, k, Before(i), client_pos[i], FALSE)
    BY <1>0, <1>1, <2>1, <2>2, <2>3, <2>4, BeforeIs DEF Announces
  <2> QED  BY <2>5
<1>7. CASE HandleMove(i)
  <2>1. PICK step \in {-1, 1} :
          /\ Handle(i, [type |-> "online", step |-> step])
          /\ client_pos' = [client_pos EXCEPT ![i] = IF @ + step \in Cells THEN @ + step ELSE @]
          /\ Broadcast(i, <<>>, client_pos'[i], FALSE, cnt)
          /\ clients' = clients /\ cnt' = cnt /\ joined' = joined
    BY <1>7 DEF HandleMove
  <2> DEFINE k == [type |-> "online", step |-> step]
             x == IF client_pos[i] + step \in Cells THEN client_pos[i] + step ELSE client_pos[i]
  <2>2. x \in Int /\ client_pos' = [client_pos EXCEPT ![i] = x]
    BY <1>0, <2>1
  <2>3. client_pos'[i] = x
    BY <1>0, <2>2
  <2>4. k \in Letters /\ k.type = "online"
    BY <1>3, <2>1
  <2> HIDE DEF k, x
  <2>5. Handle(i, k) /\ Broadcast(i, <<>>, x, FALSE, cnt')
    BY <2>1, <2>3 DEF k
  <2>6. k.type # "login" /\ (k.type = "connect") = FALSE
    BY <2>4
  <2>7. Announces(i, k, <<>>, x, FALSE)
    BY <1>0, <1>2, <1>4, <2>1, <2>2, <2>4, <2>5, <2>6 DEF Announces
  <2> QED  BY <2>7
<1>8. CASE HandleEscape(i)
  <2> DEFINE k == [type |-> "escape", step |-> 0]
  <2>1. /\ Handle(i, k) /\ Broadcast(i, <<>>, client_pos[i], TRUE, cnt)
        /\ joined' = joined /\ clients' = clients \ {i} /\ client_pos' = client_pos /\ cnt' = cnt
    BY <1>8 DEF HandleEscape
  <2>2. Broadcast(i, <<>>, client_pos[i], TRUE, cnt')
    BY <2>1
  <2>3. k \in Letters
    BY <1>3, <2>1
  <2>4. k.type = "escape" /\ k.type # "login" /\ (k.type = "connect") = FALSE
    OBVIOUS
  <2> HIDE DEF k
  <2>5. Announces(i, k, <<>>, client_pos[i], TRUE)
    BY <1>0, <1>1, <1>2, <1>4, <2>1, <2>2, <2>3, <2>4 DEF Announces
  <2> QED  BY <2>5
<1> QED  BY <1>5, <1>6, <1>7, <1>8 DEF Server

(* What the queue to client j becomes.                                      *)
Grown(j, a, p) == Lengthens(down'[j], down[j], a, p)

LEMMA AnnounceDown ==
  ASSUME BoardTypes, NEW i \in SessionIds, NEW k, NEW a, NEW x, NEW esc,
         Announces(i, k, a, x, esc), NEW j \in SessionIds
  PROVE  /\ j \in clients /\ pc[j] # "gone"
            => Grown(j, IF j = i THEN a ELSE <<>>, Packet(i, x, esc, cnt'[j]))
         /\ j \notin clients \/ pc[j] = "gone" => down'[j] = down[j]
         /\ Packet(i, x, esc, cnt'[j]) \in Packets
         /\ down'[j] \in Seq(Packets)
<1> DEFINE b == IF j = i THEN a ELSE <<>>
           p == Packet(i, x, esc, cnt'[j])
<1>1. b \in Seq(Packets)
  BY DEF Announces
<1>2. cnt'[j] \in BOOLEAN
  BY DEF Announces, BoardTypes
<1>3. p \in Packets
  BY <1>2 DEF Announces, Packet, Packets
<1>4. down'[j] = IF j \notin clients \/ pc[j] = "gone" THEN down[j] ELSE down[j] \o b \o <<p>>
  BY DEF Announces, Broadcast
<1>5. down[j] \in Seq(Packets)
  BY DEF BoardTypes
<1> HIDE DEF b, p
<1>6. j \in clients /\ pc[j] # "gone" => Grown(j, b, p)
  <2> SUFFICES ASSUME j \in clients, pc[j] # "gone"  PROVE Grown(j, b, p)
    OBVIOUS
  <2>1. down'[j] = down[j] \o b \o <<p>>
    BY <1>4
  <2> QED  BY <1>1, <1>3, <1>5, <2>1, Longer DEF Grown
<1>7. down'[j] \in Seq(Packets)
  BY <1>4, <1>5, <1>6 DEF Grown, Lengthens
<1> QED  BY <1>3, <1>4, <1>6, <1>7 DEF b, p

LEMMA AnnounceTypes ==
  ASSUME BoardTypes, NEW i \in SessionIds, NEW k, NEW a, NEW x, NEW esc,
         Announces(i, k, a, x, esc)
  PROVE  BoardTypes'
<1>1. /\ up' = [up EXCEPT ![i] = Tail(@)] /\ up[i] # <<>>
      /\ UNCHANGED <<hung, clientVars, recvVars, keys, missed>>
  BY DEF Announces, Handle
<1>2. up' \in [SessionIds -> Seq(Letters)]
  <2>1. up[i] \in Seq(Letters)
    BY DEF BoardTypes
  <2>2. Tail(up[i]) \in Seq(Letters)
    BY <1>1, <2>1, Shorter
  <2> QED  BY <1>1, <2>2 DEF BoardTypes
<1>3. down' \in [SessionIds -> Seq(Packets)]
  <2>1. \A j \in SessionIds : down'[j] \in Seq(Packets)
    BY AnnounceDown
  <2>2. down' = [j \in SessionIds |-> down'[j]]
    BY DEF Announces, Broadcast
  <2> QED  BY <2>1, <2>2
<1>4. client_pos' \in [SessionIds -> Int] /\ cnt' \in [SessionIds -> BOOLEAN]
  BY DEF Announces, BoardTypes
<1>5. /\ clients' \subseteq SessionIds /\ joined' \subseteq SessionIds /\ crossed' \subseteq SessionIds
  BY DEF Announces, Broadcast, BoardTypes
<1> QED  BY <1>1, <1>2, <1>3, <1>4, <1>5 DEF BoardTypes, clientVars, recvVars

(* What a handler leaves to the clients.                                    *)
LEMMA AnnounceFrame ==
  ASSUME BoardTypes, NEW i \in SessionIds, NEW k, NEW a, NEW x, NEW esc,
         Announces(i, k, a, x, esc)
  PROVE  /\ UNCHANGED <<hung, pc, kp_type, players, login, pp, apcs, keys, missed>>
         /\ i \in clients /\ up[i] # <<>> /\ k = up[i][1] /\ k \in Letters
         /\ up'[i] = Tail(up[i]) /\ \A j \in SessionIds \ {i} : up'[j] = up[j]
         /\ \A n \in DOMAIN up'[i] : n + 1 \in DOMAIN up[i] /\ up'[i][n] = up[i][n + 1]
         /\ 1 \in DOMAIN up[i]
         /\ \A j \in SessionIds \ {i} : cnt'[j] = cnt[j] /\ Truth(j)' = Truth(j)
                                        /\ (j \in joined' <=> j \in joined) /\ (j \in clients' <=> j \in clients)
         /\ cnt[i] => cnt'[i]
         /\ Truth(i)' = (IF esc THEN {} ELSE {x})
         /\ \A j \in SessionIds : Says(Packet(i, x, esc, cnt'[j])) = Truth(i)'
         /\ joined \subseteq joined' /\ clients' \subseteq clients
         /\ crossed' = crossed \cup {j \in clients \ {i} : j \notin joined}
<1>1. /\ i \in clients /\ up[i] # <<>> /\ k = Head(up[i]) /\ up' = [up EXCEPT ![i] = Tail(@)]
      /\ UNCHANGED <<hung, clientVars, recvVars, keys, missed>>
  BY DEF Announces, Handle
<1>2. up[i] \in Seq(Letters)
  BY DEF BoardTypes
<1>3. up'[i] = Tail(up[i]) /\ \A j \in SessionIds \ {i} : up'[j] = up[j]
  BY <1>1 DEF BoardTypes
<1>4. /\ k = up[i][1] /\ 1 \in DOMAIN up[i]
      /\ \A n \in DOMAIN up'[i] : n + 1 \in DOMAIN up[i] /\ up'[i][n] = up[i][n + 1]
  <2> DEFINE q == up[i]
  <2>1. q \in Seq(Letters) /\ q # <<>>
    BY <1>1, <1>2
  <2>2. /\ Head(q) = q[1] /\ 1 \in DOMAIN q
        /\ \A n \in DOMAIN Tail(q) : n + 1 \in DOMAIN q /\ Tail(q)[n] = q[n + 1]
    <3> HIDE DEF q
    <3> QED  BY <2>1, Shorter
  <2> QED  BY <1>1, <1>3, <2>2
<1>5. \A j \in SessionIds \ {i} : /\ cnt'[j] = cnt[j] /\ client_pos'[j] = client_pos[j]
                                  /\ (j \in joined' <=> j \in joined) /\ (j \in clients' <=> j \in clients)
  BY DEF Announces, BoardTypes
<1>6. \A j \in SessionIds \ {i} : Truth(j)' = Truth(j)
  BY <1>5 DEF Truth
<1>7. cnt[i] => cnt'[i]
  BY DEF Announces, BoardTypes
<1>8. Truth(i)' = IF esc THEN {} ELSE {x}
  BY <1>1 DEF Truth, Announces, BoardTypes
<1>9. \A j \in SessionIds : Says(Packet(i, x, esc, cnt'[j])) = Truth(i)'
  BY <1>8 DEF Says, Packet
<1>10. /\ joined \subseteq joined' /\ clients' \subseteq clients /\ k \in Letters
       /\ crossed' = crossed \cup {j \in clients \ {i} : j \notin joined}
  BY DEF Announces, Broadcast
<1> QED  BY <1>1, <1>3, <1>4, <1>5, <1>6, <1>7, <1>8, <1>9, <1>10 DEF clientVars, recvVars

LEMMA AnnounceTold ==
  ASSUME BoardIInv, NEW i \in SessionIds, NEW k, NEW a, NEW x, NEW esc,
         Announces(i, k, a, x, esc), NEW l \in SessionIds, NEW j \in SessionIds,
         pc[l] \in Playing
  PROVE  Told(l, j)'
<1> DEFINE b == IF l = i THEN a ELSE <<>>
           p == Packet(i, x, esc, cnt'[l])
<1>0. BoardTypes /\ Seated(l) /\ Told(l, j)
  BY DEF BoardIInv
<1>1. l \in clients /\ pc[l] # "gone" /\ pc[l] # "off"
  BY <1>0 DEF Seated, Playing
<1>2. Grown(l, b, p)
  BY <1>0, <1>1, AnnounceDown
<1>3. \A m \in DOMAIN b : \E o \in clients : o < i /\ b[m] = Packet(o, client_pos[o], FALSE, cnt[i])
  <2>1. DOMAIN <<>> = {}
    OBVIOUS
  <2> QED  BY <2>1 DEF Announces
<1>4. \A m \in DOMAIN b : b[m].id # i /\ (b[m].id = j => Says(b[m]) = Truth(j))
  <2> SUFFICES ASSUME NEW m \in DOMAIN b
               PROVE  b[m].id # i /\ (b[m].id = j => Says(b[m]) = Truth(j))
    OBVIOUS
  <2>1. PICK o \in clients : o < i /\ b[m] = Packet(o, client_pos[o], FALSE, cnt[i])
    BY <1>3
  <2>2. b[m].id = o /\ Says(b[m]) = {client_pos[o]}
    BY <2>1 DEF Packet, Says
  <2>3. o # i
    BY <2>1, <1>0 DEF BoardTypes, SessionIds
  <2> QED  BY <2>1, <2>2, <2>3 DEF Truth
<1>5. p.id = i /\ Says(p) = Truth(i)'
  <2>1. p.id = i
    BY DEF Packet
  <2>2. Says(p) = Truth(i)'
    BY <1>0, AnnounceFrame
  <2> QED  BY <2>1, <2>2
<1>6. /\ UNCHANGED <<pc, players, pp, apcs, missed>>
      /\ j # i => cnt'[j] = cnt[j] /\ Truth(j)' = Truth(j) /\ (j \in joined' <=> j \in joined)
      /\ l # i => cnt'[l] = cnt[l]
  BY <1>0, AnnounceFrame
<1>7. /\ \A n \in DOMAIN down[l] : n \in DOMAIN down'[l] /\ down'[l][n] = down[l][n] /\ n < Len(down'[l])
      /\ \A n \in DOMAIN down'[l] : \/ n \in DOMAIN down[l] /\ down'[l][n] = down[l][n]
                                    \/ \E m \in DOMAIN b : down'[l][n] = b[m]
                                    \/ n = Len(down'[l]) /\ down'[l][n] = p
      /\ \A m \in DOMAIN b : \E n \in DOMAIN down'[l] : down'[l][n] = b[m]
      /\ Len(down'[l]) \in DOMAIN down'[l] /\ down'[l][Len(down'[l])] = p
      /\ down'[l] \in Seq(Packets)
  BY <1>2 DEF Grown, Lengthens
<1> HIDE DEF b, p
<1>8. ASSUME NEW n \in DOMAIN down'[l], down'[l][n].id = j,
             \A m \in DOMAIN down'[l] : m > n => down'[l][m].id # j
      PROVE  Says(down'[l][n]) = Truth(j)'
  <2>1. CASE j = i
    <3>1. n = Len(down'[l])
      <4>1. ~(Len(down'[l]) > n)
        BY <1>5, <1>7, <1>8, <2>1
      <4>2. Len(down'[l]) \in Nat /\ n \in 1 .. Len(down'[l])
        BY <1>7
      <4> QED  BY <4>1, <4>2
    <3> QED  BY <1>5, <1>7, <2>1, <3>1
  <2>2. CASE j # i
    <3>1. CASE \E m \in DOMAIN b : down'[l][n] = b[m]
      BY <1>4, <1>6, <1>8, <2>2, <3>1
    <3>2. CASE n \in DOMAIN down[l] /\ down'[l][n] = down[l][n]
      <4>1. \A m \in DOMAIN down[l] : m > n => down[l][m].id # j
        BY <1>7, <1>8
      <4>2. Says(down[l][n]) = Truth(j)
        BY <1>0, <1>8, <3>2, <4>1 DEF Told
      <4> QED  BY <1>6, <2>2, <3>2, <4>2
    <3>3. CASE down'[l][n] = p
      BY <1>5, <1>8, <2>2, <3>3
    <3> QED  BY <1>7, <3>1, <3>2, <3>3
  <2> QED  BY <2>1, <2>2
<1>9. Quiet(l, j)' => Quiet(l, j) /\ j # i
  <2> SUFFICES ASSUME Quiet(l, j)'  PROVE Quiet(l, j) /\ j # i
    OBVIOUS
  <2>1. \A n \in DOMAIN down'[l] : down'[l][n].id # j
    BY DEF Quiet
  <2> QED  BY <1>5, <1>7, <2>1 DEF Quiet
<1>10. Unread(l, j)' = Unread(l, j)
  BY <1>6 DEF Unread
<1>11. Quiet(l, j)' /\ Unread(l, j)' => Says(pp[l])' = Truth(j)'
  <2> SUFFICES ASSUME Quiet(l, j)', Unread(l, j)'  PROVE Says(pp[l])' = Truth(j)'
    OBVIOUS
  <2>1. Says(pp[l]) = Truth(j)
    BY <1>0, <1>9, <1>10 DEF Told
  <2> QED  BY <1>6, <1>9, <2>1 DEF Says
<1>12. ASSUME Quiet(l, j)', ~Unread(l, j)', j \in joined' \ missed'[l]
       PROVE  \/ Places(players'[l], j) = Truth(j)'
              \/ j < l /\ ~cnt'[l] /\ Places(players'[l], j) = {}
  <2>1. j # i /\ Quiet(l, j) /\ ~Unread(l, j) /\ j \in joined \ missed[l] /\ Truth(j)' = Truth(j)
    BY <1>6, <1>9, <1>10, <1>12
  <2>2. CASE Places(players[l], j) = Truth(j)
    BY <1>6, <2>1, <2>2
  <2>3. CASE j < l /\ ~cnt[l] /\ Places(players[l], j) = {} /\ cnt'[l] = cnt[l]
    BY <1>6, <2>3
  <2>4. CASE j < l /\ ~cnt[l] /\ Places(players[l], j) = {} /\ cnt'[l] # cnt[l]
    <3>1. l = i /\ k.type = "connect"
      <4>1. l = i
        BY <1>6, <2>4
      <4>2. cnt' = [cnt EXCEPT ![i] = @ \/ k.type = "connect"] /\ cnt \in [SessionIds -> BOOLEAN]
        BY <1>0 DEF Announces, BoardTypes
      <4> QED  BY <2>4, <4>1, <4>2
    <3>2. j \notin clients
      <4> SUFFICES ASSUME j \in clients  PROVE FALSE
        OBVIOUS
      <4>1. PICK m \in DOMAIN b : b[m].id = j
        BY <2>4, <3>1 DEF Announces, b
      <4>2. \E n \in DOMAIN down'[l] : down'[l][n].id = j
        BY <1>7, <4>1
      <4> QED  BY <1>12, <4>2 DEF Quiet
    <3>3. Truth(j) = {}
      BY <3>2 DEF Truth
    <3> QED  BY <1>6, <2>1, <2>4, <3>3
  <2>5. \/ Places(players[l], j) = Truth(j)
        \/ j < l /\ ~cnt[l] /\ Places(players[l], j) = {}
    BY <1>0, <2>1 DEF Told
  <2> QED  BY <2>2, <2>3, <2>4, <2>5
<1> QED  BY <1>8, <1>11, <1>12 DEF Told, Says

(* What is in the queue to l after the step: what was, places of others, or *)
(* the place of i.                                                          *)
LEMMA AnnounceQueue ==
  ASSUME BoardTypes, NEW i \in SessionIds, NEW k, NEW a, NEW x, NEW esc,
         Announces(i, k, a, x, esc), NEW l \in SessionIds, NEW n \in DOMAIN down'[l]
  PROVE  \/ n \in DOMAIN down[l] /\ down'[l][n] = down[l][n]
         \/ /\ l = i /\ down'[l][n].id \in clients \ {i}
            /\ down'[l][n].last = cnt[i] /\ ~down'[l][n].esc
         \/ /\ down'[l][n].id = i /\ down'[l][n].last = cnt'[l] /\ down'[l][n].esc = esc
            /\ l \in clients
<1> DEFINE b == IF l = i THEN a ELSE <<>>
           p == Packet(i, x, esc, cnt'[l])
<1>1. CASE l \in clients /\ pc[l] # "gone"
  <2>1. Grown(l, b, p)
    BY <1>1, AnnounceDown
  <2>2. p.id = i /\ p.last = cnt'[l] /\ p.esc = esc
    BY DEF Packet
  <2>3. ASSUME NEW m \in DOMAIN b, down'[l][n] = b[m]
        PROVE  /\ l = i /\ down'[l][n].id \in clients \ {i}
               /\ down'[l][n].last = cnt[i] /\ ~down'[l][n].esc
    <3>1. DOMAIN <<>> = {}
      OBVIOUS
    <3>2. l = i
      BY <3>1
    <3>3. PICK o \in clients : o < i /\ b[m] = Packet(o, client_pos[o], FALSE, cnt[i])
      BY <3>2 DEF Announces
    <3>4. o # i
      BY <3>3 DEF BoardTypes, SessionIds
    <3>5. down'[l][n].id = o /\ down'[l][n].last = cnt[i] /\ down'[l][n].esc = FALSE
      BY <2>3, <3>3 DEF Packet
    <3> QED  BY <3>2, <3>4, <3>5
  <2> HIDE DEF b, p
  <2>4. \/ n \in DOMAIN down[l] /\ down'[l][n] = down[l][n]
        \/ \E m \in DOMAIN b : down'[l][n] = b[m]
        \/ down'[l][n] = p
    BY <2>1 DEF Grown, Lengthens
  <2> QED  BY <1>1, <2>2, <2>3, <2>4
<1>2. CASE ~(l \in clients /\ pc[l] # "gone")
  BY <1>2, AnnounceDown
<1> QED  BY <1>1, <1>2

LEMMA AnnounceSeated ==
  ASSUME BoardIInv, NEW i \in SessionIds, NEW k, NEW a, NEW x, NEW esc,
         Announces(i, k, a, x, esc), NEW l \in SessionIds
  PROVE  Seated(l)' /\ Reported(l)' /\ Distinct(players[l])'
<1>0. BoardTypes /\ Seated(l) /\ Reported(l) /\ Seated(i)
  BY DEF BoardIInv
<1>1. /\ UNCHANGED <<pc, players, login, pp, apcs>>
      /\ i \in clients /\ up[i] # <<>> /\ k = up[i][1] /\ 1 \in DOMAIN up[i]
      /\ up'[i] = Tail(up[i]) /\ \A j \in SessionIds \ {i} : up'[j] = up[j]
      /\ \A n \in DOMAIN up'[i] : n + 1 \in DOMAIN up[i] /\ up'[i][n] = up[i][n + 1]
      /\ \A j \in SessionIds \ {i} : /\ cnt'[j] = cnt[j] /\ (j \in joined' <=> j \in joined)
                                     /\ (j \in clients' <=> j \in clients)
      /\ cnt[i] => cnt'[i]
  BY <1>0, AnnounceFrame
<1>2. esc => k.type = "escape"
  BY DEF Announces
<1>3. pc[i] # "off"
  BY <1>0, <1>1 DEF Seated
<1>4. ASSUME pc[l] = "off"
      PROVE  /\ l \notin clients' /\ l \notin login' /\ l \notin joined' /\ ~cnt'[l]
             /\ down'[l] = <<>> /\ apcs'[l] = 0
             /\ \A j \in SessionIds : Quiet(j, l)' /\ ~Unread(j, l)' /\ ~Has(players'[j], l)
             /\ \A j \in SessionIds : l < j => pc'[j] = "off"
  <2>1. l # i
    BY <1>3, <1>4
  <2>2. /\ l \notin clients /\ l \notin login /\ l \notin joined /\ ~cnt[l]
        /\ down[l] = <<>> /\ apcs[l] = 0
        /\ \A j \in SessionIds : Quiet(j, l) /\ ~Unread(j, l) /\ ~Has(players[j], l)
        /\ \A j \in SessionIds : l < j => pc[j] = "off"
    BY <1>0, <1>4 DEF Seated
  <2>3. down'[l] = down[l]
    BY <1>0, <2>2, AnnounceDown
  <2>4. ASSUME NEW j \in SessionIds, NEW n \in DOMAIN down'[j]  PROVE down'[j][n].id # l
    BY <1>0, <2>1, <2>2, AnnounceQueue DEF Quiet
  <2>5. \A j \in SessionIds : Quiet(j, l)' /\ ~Unread(j, l)'
    BY <1>1, <2>2, <2>4 DEF Quiet, Unread
  <2> QED  BY <1>1, <2>1, <2>2, <2>3, <2>5
<1>5. ASSUME pc[l] \in Playing
      PROVE  l \in clients' /\ \A n \in DOMAIN up'[l] : up'[l][n].type # "escape"
  <2>1. l \in clients /\ \A n \in DOMAIN up[l] : up[l][n].type # "escape"
    BY <1>0, <1>5 DEF Seated
  <2>2. l \in clients'
    <3>1. CASE l # i
      BY <1>1, <2>1, <3>1
    <3>2. CASE l = i
      <4>1. ~esc
        BY <1>1, <1>2, <2>1, <3>2
      <4> QED  BY <2>1, <4>1 DEF Announces
    <3> QED  BY <3>1, <3>2
  <2>3. \A n \in DOMAIN up'[l] : up'[l][n].type # "escape"
    <3>1. CASE l # i
      BY <1>1, <2>1, <3>1
    <3>2. CASE l = i
      <4> SUFFICES ASSUME NEW n \in DOMAIN up'[i]  PROVE up'[i][n].type # "escape"
        BY <3>2
      <4>1. n + 1 \in DOMAIN up[i] /\ up'[i][n] = up[i][n + 1]
        BY <1>1
      <4> QED  BY <2>1, <3>2, <4>1
    <3> QED  BY <3>1, <3>2
  <2> QED  BY <2>2, <2>3
<1>6. Seated(l)'
  <2>1. l \notin login => pc[l] \in {"off", "login"} /\ players[l] = <<>>
    BY <1>0 DEF Seated
  <2> QED  BY <1>1, <1>4, <1>5, <2>1 DEF Seated
<1>7. Reported(l)'
  <2>1. /\ pc[l] = "online" => cnt[l]
        /\ pp[l].last => cnt[l]
        /\ \A n \in DOMAIN down[l] : down[l][n].last => cnt[l]
    BY <1>0 DEF Reported
  <2>2. cnt[l] => cnt'[l]
    BY <1>1
  <2>3. \A n \in DOMAIN down'[l] : down'[l][n].last => cnt'[l]
    BY <1>0, <2>1, <2>2, AnnounceQueue
  <2> QED  BY <1>1, <2>1, <2>2, <2>3 DEF Reported
<1>8. Distinct(players[l])'
  BY <1>1 DEF BoardIInv, Distinct
<1> QED  BY <1>6, <1>7, <1>8

LEMMA AnnounceAnswered ==
  ASSUME BoardIInv, NEW i \in SessionIds, NEW k, NEW a, NEW x, NEW esc,
         Announces(i, k, a, x, esc), NEW l \in SessionIds
  PROVE  Answered(l)'
<1> DEFINE b == IF l = i THEN a ELSE <<>>
           p == Packet(i, x, esc, cnt'[l])
<1>0. BoardTypes /\ Seated(l) /\ Answered(l)
  BY DEF BoardIInv
<1>1. /\ UNCHANGED <<pc, login, pp, apcs>>
      /\ up[i] # <<>> /\ k = up[i][1] /\ up'[i] = Tail(up[i])
      /\ \A j \in SessionIds \ {i} : up'[j] = up[j] /\ cnt'[j] = cnt[j]
      /\ cnt[i] => cnt'[i]
  BY <1>0, AnnounceFrame
<1>2. k.type = "connect" => cnt'[i]
  BY <1>0 DEF Announces, BoardTypes
<1>3. ASSUME pc[l] \in Playing
      PROVE  /\ down'[l] # <<>> /\ LastPacket(l)' = p /\ p.last = cnt'[l]
  <2>1. l \in clients /\ pc[l] # "gone"
    BY <1>0, <1>3 DEF Seated, Playing
  <2>2. Grown(l, b, p)
    BY <1>0, <2>1, AnnounceDown
  <2>3. p.last = cnt'[l]
    BY DEF Packet
  <2> HIDE DEF b, p
  <2> QED  BY <2>2, <2>3 DEF Grown, Lengthens, LastPacket
<1> HIDE DEF p
<1>4. CASE pc[l] = "login"
  <2>1. \/ up[l] = <<Letter("login", 0)>>
        \/ up[l] = <<>> /\ (l \in login \/ apcs[l] > 0 \/ down[l] # <<>>)
    BY <1>0, <1>4 DEF Answered
  <2>2. up'[l] = <<Letter("login", 0)>> \/ up'[l] = <<>>
    <3>1. l # i => up'[l] = up[l]
      BY <1>1
    <3>2. Tail(<<Letter("login", 0)>>) = <<>>
      OBVIOUS
    <3> QED  BY <1>1, <2>1, <3>1, <3>2
  <2>3. down'[l] # <<>>
    BY <1>3, <1>4 DEF Playing
  <2> QED  BY <1>1, <1>4, <2>2, <2>3 DEF Answered
<1>5. CASE pc[l] = "connect"
  <2>0. LastPacket(l)' = p /\ p.last = cnt'[l]
    BY <1>3, <1>5 DEF Playing
  <2>1. CASE up[l] = <<Letter("login", 0), Letter("connect", 0)>> /\ l = i
    <3>1. up'[l] = <<Letter("connect", 0)>>
      <4>1. Tail(<<Letter("login", 0), Letter("connect", 0)>>) = <<Letter("connect", 0)>>
        OBVIOUS
      <4> QED  BY <1>1, <2>1, <4>1
    <3> QED  BY <1>1, <1>5, <3>1 DEF Answered
  <2>2. CASE up[l] = <<Letter("connect", 0)>> /\ l = i
    <3>1. up'[l] = <<>> /\ k = Letter("connect", 0)
      <4> DEFINE c == Letter("connect", 0)
      <4>1. up[i] = <<c>>
        BY <2>2
      <4> HIDE DEF c
      <4>2. Tail(<<c>>) = <<>> /\ <<c>>[1] = c
        OBVIOUS
      <4>3. up'[i] = <<>> /\ k = c
        BY <1>1, <4>1, <4>2
      <4> QED  BY <2>2, <4>3 DEF c
    <3>2. cnt'[l]
      BY <1>2, <2>2, <3>1 DEF Letter
    <3> QED  BY <1>1, <1>5, <2>0, <3>1, <3>2 DEF Answered
  <2>3. CASE l # i
    <3>1. \/ up[l] = <<Letter("login", 0), Letter("connect", 0)>>
          \/ up[l] = <<Letter("connect", 0)>>
          \/ up[l] = <<>> /\ cnt[l]
      BY <1>0, <1>5 DEF Answered
    <3>2. up'[l] = up[l] /\ cnt'[l] = cnt[l]
      BY <1>1, <2>3
    <3> QED  BY <1>1, <1>5, <2>0, <3>1, <3>2 DEF Answered
  <2> QED  BY <1>0, <1>1, <1>5, <2>1, <2>2, <2>3 DEF Answered
<1>6. CASE pc[l] \notin {"login", "connect"}
  BY <1>1, <1>6 DEF Answered
<1> QED  BY <1>4, <1>5, <1>6

LEMMA AnnounceOwn ==
  ASSUME BoardIInv, NEW i \in SessionIds, NEW k, NEW a, NEW x, NEW esc,
         Announces(i, k, a, x, esc), NEW l \in SessionIds
  PROVE  OwnFirst(l)'
<1>0. BoardTypes /\ Seated(l) /\ Answered(l) /\ OwnFirst(l)
  BY DEF BoardIInv
<1>1. /\ UNCHANGED <<pc, players, login, pp, apcs>>
      /\ i \in clients /\ up[i] # <<>> /\ k = up[i][1] /\ 1 \in DOMAIN up[i]
      /\ \A j \in SessionIds \ {i} : j \in joined' <=> j \in joined
      /\ joined \subseteq joined'
      /\ crossed' = crossed \cup {j \in clients \ {i} : j \notin joined}
  BY <1>0, AnnounceFrame
<1>2. esc => k.type = "escape"
  BY DEF Announces
<1>3. ASSUME pc[l] \in Playing
      PROVE  /\ \A n \in DOMAIN down'[l] : down'[l][n].id = l => ~down'[l][n].esc
             /\ Unread(l, l)' => ~pp'[l].esc
  <2>1. /\ \A n \in DOMAIN down[l] : down[l][n].id = l => ~down[l][n].esc
        /\ Unread(l, l) => ~pp[l].esc
    BY <1>0, <1>3 DEF OwnFirst
  <2>2. l = i => ~esc
    BY <1>0, <1>1, <1>2, <1>3 DEF Seated
  <2>3. \A n \in DOMAIN down'[l] : down'[l][n].id = l => ~down'[l][n].esc
    BY <1>0, <2>1, <2>2, AnnounceQueue
  <2> QED  BY <1>1, <2>1, <2>3 DEF Unread
<1>4. ASSUME l \notin crossed'
      PROVE  /\ l \notin joined' => down'[l] = <<>> /\ apcs'[l] = 0 /\ l \notin login'
             /\ l \in joined' /\ l \notin login' =>
                  \/ apcs'[l] = 0 /\ down'[l] # <<>> /\ down'[l][1].id = l
                  \/ apcs'[l] = 1 /\ pp'[l].id = l
             /\ l \in login' /\ pc'[l] \in Playing => players'[l] # <<>> /\ players'[l][1].id = l
  <2>1. l \notin crossed /\ (l = i \/ l \notin clients \/ l \in joined)
    BY <1>1, <1>4
  <2>2. /\ l \notin joined => down[l] = <<>> /\ apcs[l] = 0 /\ l \notin login
        /\ l \in joined /\ l \notin login =>
             \/ apcs[l] = 0 /\ down[l] # <<>> /\ down[l][1].id = l
             \/ apcs[l] = 1 /\ pp[l].id = l
        /\ l \in login /\ pc[l] \in Playing => players[l] # <<>> /\ players[l][1].id = l
    BY <1>0, <2>1 DEF OwnFirst
  <2>3. CASE l = i /\ l \notin joined
    <3>1. pc[l] = "login"
      BY <1>0, <1>1, <2>2, <2>3 DEF Seated
    <3>2. k = Letter("login", 0)
      BY <1>0, <1>1, <2>3, <3>1 DEF Answered
    <3>3. l \in joined' /\ a = <<>>
      BY <2>3, <3>2 DEF Announces, Letter
    <3>4. Grown(l, <<>>, Packet(i, x, esc, cnt'[l]))
      BY <1>0, <1>1, <2>3, <3>1, <3>3, AnnounceDown
    <3>5. down'[l] # <<>> /\ down'[l][1] = Packet(i, x, esc, cnt'[l])
      BY <2>2, <2>3, <3>4 DEF Grown, Lengthens
    <3>6. down'[l][1].id = l
      BY <2>3, <3>5 DEF Packet
    <3> QED  BY <1>1, <2>2, <2>3, <3>3, <3>5, <3>6
  <2>4. CASE l \notin joined /\ l # i
    <3>1. l \notin clients
      BY <2>1, <2>4
    <3>2. down'[l] = down[l] /\ l \notin joined'
      BY <1>0, <1>1, <2>4, <3>1, AnnounceDown
    <3> QED  BY <1>1, <2>2, <2>4, <3>2
  <2>5. CASE l \in joined
    <3>1. down[l] # <<>> => down'[l] # <<>> /\ down'[l][1] = down[l][1]
      <4> SUFFICES ASSUME down[l] # <<>>  PROVE down'[l] # <<>> /\ down'[l][1] = down[l][1]
        OBVIOUS
      <4>1. CASE l \in clients /\ pc[l] # "gone"
        <5> DEFINE b == IF l = i THEN a ELSE <<>>
                   p == Packet(i, x, esc, cnt'[l])
        <5>1. Grown(l, b, p)
          BY <1>0, <4>1, AnnounceDown
        <5>2. down[l] \in Seq(Packets)
          BY <1>0 DEF BoardTypes
        <5>3. 1 \in DOMAIN down[l]
          BY <5>2
        <5> HIDE DEF b, p
        <5> QED  BY <5>1, <5>3 DEF Grown, Lengthens
      <4>2. CASE l \notin clients \/ pc[l] = "gone"
        BY <1>0, <4>2, AnnounceDown
      <4> QED  BY <4>1, <4>2
    <3> QED  BY <1>1, <2>2, <2>5, <3>1
  <2> QED  BY <2>3, <2>4, <2>5
<1> QED  BY <1>1, <1>3, <1>4 DEF OwnFirst

(* A handler of the server keeps all of it.                                 *)
LEMMA ServerKeeps ==
  ASSUME BoardIInv, NEW i \in SessionIds, Server(i)
  PROVE  BoardIInv'
<1>1. BoardTypes
  BY DEF BoardIInv
<1>2. PICK k, a, x, esc : Announces(i, k, a, x, esc)
  BY <1>1, HandlersAnnounce
<1>3. \A l \in SessionIds : Seated(l)' /\ Reported(l)' /\ Distinct(players[l])' /\ Answered(l)' /\ OwnFirst(l)'
  BY <1>2, AnnounceSeated, AnnounceAnswered, AnnounceOwn
<1>4. ASSUME NEW l \in SessionIds, NEW j \in SessionIds  PROVE Told(l, j)'
  <2>1. CASE pc[l] \in Playing
    BY <1>2, <2>1, AnnounceTold
  <2>2. CASE pc[l] \notin Playing
    <3>1. pc' = pc
      BY <1>1, <1>2, AnnounceFrame
    <3> QED  BY <2>2, <3>1 DEF Told
  <2> QED  BY <2>1, <2>2
<1>5. BoardTypes'
  BY <1>1, <1>2, AnnounceTypes
<1> QED  BY <1>3, <1>4, <1>5 DEF BoardIInv

LEMMA AppendIs ==
  ASSUME NEW S, NEW p \in Seq(S), NEW q \in Seq(S), NEW c \in S,
         Len(q) = Len(p) + 1, \A n \in 1 .. Len(p) : p[n] = q[n], q[Len(q)] = c
  PROVE  Append(p, c) = q
<1>1. Append(p, c) \in Seq(S) /\ Len(Append(p, c)) = Len(p) + 1
  OBVIOUS
<1>2. \A n \in 1 .. Len(q) : Append(p, c)[n] = q[n]
  OBVIOUS
<1> QED  BY <1>1, <1>2

LEMMA TwoLetters ==
  ASSUME NEW S, NEW b \in S, NEW c \in S
  PROVE  Append(<<b>>, c) = <<b, c>>
<1> DEFINE p == <<b>>
           q == <<b, c>>
<1>1. <<b>> \in Seq(S) /\ <<b, c>> \in Seq(S) /\ Len(<<b>>) = 1 /\ Len(<<b, c>>) = 2
  OBVIOUS
<1>2. <<b>>[1] = b /\ <<b, c>>[1] = b /\ <<b, c>>[2] = c
  OBVIOUS
<1>3. p \in Seq(S) /\ q \in Seq(S) /\ Len(p) = 1 /\ Len(q) = 2 /\ p[1] = q[1] /\ q[2] = c
  BY <1>1, <1>2
<1> HIDE DEF p, q
<1>4. \A n \in 1 .. Len(p) : p[n] = q[n]
  BY <1>3
<1>5. Append(p, c) = q
  BY <1>3, <1>4, AppendIs
<1> QED  BY <1>5 DEF p, q

(* A step of a client that only sends, and may go on in main.               *)
LEMMA TalkKeeps ==
  ASSUME BoardIInv, NEW i \in SessionIds,
         UNCHANGED <<serverVars, players, login, recvVars, down, crossed, missed>>,
         keys' \in Nat, kp_type' \in [SessionIds -> {"login", "connect", "online"}],
         pc[i] \in Playing, i \in login,
         pc'[i] \in {"connect", "online", "leaving"},
         pc' = [pc EXCEPT ![i] = pc'[i]],
         up'[i] \in Seq(Letters), up' = [up EXCEPT ![i] = up'[i]],
         pc'[i] \in Playing => \A n \in DOMAIN up'[i] : up'[i][n].type # "escape",
         pc'[i] = "online" => cnt[i],
         Answered(i)'
  PROVE  BoardIInv'
<1>1. BoardTypes /\ \A l \in SessionIds : Seated(l) /\ Reported(l) /\ Answered(l) /\ OwnFirst(l) /\ Distinct(players[l])
  BY DEF BoardIInv
<1>2. /\ UNCHANGED <<clients, client_pos, cnt, hung, joined, pp, apcs, players, login, down, crossed, missed>>
      /\ pc \in [SessionIds -> Playing \cup {"off", "leaving", "gone"}] /\ up \in [SessionIds -> Seq(Letters)]
  BY <1>1 DEF serverVars, recvVars, BoardTypes
<1>3. \A l \in SessionIds \ {i} : pc'[l] = pc[l] /\ up'[l] = up[l]
  BY <1>2, Zenon
<1>4. BoardTypes'
  <2>1. pc'[i] \in Playing \cup {"off", "leaving", "gone"}
    BY DEF Playing
  <2>2. [pc EXCEPT ![i] = pc'[i]] \in [SessionIds -> Playing \cup {"off", "leaving", "gone"}]
    BY <1>2, <2>1, Zenon
  <2>3. [up EXCEPT ![i] = up'[i]] \in [SessionIds -> Seq(Letters)]
    BY <1>2, Zenon
  <2> QED  BY <1>1, <1>2, <2>2, <2>3 DEF BoardTypes
<1>5. pc'[i] # "off" /\ pc[i] # "off"
  BY DEF Playing
<1>6. ASSUME NEW l \in SessionIds
      PROVE  Seated(l)' /\ Reported(l)' /\ Answered(l)' /\ OwnFirst(l)' /\ Distinct(players[l])'
  <2>1. Seated(l)'
    <3>1. \A m \in SessionIds : Quiet(m, l)' = Quiet(m, l) /\ Unread(m, l)' = Unread(m, l)
      BY <1>2 DEF Quiet, Unread
    <3>2. CASE l = i
      <4>1. i \in clients
        BY <1>1 DEF Seated
      <4> QED  BY <1>2, <1>5, <3>2, <4>1 DEF Seated
    <3>3. CASE l # i
      <4>1. /\ pc[l] = "off" => \A m \in SessionIds : l < m => pc'[m] = "off"
        BY <1>1, <1>3, <1>5 DEF Seated
      <4> QED  BY <1>1, <1>2, <1>3, <3>1, <3>3, <4>1 DEF Seated
    <3> QED  BY <3>2, <3>3
  <2>2. Reported(l)'
    BY <1>1, <1>2, <1>3 DEF Reported
  <2>3. Answered(l)'
    BY <1>1, <1>2, <1>3 DEF Answered, LastPacket
  <2>4. OwnFirst(l)'
    <3>1. pc'[l] \in Playing => pc[l] \in Playing
      BY <1>3
    <3>2. Unread(l, l)' = Unread(l, l)
      BY <1>2 DEF Unread
    <3> QED  BY <1>1, <1>2, <3>1, <3>2 DEF OwnFirst
  <2>5. Distinct(players[l])'
    BY <1>1, <1>2 DEF Distinct
  <2> QED  BY <2>1, <2>2, <2>3, <2>4, <2>5
<1>7. ASSUME NEW l \in SessionIds, NEW j \in SessionIds  PROVE Told(l, j)'
  <2>1. pc'[l] \in Playing => pc[l] \in Playing
    BY <1>3
  <2>2. Told(l, j)
    BY DEF BoardIInv
  <2>3. /\ Truth(j)' = Truth(j) /\ Quiet(l, j)' = Quiet(l, j) /\ Unread(l, j)' = Unread(l, j)
    BY <1>2 DEF Truth, Quiet, Unread
  <2> QED  BY <1>2, <2>1, <2>2, <2>3 DEF Told
<1> QED  BY <1>4, <1>6, <1>7 DEF BoardIInv

LEMMA SendKeeps ==
  ASSUME BoardIInv, NEW i \in SessionIds, SendConnect(i) \/ Online(i) \/ Press(i) \/ Escape(i)
  PROVE  BoardIInv'
<1>1. BoardTypes /\ Seated(i) /\ Reported(i) /\ Answered(i)
  BY DEF BoardIInv
<1>2. /\ pc \in [SessionIds -> Playing \cup {"off", "leaving", "gone"}] /\ up \in [SessionIds -> Seq(Letters)]
      /\ kp_type \in [SessionIds -> {"login", "connect", "online"}] /\ keys \in Nat /\ up[i] \in Seq(Letters)
  BY <1>1 DEF BoardTypes
<1>3. pc[i] \in Playing /\ i \in login
  BY <1>1 DEF SendConnect, Online, Press, Escape, Seated, Playing
<1>4. \A n \in DOMAIN up[i] : up[i][n].type # "escape"
  BY <1>1, <1>3 DEF Seated
<1>5. ASSUME NEW type \in {"connect", "online", "escape"}, NEW step \in {-1, 0, 1}, Send(i, type, step)
      PROVE  /\ kp_type' \in [SessionIds -> {"login", "connect", "online"}]
             /\ up'[i] = Append(up[i], Letter(type, step)) /\ up'[i] \in Seq(Letters)
             /\ up' = [up EXCEPT ![i] = up'[i]]
             /\ type # "escape" => \A n \in DOMAIN up'[i] : up'[i][n].type # "escape"
  <2> DEFINE c == Letter(type, step)
  <2>1. up' = [up EXCEPT ![i] = Append(@, c)]
    BY <1>5 DEF Send, Letter
  <2>2. up'[i] = Append(up[i], c)
    BY <1>2, <2>1
  <2>3. c \in Letters /\ c.type = type
    BY DEF Letter, Letters
  <2>4. kp_type' \in [SessionIds -> {"login", "connect", "online"}]
    BY <1>2, <1>5 DEF Send
  <2>5. up' = [up EXCEPT ![i] = up'[i]]
    BY <2>1, <2>2, Zenon
  <2> HIDE DEF c
  <2>6. up'[i] \in Seq(Letters)
    BY <1>2, <2>2, <2>3
  <2>7. type # "escape" => \A n \in DOMAIN up'[i] : up'[i][n].type # "escape"
    BY <1>2, <1>4, <2>2, <2>3
  <2> QED  BY <2>2, <2>4, <2>5, <2>6, <2>7 DEF c
<1>6. CASE SendConnect(i)
  <2>1. Send(i, "connect", 0) /\ pc' = [pc EXCEPT ![i] = "connect"] /\ pc[i] = "login"
    BY <1>6 DEF SendConnect
  <2>2. /\ kp_type' \in [SessionIds -> {"login", "connect", "online"}]
        /\ up'[i] = Append(up[i], Letter("connect", 0)) /\ up'[i] \in Seq(Letters)
        /\ up' = [up EXCEPT ![i] = up'[i]]
        /\ \A n \in DOMAIN up'[i] : up'[i][n].type # "escape"
    BY <1>5, <2>1
  <2>3. pc'[i] = "connect" /\ pc' = [pc EXCEPT ![i] = pc'[i]]
    BY <1>2, <2>1
  <2>4. Answered(i)'
    <3>1. up[i] = <<Letter("login", 0)>> \/ up[i] = <<>>
      BY <1>1, <2>1 DEF Answered
    <3> DEFINE b == Letter("login", 0)
               c == Letter("connect", 0)
    <3>2. up'[i] = <<b, c>> \/ up'[i] = <<c>>
      <4>1. up'[i] = Append(up[i], c) /\ (up[i] = <<b>> \/ up[i] = <<>>)
        BY <2>2, <3>1
      <4> HIDE DEF b, c
      <4>2. Append(<<b>>, c) = <<b, c>>
        <5>1. b \in {b, c} /\ c \in {b, c}
          OBVIOUS
        <5> QED  BY <5>1, TwoLetters
      <4>3. Append(<<>>, c) = <<c>>
        OBVIOUS
      <4> QED  BY <4>1, <4>2, <4>3
    <3> QED  BY <2>3, <3>2 DEF Answered
  <2>5. UNCHANGED <<serverVars, players, login, recvVars, down, crossed, missed>> /\ keys' \in Nat
    BY <1>2, <1>6 DEF SendConnect
  <2> QED  BY <1>3, <2>2, <2>3, <2>4, <2>5, TalkKeeps
<1>7. CASE Online(i)
  <2>1. /\ pc' = [pc EXCEPT ![i] = "online"] /\ pp[i].last /\ up' = up /\ kp_type' = kp_type
        /\ UNCHANGED <<serverVars, players, login, recvVars, down, crossed, missed>> /\ keys' \in Nat
    BY <1>2, <1>7 DEF Online
  <2>2. pc'[i] = "online" /\ pc' = [pc EXCEPT ![i] = pc'[i]]
    BY <1>2, <2>1
  <2>3. cnt[i]
    BY <1>1, <2>1 DEF Reported
  <2>4. Answered(i)'
    BY <2>2 DEF Answered
  <2>5. up'[i] \in Seq(Letters) /\ up' = [up EXCEPT ![i] = up'[i]]
    BY <1>2, <2>1, Zenon
  <2> QED  BY <1>2, <1>3, <1>4, <2>1, <2>2, <2>3, <2>4, <2>5, TalkKeeps
<1>8. CASE Press(i)
  <2>1. PICK step \in {-1, 1} : Send(i, "online", step)
    BY <1>8 DEF Press
  <2>2. /\ pc' = pc /\ pc[i] = "online" /\ keys' \in Nat
        /\ UNCHANGED <<serverVars, players, login, recvVars, down, crossed, missed>>
    BY <1>2, <1>8 DEF Press
  <2>3. /\ kp_type' \in [SessionIds -> {"login", "connect", "online"}] /\ up'[i] \in Seq(Letters)
        /\ up' = [up EXCEPT ![i] = up'[i]]
        /\ \A n \in DOMAIN up'[i] : up'[i][n].type # "escape"
    BY <1>5, <2>1
  <2>4. pc'[i] = "online" /\ pc' = [pc EXCEPT ![i] = pc'[i]]
    BY <1>2, <2>2, Zenon
  <2>5. cnt[i]
    BY <1>1, <2>2 DEF Reported
  <2>6. Answered(i)'
    BY <2>4 DEF Answered
  <2> QED  BY <1>3, <2>2, <2>3, <2>4, <2>5, <2>6, TalkKeeps
<1>9. CASE Escape(i)
  <2>1. /\ Send(i, "escape", 0) /\ pc' = [pc EXCEPT ![i] = "leaving"] /\ keys' \in Nat
        /\ UNCHANGED <<serverVars, players, login, recvVars, down, crossed, missed>>
    BY <1>2, <1>9 DEF Escape
  <2>2. /\ kp_type' \in [SessionIds -> {"login", "connect", "online"}] /\ up'[i] \in Seq(Letters)
        /\ up' = [up EXCEPT ![i] = up'[i]]
    BY <1>5, <2>1
  <2>3. pc'[i] = "leaving" /\ pc' = [pc EXCEPT ![i] = pc'[i]]
    BY <1>2, <2>1
  <2>4. Answered(i)'
    BY <2>3 DEF Answered
  <2> QED  BY <1>3, <2>1, <2>2, <2>3, <2>4, TalkKeeps DEF Playing
<1> QED  BY <1>6, <1>7, <1>8, <1>9

LEMMA AcceptKeeps ==
  ASSUME BoardIInv, NEW i \in SessionIds, Accept(i)
  PROVE  BoardIInv'
<1>1. BoardTypes /\ \A l \in SessionIds : Seated(l) /\ Reported(l) /\ Answered(l) /\ OwnFirst(l) /\ Distinct(players[l])
  BY DEF BoardIInv
<1>2. /\ UNCHANGED <<client_pos, cnt, hung, joined, pp, apcs, kp_type, players, login, down, keys, crossed, missed>>
      /\ clients' = clients \cup {i} /\ pc[i] = "off" /\ \A m \in 0 .. i - 1 : pc[m] # "off"
  BY DEF Accept, recvVars
<1>3. pc' = [pc EXCEPT ![i] = "login"] /\ pc \in [SessionIds -> Playing \cup {"off", "leaving", "gone"}]
  BY <1>1 DEF Accept, BoardTypes
<1>4. /\ pc'[i] = "login" /\ \A l \in SessionIds \ {i} : pc'[l] = pc[l]
      /\ pc' \in [SessionIds -> Playing \cup {"off", "leaving", "gone"}]
  <2>1. "login" \in Playing
    BY DEF Playing
  <2> QED  BY <1>3, <2>1
<1> DEFINE c == Letter("login", 0)
<1>5. up' = [up EXCEPT ![i] = <<c>>] /\ up \in [SessionIds -> Seq(Letters)]
  BY <1>1 DEF Accept, BoardTypes, Letter
<1>6. c \in Letters /\ c.type # "escape"
  BY DEF Letter, Letters
<1>7. up'[i] = <<Letter("login", 0)>> /\ \A l \in SessionIds \ {i} : up'[l] = up[l]
  BY <1>5
<1> HIDE DEF c
<1>8. up' \in [SessionIds -> Seq(Letters)] /\ \A n \in DOMAIN up'[i] : up'[i][n].type # "escape"
  BY <1>5, <1>6
<1>9. BoardTypes'
  BY <1>1, <1>2, <1>4, <1>8 DEF BoardTypes
<1>10. /\ i \notin clients /\ i \notin login /\ i \notin joined /\ ~cnt[i] /\ down[i] = <<>> /\ apcs[i] = 0
       /\ \A k \in SessionIds : Quiet(k, i) /\ ~Unread(k, i) /\ ~Has(players[k], i)
       /\ \A k \in SessionIds : i < k => pc[k] = "off"
       /\ players[i] = <<>>
  BY <1>1, <1>2 DEF Seated
<1>11. DOMAIN down[i] = {} /\ DOMAIN players[i] = {}
  BY <1>10
<1>12. ASSUME NEW l \in SessionIds
       PROVE  Seated(l)' /\ Reported(l)' /\ Answered(l)' /\ OwnFirst(l)' /\ Distinct(players[l])'
  <2>1. Seated(l)'
    <3>1. \A m \in SessionIds : Quiet(m, l)' = Quiet(m, l) /\ Unread(m, l)' = Unread(m, l)
      BY <1>2 DEF Quiet, Unread
    <3>2. CASE l = i
      BY <1>2, <1>4, <1>8, <1>10, <3>2 DEF Seated
    <3>3. CASE l # i
      <4>1. pc[l] = "off" => i < l
        BY <1>2, <3>3 DEF SessionIds
      <4>2. pc[l] = "off" => \A m \in SessionIds : l < m => pc'[m] = "off"
        <5> SUFFICES ASSUME pc[l] = "off", NEW m \in SessionIds, l < m  PROVE pc'[m] = "off"
          OBVIOUS
        <5>1. pc[m] = "off"
          BY <1>1 DEF Seated
        <5>2. m # i
          BY <4>1 DEF SessionIds
        <5> QED  BY <1>4, <5>1, <5>2
      <4> QED  BY <1>1, <1>2, <1>4, <1>7, <3>1, <3>3, <4>2 DEF Seated
    <3> QED  BY <3>2, <3>3
  <2>2. Reported(l)'
    BY <1>1, <1>2, <1>4 DEF Reported
  <2>3. Answered(l)'
    BY <1>1, <1>2, <1>4, <1>7 DEF Answered, LastPacket
  <2>4. OwnFirst(l)'
    <3>1. Unread(l, l)' = Unread(l, l)
      BY <1>2 DEF Unread
    <3>2. CASE l = i
      BY <1>2, <1>10, <1>11, <3>2 DEF OwnFirst, Unread
    <3>3. CASE l # i
      BY <1>1, <1>2, <1>4, <3>1, <3>3 DEF OwnFirst
    <3> QED  BY <3>2, <3>3
  <2>5. Distinct(players[l])'
    BY <1>1, <1>2 DEF Distinct
  <2> QED  BY <2>1, <2>2, <2>3, <2>4, <2>5
<1>13. ASSUME NEW l \in SessionIds, NEW j \in SessionIds  PROVE Told(l, j)'
  <2>0. /\ Quiet(l, j)' = Quiet(l, j) /\ Unread(l, j)' = Unread(l, j)
        /\ j # i => Truth(j)' = Truth(j)
    BY <1>2 DEF Truth, Quiet, Unread
  <2>1. CASE l = i
    <3>1. ~Unread(l, j)' /\ DOMAIN down'[l] = {}
      BY <1>2, <1>10, <1>11, <2>1 DEF Unread
    <3>2. j \in joined => j < l
      <4> SUFFICES ASSUME j \in joined  PROVE j < i
        BY <2>1
      <4>1. pc[j] # "off"
        BY <1>1 DEF Seated
      <4>2. j # i /\ ~(i < j)
        BY <1>10, <4>1
      <4> QED  BY <4>2 DEF SessionIds
    <3>3. Places(players'[l], j) = {}
      BY <1>2, <1>11, <2>1 DEF Places
    <3>4. j \in joined' \ missed'[l] => j < l /\ ~cnt'[l] /\ Places(players'[l], j) = {}
      BY <1>2, <1>10, <2>1, <3>2, <3>3
    <3> QED  BY <3>1, <3>4 DEF Told
  <2>2. CASE l # i /\ j # i
    <3>1. Told(l, j) /\ pc'[l] = pc[l]
      BY <1>4, <2>2 DEF BoardIInv
    <3> QED  BY <1>2, <2>0, <2>2, <3>1 DEF Told
  <2>3. CASE l # i /\ j = i
    <3>1. Quiet(l, j)' /\ ~Unread(l, j)' /\ j \notin joined'
      BY <1>2, <1>10, <2>0, <2>3
    <3>2. \A n \in DOMAIN down'[l] : down'[l][n].id # j
      BY <3>1 DEF Quiet
    <3> QED  BY <3>1, <3>2 DEF Told
  <2> QED  BY <2>1, <2>2, <2>3
<1> QED  BY <1>9, <1>12, <1>13 DEF BoardIInv

LEMMA LeaveKeeps ==
  ASSUME BoardIInv, NEW i \in SessionIds, Leave(i)
  PROVE  BoardIInv'
<1>1. BoardTypes /\ \A l \in SessionIds : Seated(l) /\ Reported(l) /\ Answered(l) /\ OwnFirst(l) /\ Distinct(players[l])
  BY DEF BoardIInv
<1>2. /\ UNCHANGED <<clients, client_pos, cnt, joined, pp, apcs, kp_type, players, login, keys, crossed, missed>>
      /\ pc[i] = "leaving"
  BY DEF Leave, recvVars
<1>3. /\ pc' = [pc EXCEPT ![i] = "gone"] /\ pc \in [SessionIds -> Playing \cup {"off", "leaving", "gone"}]
      /\ down' = [down EXCEPT ![i] = <<>>] /\ down \in [SessionIds -> Seq(Packets)]
      /\ up' = [up EXCEPT ![i] = IF down[i] = <<>> THEN @ ELSE <<>>] /\ up \in [SessionIds -> Seq(Letters)]
      /\ hung' \in BOOLEAN
  BY <1>1 DEF Leave, BoardTypes
<1>4. /\ pc'[i] = "gone" /\ down'[i] = <<>>
      /\ \A l \in SessionIds \ {i} : pc'[l] = pc[l] /\ up'[l] = up[l] /\ down'[l] = down[l]
  BY <1>3
<1>5. BoardTypes'
  <2>1. pc' \in [SessionIds -> Playing \cup {"off", "leaving", "gone"}]
    BY <1>3
  <2>2. down' \in [SessionIds -> Seq(Packets)]
    BY <1>3
  <2>3. up' \in [SessionIds -> Seq(Letters)]
    BY <1>3
  <2> QED  BY <1>1, <1>2, <1>3, <2>1, <2>2, <2>3 DEF BoardTypes
<1>6. DOMAIN down'[i] = {} /\ pc'[i] \notin Playing
  BY <1>4 DEF Playing
<1>7. ASSUME NEW l \in SessionIds, NEW j \in SessionIds
      PROVE  (Quiet(l, j) => Quiet(l, j)') /\ (Unread(l, j)' = Unread(l, j))
  BY <1>2, <1>4, <1>6 DEF Quiet, Unread
<1>8. ASSUME NEW l \in SessionIds
      PROVE  Seated(l)' /\ Reported(l)' /\ Answered(l)' /\ OwnFirst(l)' /\ Distinct(players[l])'
  <2>1. Seated(l)'
    <3>1. CASE l = i
      <4>1. i \in login
        BY <1>1, <1>2 DEF Seated
      <4> QED  BY <1>2, <1>4, <1>6, <3>1, <4>1 DEF Seated
    <3>2. CASE l # i
      <4>1. pc[l] = "off" => ~(l < i)
        BY <1>1, <1>2 DEF Seated
      <4>2. pc[l] = "off" => \A m \in SessionIds : l < m => pc'[m] = "off"
        BY <1>1, <1>4, <4>1 DEF Seated
      <4> QED  BY <1>1, <1>2, <1>4, <1>7, <3>2, <4>2 DEF Seated
    <3> QED  BY <3>1, <3>2
  <2>2. Reported(l)'
    BY <1>1, <1>2, <1>4, <1>6 DEF Reported
  <2>3. Answered(l)'
    BY <1>1, <1>2, <1>4 DEF Answered, LastPacket
  <2>4. OwnFirst(l)'
    <3>1. CASE l = i
      <4>1. i \in login /\ (i \notin crossed => i \in joined)
        BY <1>1, <1>2 DEF Seated, OwnFirst
      <4> QED  BY <1>2, <1>6, <3>1, <4>1 DEF OwnFirst
    <3>2. CASE l # i
      BY <1>1, <1>2, <1>4, <1>7, <3>2 DEF OwnFirst
    <3> QED  BY <3>1, <3>2
  <2>5. Distinct(players[l])'
    BY <1>1, <1>2 DEF Distinct
  <2> QED  BY <2>1, <2>2, <2>3, <2>4, <2>5
<1>9. ASSUME NEW l \in SessionIds, NEW j \in SessionIds  PROVE Told(l, j)'
  <2>1. CASE l = i
    BY <1>6, <2>1 DEF Told
  <2>2. CASE l # i
    <3>1. /\ Quiet(l, j)' = Quiet(l, j) /\ Unread(l, j)' = Unread(l, j) /\ Truth(j)' = Truth(j)
          /\ Told(l, j)
      BY <1>2, <1>4, <2>2 DEF Quiet, Unread, Truth, BoardIInv
    <3> QED  BY <1>2, <1>4, <2>2, <3>1 DEF Told
  <2> QED  BY <2>1, <2>2
<1> QED  BY <1>5, <1>8, <1>9 DEF BoardIInv

(* A packet comes in over the last.                                         *)
LEMMA ArriveKeeps ==
  ASSUME BoardIInv, NEW i \in SessionIds, Arrive(i)
  PROVE  BoardIInv'
<1>1. BoardTypes /\ \A l \in SessionIds : Seated(l) /\ Reported(l) /\ Answered(l) /\ OwnFirst(l) /\ Distinct(players[l])
  BY DEF BoardIInv
<1>2. /\ UNCHANGED <<clients, client_pos, cnt, hung, joined, pc, kp_type, players, login, up, keys>>
      /\ pc[i] \in Playing \cup {"leaving"} /\ down[i] # <<>>
  BY DEF Arrive, serverVars, clientVars, Running, Playing
<1>3. /\ pp' = [pp EXCEPT ![i] = Head(down[i])] /\ apcs' = [apcs EXCEPT ![i] = @ + 1]
      /\ down' = [down EXCEPT ![i] = Tail(@)]
      /\ missed'  = IF apcs[i] > 0 THEN [missed EXCEPT ![i] = @ \cup {pp[i].id}] ELSE missed
      /\ crossed' = IF apcs[i] > 0 /\ i \notin login THEN crossed \cup {i} ELSE crossed
  BY DEF Arrive
<1>4. /\ pp \in [SessionIds -> Packets] /\ apcs \in [SessionIds -> Nat] /\ down \in [SessionIds -> Seq(Packets)]
      /\ missed \in [SessionIds -> SUBSET SessionIds] /\ crossed \subseteq SessionIds
      /\ down[i] \in Seq(Packets) /\ apcs[i] \in Nat
  BY <1>1 DEF BoardTypes
<1>5. /\ pp'[i] = Head(down[i]) /\ apcs'[i] = apcs[i] + 1 /\ down'[i] = Tail(down[i])
      /\ \A l \in SessionIds \ {i} : pp'[l] = pp[l] /\ apcs'[l] = apcs[l] /\ down'[l] = down[l] /\ missed'[l] = missed[l]
      /\ missed'[i] = (IF apcs[i] > 0 THEN missed[i] \cup {pp[i].id} ELSE missed[i])
      /\ \A l \in SessionIds \ {i} : l \in crossed' <=> l \in crossed
      /\ i \notin crossed' => i \notin crossed /\ (apcs[i] = 0 \/ i \in login)
  <2>1. /\ pp'[i] = Head(down[i]) /\ apcs'[i] = apcs[i] + 1 /\ down'[i] = Tail(down[i])
        /\ \A l \in SessionIds \ {i} : pp'[l] = pp[l] /\ apcs'[l] = apcs[l] /\ down'[l] = down[l]
    BY <1>3, <1>4
  <2>2. /\ missed'[i] = (IF apcs[i] > 0 THEN missed[i] \cup {pp[i].id} ELSE missed[i])
        /\ \A l \in SessionIds \ {i} : missed'[l] = missed[l]
    BY <1>3, <1>4
  <2>3. /\ \A l \in SessionIds \ {i} : l \in crossed' <=> l \in crossed
        /\ i \notin crossed' => i \notin crossed /\ (apcs[i] = 0 \/ i \in login)
    BY <1>3, <1>4
  <2> QED  BY <2>1, <2>2, <2>3
<1> DEFINE q == down[i]
<1>6. /\ Head(q) = q[1] /\ Head(q) \in Packets /\ 1 \in DOMAIN q /\ Tail(q) \in Seq(Packets)
      /\ \A n \in DOMAIN Tail(q) : n + 1 \in DOMAIN q /\ Tail(q)[n] = q[n + 1]
      /\ \A n \in DOMAIN q : n = 1 \/ (n - 1 \in DOMAIN Tail(q) /\ Tail(q)[n - 1] = q[n])
      /\ Tail(q) # <<>> => Tail(q)[Len(Tail(q))] = q[Len(q)]
      /\ Tail(q) = <<>> => Len(q) = 1
  <2>1. q \in Seq(Packets) /\ q # <<>>
    BY <1>2, <1>4
  <2> HIDE DEF q
  <2> QED  BY <2>1, Shorter
<1>7. /\ pp'[i] = down[i][1] /\ pp'[i] \in Packets /\ 1 \in DOMAIN down[i] /\ down'[i] \in Seq(Packets)
      /\ \A n \in DOMAIN down'[i] : n + 1 \in DOMAIN down[i] /\ down'[i][n] = down[i][n + 1]
      /\ \A n \in DOMAIN down[i] : n = 1 \/ (n - 1 \in DOMAIN down'[i] /\ down'[i][n - 1] = down[i][n])
      /\ LastPacket(i)' = LastPacket(i)
  BY <1>2, <1>5, <1>6 DEF LastPacket
<1> HIDE DEF q
<1>8. BoardTypes'
  <2>1. /\ pp' \in [SessionIds -> Packets] /\ apcs' \in [SessionIds -> Nat] /\ down' \in [SessionIds -> Seq(Packets)]
    BY <1>3, <1>4, <1>5, <1>7
  <2>2. missed' \in [SessionIds -> SUBSET SessionIds] /\ crossed' \subseteq SessionIds
    <3>1. pp[i].id \in SessionIds
      BY <1>4 DEF Packets
    <3> QED  BY <1>3, <1>4, <3>1
  <2> QED  BY <1>1, <1>2, <2>1, <2>2 DEF BoardTypes
<1>9. ASSUME NEW l \in SessionIds
      PROVE  Seated(l)' /\ Reported(l)' /\ Answered(l)' /\ OwnFirst(l)' /\ Distinct(players[l])'
  <2>1. Seated(l)'
    <3>1. CASE pc[l] = "off"
      <4>1. l # i
        BY <1>2, <3>1 DEF Playing
      <4>2. ASSUME NEW m \in SessionIds  PROVE Quiet(m, l)' /\ ~Unread(m, l)'
        <5>1. Quiet(m, l) /\ ~Unread(m, l)
          BY <1>1, <3>1 DEF Seated
        <5>2. CASE m # i
          BY <1>5, <5>1, <5>2 DEF Quiet, Unread
        <5>3. CASE m = i
          BY <1>7, <5>1, <5>3 DEF Quiet, Unread
        <5> QED  BY <5>2, <5>3
      <4> QED  BY <1>1, <1>2, <1>5, <3>1, <4>1, <4>2 DEF Seated, Playing
    <3>2. CASE pc[l] # "off"
      BY <1>1, <1>2, <3>2 DEF Seated
    <3> QED  BY <3>1, <3>2
  <2>2. Reported(l)'
    <3>1. CASE l = i
      BY <1>1, <1>2, <1>7, <3>1 DEF Reported
    <3>2. CASE l # i
      BY <1>1, <1>2, <1>5, <3>2 DEF Reported
    <3> QED  BY <3>1, <3>2
  <2>3. Answered(l)'
    <3>1. CASE l = i
      <4>1. apcs'[i] > 0
        BY <1>4, <1>5
      <4> QED  BY <1>1, <1>2, <1>7, <3>1, <4>1 DEF Answered
    <3>2. CASE l # i
      BY <1>1, <1>2, <1>5, <3>2 DEF Answered, LastPacket
    <3> QED  BY <3>1, <3>2
  <2>4. OwnFirst(l)'
    <3>1. CASE l = i
      <4>1. pc[i] \in Playing => /\ \A n \in DOMAIN down'[i] : down'[i][n].id = i => ~down'[i][n].esc
                                 /\ pp'[i].id = i => ~pp'[i].esc
        BY <1>1, <1>7 DEF OwnFirst
      <4>2. ASSUME i \notin crossed'
            PROVE  /\ i \in joined
                   /\ i \notin login => apcs'[i] = 1 /\ pp'[i].id = i
                   /\ i \in login /\ pc[i] \in Playing => players[i] # <<>> /\ players[i][1].id = i
        <5>1. i \notin crossed /\ (apcs[i] = 0 \/ i \in login)
          BY <1>5, <4>2
        <5>2. i \in joined
          BY <1>1, <1>2, <5>1 DEF OwnFirst
        <5>3. i \notin login => apcs[i] = 0 /\ down[i][1].id = i
          BY <1>1, <5>1, <5>2 DEF OwnFirst
        <5>4. i \in login /\ pc[i] \in Playing => players[i] # <<>> /\ players[i][1].id = i
          BY <1>1, <5>1 DEF OwnFirst
        <5> QED  BY <1>5, <1>7, <5>2, <5>3, <5>4
      <4> QED  BY <1>2, <3>1, <4>1, <4>2 DEF OwnFirst, Unread
    <3>2. CASE l # i
      BY <1>1, <1>2, <1>5, <3>2 DEF OwnFirst, Unread
    <3> QED  BY <3>1, <3>2
  <2>5. Distinct(players[l])'
    BY <1>1, <1>2 DEF Distinct
  <2> QED  BY <2>1, <2>2, <2>3, <2>4, <2>5
<1>10. ASSUME NEW l \in SessionIds, NEW j \in SessionIds, pc[l] \in Playing  PROVE Told(l, j)'
  <2>0. Told(l, j) /\ Truth(j)' = Truth(j)
    BY <1>2 DEF BoardIInv, Truth
  <2>1. CASE l # i
    BY <1>2, <1>5, <2>0, <2>1 DEF Told, Quiet, Unread
  <2>2. CASE l = i
    <3>1. ASSUME NEW n \in DOMAIN down'[i], down'[i][n].id = j,
                 \A m \in DOMAIN down'[i] : m > n => down'[i][m].id # j
          PROVE  Says(down'[i][n]) = Truth(j)
      <4>1. n + 1 \in DOMAIN down[i] /\ down[i][n + 1] = down'[i][n]
        BY <1>7
      <4>2. ASSUME NEW m \in DOMAIN down[i], m > n + 1  PROVE down[i][m].id # j
        <5>1. m # 1 /\ m - 1 > n
          BY <1>4, <1>7, <4>2
        <5>2. m - 1 \in DOMAIN down'[i] /\ down'[i][m - 1] = down[i][m]
          BY <1>7, <5>1
        <5> QED  BY <3>1, <5>1, <5>2
      <4> QED  BY <1>10, <2>0, <2>2, <3>1, <4>1, <4>2 DEF Told
    <3>2. ASSUME Quiet(i, j)', Unread(i, j)'  PROVE Says(pp'[i]) = Truth(j)
      <4>1. ASSUME NEW m \in DOMAIN down[i], m > 1  PROVE down[i][m].id # j
        <5>1. m - 1 \in DOMAIN down'[i] /\ down'[i][m - 1] = down[i][m]
          BY <1>7, <4>1
        <5> QED  BY <3>2, <5>1 DEF Quiet
      <4>2. down[i][1].id = j /\ pp'[i] = down[i][1]
        BY <1>7, <3>2 DEF Unread
      <4> QED  BY <1>7, <1>10, <2>0, <2>2, <4>1, <4>2 DEF Told
    <3>3. ASSUME Quiet(i, j)', ~Unread(i, j)', j \in joined \ missed'[i]
          PROVE  Places(players[i], j) = Truth(j) \/ (j < i /\ ~cnt[i] /\ Places(players[i], j) = {})
      <4>1. down[i][1].id # j
        BY <1>4, <1>5, <1>7, <3>3 DEF Unread
      <4>2. ASSUME NEW m \in DOMAIN down[i], m # 1  PROVE down[i][m].id # j
        <5>1. m - 1 \in DOMAIN down'[i] /\ down'[i][m - 1] = down[i][m]
          BY <1>7, <4>2
        <5> QED  BY <3>3, <5>1 DEF Quiet
      <4>3. Quiet(i, j)
        BY <4>1, <4>2 DEF Quiet
      <4>4. ~Unread(i, j) /\ j \notin missed[i]
        BY <1>5, <3>3 DEF Unread
      <4> QED  BY <1>10, <2>0, <2>2, <3>3, <4>3, <4>4 DEF Told
    <3> QED  BY <1>2, <2>0, <2>2, <3>1, <3>2, <3>3 DEF Told, Says
  <2> QED  BY <2>1, <2>2
<1>11. \A l, j \in SessionIds : Told(l, j)'
  BY <1>2, <1>10 DEF Told
<1> QED  BY <1>8, <1>9, <1>11 DEF BoardIInv

LEMMA HasIsPlaced == ASSUME NEW s \in Seq(Pieces), NEW j PROVE Has(s, j) <=> Places(s, j) # {}
BY DEF Has, Places

(* What the routines that are due make of the vector.                       *)
LEMMA RoutinesKeep ==
  ASSUME BoardTypes, NEW i \in SessionIds, SleepEx(i), i \notin login => players[i] = <<>>,
         Distinct(players[i])
  PROVE  /\ players' = [players EXCEPT ![i] = players'[i]] /\ players'[i] \in Seq(Pieces)
         /\ \A j : j # pp[i].id => Places(players'[i], j) = Places(players[i], j)
         /\ i \in login => \A j : players[i] # <<>> /\ players[i][1].id = j /\ (pp[i].id = j => ~pp[i].esc)
                                  => players'[i] # <<>> /\ players'[i][1].id = j
         /\ i \notin login /\ ~pp[i].esc => players'[i] # <<>> /\ players'[i][1].id = pp[i].id
         /\ Distinct(players'[i])
         /\ missed' = [missed EXCEPT ![i] = IF Agrees(players'[i], pp[i]) THEN @ \ {pp[i].id} ELSE @ \cup {pp[i].id}]
<1> DEFINE p  == pp[i]
           s0 == IF i \in login THEN players[i] ELSE <<Player(p.id, p.x)>>
           n  == IF i \in login THEN apcs[i] ELSE apcs[i] - 1
           s  == Callbacks(s0, kp_type[i], p, n)
<1>0. /\ p \in Packets /\ players[i] \in Seq(Pieces) /\ apcs[i] \in Nat /\ apcs[i] > 0
      /\ players \in [SessionIds -> Seq(Pieces)]
  BY DEF BoardTypes, SleepEx
<1>1. /\ players' = [players EXCEPT ![i] = s]
      /\ missed' = [missed EXCEPT ![i] = IF Agrees(s, p) THEN @ \ {p.id} ELSE @ \cup {p.id}]
  <2>1. CASE i \in login
    BY <2>1 DEF SleepEx
  <2>2. CASE i \notin login
    BY <2>2 DEF SleepEx
  <2> QED  BY <2>1, <2>2
<1>2. n \in Nat
  BY <1>0
<1> DEFINE c == Player(p.id, p.x)
<1>3. c \in Pieces /\ c.id = p.id
  BY <1>0 DEF Player, Pieces, Packets
<1>4. <<c>> \in Seq(Pieces) /\ <<c>> # <<>> /\ <<c>>[1] = c /\ DOMAIN <<c>> = {1}
  BY <1>3
<1>5. s0 \in Seq(Pieces)
  BY <1>0, <1>4
<1>6. Distinct(s0)
  <2>1. Distinct(<<c>>)
    BY <1>4 DEF Distinct
  <2> QED  BY <2>1
<1>7. ASSUME NEW j, j # p.id  PROVE Places(s0, j) = Places(players[i], j)
  <2>1. i \notin login => Places(s0, j) = {} /\ Places(players[i], j) = {}
    <3>1. Places(<<c>>, j) = {}
      BY <1>3, <1>4, <1>7 DEF Places
    <3>2. Places(<<>>, j) = {}
      BY DEF Places
    <3> QED  BY <3>1, <3>2
  <2> QED  BY <2>1
<1>8. i \notin login => s0 # <<>> /\ s0[1].id = p.id
  BY <1>3, <1>4
<1>9. i \in login => s0 = players[i]
  OBVIOUS
<1> HIDE DEF s0, n, p, c
<1>10. /\ s \in Seq(Pieces)
       /\ \A j : j # p.id => Places(s, j) = Places(s0, j)
       /\ \A j : s0 # <<>> /\ s0[1].id = j /\ (p.id = j => ~p.esc) => s # <<>> /\ s[1].id = j
       /\ Distinct(s0) => Distinct(s)
  BY <1>0, <1>2, <1>5, CallbacksKeep
<1> HIDE DEF s
<1>11. players'[i] = s
  BY <1>0, <1>1
<1>12. players' = [players EXCEPT ![i] = players'[i]]
  BY <1>1, <1>11, Zenon
<1>13. \A j : j # p.id => Places(players'[i], j) = Places(players[i], j)
  BY <1>7, <1>10, <1>11
<1>14. i \in login => \A j : players[i] # <<>> /\ players[i][1].id = j /\ (p.id = j => ~p.esc)
                             => players'[i] # <<>> /\ players'[i][1].id = j
  BY <1>9, <1>10, <1>11
<1>15. i \notin login /\ ~p.esc => players'[i] # <<>> /\ players'[i][1].id = p.id
  BY <1>8, <1>10, <1>11
<1>16. players'[i] \in Seq(Pieces) /\ Distinct(players'[i])
  BY <1>6, <1>10, <1>11
<1>17. missed' = [missed EXCEPT ![i] = IF Agrees(players'[i], p) THEN @ \ {p.id} ELSE @ \cup {p.id}]
  BY <1>1, <1>11
<1> QED  BY <1>12, <1>13, <1>14, <1>15, <1>16, <1>17 DEF p

LEMMA SleepKeeps ==
  ASSUME BoardIInv, NEW i \in SessionIds, SleepEx(i)
  PROVE  BoardIInv'
<1>1. BoardTypes /\ \A l \in SessionIds : Seated(l) /\ Reported(l) /\ Answered(l) /\ OwnFirst(l) /\ Distinct(players[l])
  BY DEF BoardIInv
<1>2. /\ UNCHANGED <<clients, client_pos, cnt, hung, joined, pc, kp_type, pp, up, down, keys, crossed>>
      /\ login' = login \cup {i} /\ apcs' = [apcs EXCEPT ![i] = 0]
      /\ pc[i] \in Playing \cup {"leaving"} /\ apcs[i] > 0
  BY DEF SleepEx, serverVars, Running, Playing
<1>3. /\ players' = [players EXCEPT ![i] = players'[i]] /\ players'[i] \in Seq(Pieces)
      /\ \A j : j # pp[i].id => Places(players'[i], j) = Places(players[i], j)
      /\ i \in login => \A j : players[i] # <<>> /\ players[i][1].id = j /\ (pp[i].id = j => ~pp[i].esc)
                               => players'[i] # <<>> /\ players'[i][1].id = j
      /\ i \notin login /\ ~pp[i].esc => players'[i] # <<>> /\ players'[i][1].id = pp[i].id
      /\ Distinct(players'[i])
      /\ missed' = [missed EXCEPT ![i] = IF Agrees(players'[i], pp[i]) THEN @ \ {pp[i].id} ELSE @ \cup {pp[i].id}]
  <2>1. (i \notin login => players[i] = <<>>) /\ Distinct(players[i])
    BY <1>1 DEF Seated
  <2> QED  BY <1>1, <2>1, RoutinesKeep
<1>4. /\ players \in [SessionIds -> Seq(Pieces)] /\ apcs \in [SessionIds -> Nat]
      /\ missed \in [SessionIds -> SUBSET SessionIds] /\ pp[i].id \in SessionIds
  BY <1>1 DEF BoardTypes, Packets
<1>5. \A l \in SessionIds \ {i} : players'[l] = players[l]
  <2> SUFFICES ASSUME NEW l \in SessionIds \ {i}  PROVE players'[l] = players[l]
    OBVIOUS
  <2>1. players' = [players EXCEPT ![i] = players'[i]]
    BY <1>3
  <2> QED  BY <1>4, <2>1, Zenon
<1>6. /\ apcs'[i] = 0 /\ \A l \in SessionIds \ {i} : apcs'[l] = apcs[l]
      /\ apcs' \in [SessionIds -> Nat]
  BY <1>2, <1>4
<1>7. /\ missed'[i] = (IF Agrees(players'[i], pp[i]) THEN missed[i] \ {pp[i].id} ELSE missed[i] \cup {pp[i].id})
      /\ \A l \in SessionIds \ {i} : missed'[l] = missed[l]
      /\ missed' \in [SessionIds -> SUBSET SessionIds]
  <2> DEFINE m == IF Agrees(players'[i], pp[i]) THEN missed[i] \ {pp[i].id} ELSE missed[i] \cup {pp[i].id}
  <2>1. m \in SUBSET SessionIds
    BY <1>4
  <2>2. missed' = [missed EXCEPT ![i] = m]
    BY <1>3
  <2> HIDE DEF m
  <2>3. missed'[i] = m /\ missed' \in [SessionIds -> SUBSET SessionIds] /\ \A l \in SessionIds \ {i} : missed'[l] = missed[l]
    BY <1>4, <2>1, <2>2
  <2> QED  BY <2>3 DEF m
<1>8. BoardTypes'
  <2>1. players' \in [SessionIds -> Seq(Pieces)]
    BY <1>3, <1>4, Zenon
  <2> QED  BY <1>1, <1>2, <1>6, <1>7, <2>1 DEF BoardTypes
<1>9. ASSUME NEW l \in SessionIds, NEW j
      PROVE  Quiet(l, j)' = Quiet(l, j) /\ (Unread(l, j)' => Unread(l, j)) /\ ~Unread(i, j)'
             /\ (l # i => Unread(l, j)' = Unread(l, j))
  BY <1>2, <1>6 DEF Quiet, Unread
<1>10. ASSUME NEW l \in SessionIds
       PROVE  Seated(l)' /\ Reported(l)' /\ Answered(l)' /\ OwnFirst(l)' /\ Distinct(players[l])'
  <2>1. Seated(l)'
    <3>1. CASE pc[l] = "off"
      <4>1. l # i
        BY <1>2, <3>1 DEF Playing
      <4>2. ASSUME NEW m \in SessionIds  PROVE Quiet(m, l)' /\ ~Unread(m, l)' /\ ~Has(players'[m], l)
        <5>1. Quiet(m, l) /\ ~Unread(m, l) /\ ~Has(players[m], l)
          BY <1>1, <3>1 DEF Seated
        <5>2. ~Has(players'[m], l)
          <6>1. CASE m # i
            BY <1>5, <5>1, <6>1
          <6>2. CASE m = i
            <7>1. l # pp[i].id
              BY <1>2, <5>1, <6>2 DEF Unread
            <7>2. Places(players'[i], l) = Places(players[i], l)
              BY <1>3, <7>1
            <7>3. players[i] \in Seq(Pieces) /\ players'[i] \in Seq(Pieces)
              BY <1>3, <1>4
            <7> QED  BY <5>1, <6>2, <7>2, <7>3, HasIsPlaced
          <6> QED  BY <6>1, <6>2
        <5> QED  BY <1>9, <5>1, <5>2
      <4> QED  BY <1>1, <1>2, <1>5, <1>6, <3>1, <4>1, <4>2 DEF Seated, Playing
    <3>2. CASE pc[l] # "off"
      BY <1>1, <1>2, <1>5, <3>2 DEF Seated
    <3> QED  BY <3>1, <3>2
  <2>2. Reported(l)'
    BY <1>1, <1>2 DEF Reported
  <2>3. Answered(l)'
    <3>1. CASE l = i
      BY <1>1, <1>2, <3>1 DEF Answered, LastPacket
    <3>2. CASE l # i
      BY <1>1, <1>2, <1>6, <3>2 DEF Answered, LastPacket
    <3> QED  BY <3>1, <3>2
  <2>4. OwnFirst(l)'
    <3>1. CASE l = i
      <4>1. pc[i] \in Playing => \A n \in DOMAIN down[i] : down[i][n].id = i => ~down[i][n].esc
        BY <1>1 DEF OwnFirst
      <4>2. ASSUME i \notin crossed
            PROVE  i \in joined /\ (pc[i] \in Playing => players'[i] # <<>> /\ players'[i][1].id = i)
        <5>1. i \in joined
          BY <1>1, <1>2, <4>2 DEF OwnFirst
        <5>2. ASSUME pc[i] \in Playing  PROVE players'[i] # <<>> /\ players'[i][1].id = i
          <6>1. pp[i].id = i => ~pp[i].esc
            BY <1>1, <1>2, <5>2 DEF OwnFirst, Unread
          <6>2. CASE i \in login
            <7>1. players[i] # <<>> /\ players[i][1].id = i
              BY <1>1, <4>2, <5>2, <6>2 DEF OwnFirst
            <7> QED  BY <1>3, <6>1, <6>2, <7>1
          <6>3. CASE i \notin login
            <7>1. pp[i].id = i
              BY <1>1, <1>2, <4>2, <5>1, <6>3 DEF OwnFirst
            <7> QED  BY <1>3, <6>1, <6>3, <7>1
          <6> QED  BY <6>2, <6>3
        <5> QED  BY <5>1, <5>2
      <4> QED  BY <1>2, <1>9, <3>1, <4>1, <4>2 DEF OwnFirst
    <3>2. CASE l # i
      BY <1>1, <1>2, <1>5, <1>6, <1>9, <3>2 DEF OwnFirst
    <3> QED  BY <3>1, <3>2
  <2>5. Distinct(players[l])'
    <3>1. CASE l = i
      BY <1>3, <3>1 DEF Distinct
    <3>2. CASE l # i
      BY <1>1, <1>5, <3>2 DEF Distinct
    <3> QED  BY <3>1, <3>2
  <2> QED  BY <2>1, <2>2, <2>3, <2>4, <2>5
<1>11. ASSUME NEW l \in SessionIds, NEW j \in SessionIds, pc[l] \in Playing  PROVE Told(l, j)'
  <2>0. Told(l, j) /\ Truth(j)' = Truth(j)
    BY <1>2 DEF BoardIInv, Truth
  <2>1. CASE l # i
    BY <1>2, <1>5, <1>7, <1>9, <2>0, <2>1 DEF Told
  <2>2. CASE l = i
    <3>1. ASSUME Quiet(i, j), j \in joined \ missed'[i]
          PROVE  Places(players'[i], j) = Truth(j) \/ (j < i /\ ~cnt[i] /\ Places(players'[i], j) = {})
      <4>1. CASE j = pp[i].id
        <5>1. Agrees(players'[i], pp[i])
          BY <1>7, <3>1, <4>1
        <5>2. Says(pp[i]) = Truth(j)
          BY <1>2, <1>11, <2>0, <2>2, <3>1, <4>1 DEF Told, Unread
        <5> QED  BY <4>1, <5>1, <5>2 DEF Agrees, Says
      <4>2. CASE j # pp[i].id
        <5>1. ~Unread(i, j) /\ j \notin missed[i]
          BY <1>7, <3>1, <4>2 DEF Unread
        <5>2. Places(players'[i], j) = Places(players[i], j)
          BY <1>3, <4>2
        <5> QED  BY <1>11, <2>0, <2>2, <3>1, <5>1, <5>2 DEF Told
      <4> QED  BY <4>1, <4>2
    <3> QED  BY <1>2, <1>9, <2>0, <2>2, <3>1 DEF Told
  <2> QED  BY <2>1, <2>2
<1>12. \A l, j \in SessionIds : Told(l, j)'
  BY <1>2, <1>11 DEF Told
<1> QED  BY <1>8, <1>10, <1>12 DEF BoardIInv

LEMMA BoardInitHolds == ASSUME BoardInit PROVE BoardIInv
<1>1. DOMAIN <<>> = {}
  OBVIOUS
<1>2. 0 \in SessionIds
  BY BoardAssumption DEF SessionIds
<1>3. Packet(0, 0, FALSE, FALSE) \in Packets
  BY <1>2 DEF Packet, Packets
<1>4. BoardTypes
  BY <1>2, <1>3 DEF BoardInit, BoardTypes, Start, Playing
<1>5. ASSUME NEW i \in SessionIds
      PROVE  /\ pc[i] = "off" /\ i \notin clients /\ i \notin login /\ i \notin joined /\ ~cnt[i]
             /\ down[i] = <<>> /\ apcs[i] = 0 /\ players[i] = <<>> /\ pp[i] = Packet(0, 0, FALSE, FALSE)
  BY DEF BoardInit
<1>6. ASSUME NEW i \in SessionIds, NEW k
      PROVE  Quiet(i, k) /\ ~Unread(i, k) /\ ~Has(players[i], k)
  <2>1. DOMAIN down[i] = {} /\ DOMAIN players[i] = {} /\ ~(apcs[i] > 0)
    <3>1. down[i] = <<>> /\ players[i] = <<>> /\ apcs[i] = 0
      BY <1>5
    <3>2. ~(0 > 0)
      OBVIOUS
    <3> QED  BY <1>1, <3>1, <3>2
  <2> QED  BY <2>1 DEF Quiet, Unread, Has
<1>7. ASSUME NEW i \in SessionIds
      PROVE  Seated(i) /\ Reported(i) /\ Answered(i) /\ OwnFirst(i) /\ Distinct(players[i])
  <2>1. pc[i] \notin Playing
    BY <1>5 DEF Playing
  <2>2. Seated(i)
    BY <1>5, <1>6, <2>1 DEF Seated
  <2>3. Reported(i)
    BY <1>1, <1>5 DEF Reported, Packet
  <2>4. Answered(i)
    BY <1>5 DEF Answered
  <2>5. OwnFirst(i)
    BY <1>5, <2>1 DEF OwnFirst
  <2>6. Distinct(players[i])
    BY <1>1, <1>5 DEF Distinct
  <2> QED  BY <2>2, <2>3, <2>4, <2>5, <2>6
<1>8. \A i, j \in SessionIds : Told(i, j)
  BY <1>5 DEF Told, Playing
<1> QED  BY <1>4, <1>7, <1>8 DEF BoardIInv

LEMMA BoardStill == ASSUME BoardIInv, UNCHANGED boardVars PROVE BoardIInv'
<1>1. /\ UNCHANGED <<clients, client_pos, cnt, hung, joined, pc, kp_type, players, login, pp, apcs>>
      /\ UNCHANGED <<up, down, keys, crossed, missed>>
  BY DEF boardVars, serverVars, clientVars, recvVars
<1>2. BoardTypes'
  BY <1>1 DEF BoardIInv, BoardTypes
<1>3. ASSUME NEW i \in SessionIds
      PROVE  Seated(i)' /\ Reported(i)' /\ Answered(i)' /\ OwnFirst(i)' /\ Distinct(players[i])'
  <2>1. Seated(i) /\ Reported(i) /\ Answered(i) /\ OwnFirst(i) /\ Distinct(players[i])
    BY DEF BoardIInv
  <2>2. \A k \in SessionIds : Quiet(k, i)' = Quiet(k, i) /\ Unread(k, i)' = Unread(k, i)
    BY <1>1 DEF Quiet, Unread
  <2> QED  BY <1>1, <2>1, <2>2 DEF Seated, Reported, Answered, LastPacket, OwnFirst, Distinct
<1>4. ASSUME NEW i \in SessionIds, NEW j \in SessionIds  PROVE Told(i, j)'
  <2>1. Told(i, j)
    BY DEF BoardIInv
  <2>2. Quiet(i, j)' = Quiet(i, j) /\ Unread(i, j)' = Unread(i, j) /\ Truth(j)' = Truth(j)
    BY <1>1 DEF Quiet, Unread, Truth
  <2> QED  BY <1>1, <2>1, <2>2 DEF Told
<1> QED  BY <1>2, <1>3, <1>4 DEF BoardIInv

(* On the board, whatever the number of clients and of receives that are    *)
(* pending: the last a playing client is told of anyone is the truth, its   *)
(* own place comes first, and one that waits has a letter under way, or     *)
(* what answers it.                                                         *)
THEOREM BoardInvariance == BoardSpec => []BoardIInv
<1>1. ASSUME BoardIInv, BoardNext  PROVE BoardIInv'
  <2>1. PICK i \in SessionIds :
          \/ Accept(i) \/ Server(i)
          \/ Arrive(i) \/ Turn(i) \/ Press(i) \/ Escape(i) \/ Leave(i)
    BY <1>1 DEF BoardNext
  <2> QED  BY <1>1, <2>1, AcceptKeeps, ServerKeeps, ArriveKeeps, SleepKeeps, SendKeeps, LeaveKeeps DEF Turn
<1>2. BoardIInv /\ [BoardNext]_boardVars => BoardIInv'
  BY <1>1, BoardStill
<1> QED  BY <1>2, BoardInitHolds, PTL DEF BoardSpec

(* Clients, places, letters, packets and pieces are what the code declares. *)
THEOREM BoardTypeCorrect == BoardSpec => []BoardTypes
<1>1. BoardIInv => BoardTypes
  BY DEF BoardIInv
<1> QED  BY <1>1, BoardInvariance, PTL

(* The piece a client draws as its own is its own, unless it was crossed.   *)
THEOREM OwnPieceHolds == BoardSpec => []OwnPiece
<1>1. ASSUME BoardIInv  PROVE OwnPiece
  <2> SUFFICES ASSUME NEW i \in SessionIds, pc[i] \in {"connect", "online"}, i \notin crossed
               PROVE  players[i] # <<>> /\ players[i][1].id = i
    BY DEF OwnPiece
  <2>1. Seated(i) /\ OwnFirst(i)
    BY <1>1 DEF BoardIInv
  <2>2. i \in login /\ pc[i] \in Playing
    BY <2>1 DEF Seated, Playing
  <2> QED  BY <2>1, <2>2 DEF OwnFirst
<1> QED  BY <1>1, BoardInvariance, PTL

(* With nothing on its way the board of a client shows whom the server has, *)
(* each once and where it is, but for those whose last packet it has missed. *)
THEOREM ShowsAllHolds == BoardSpec => []ShowsAll
<1>1. ASSUME BoardIInv  PROVE ShowsAll
  <2> SUFFICES ASSUME NEW i \in SessionIds, pc[i] = "online", down[i] = <<>>, apcs[i] = 0,
                      NEW j \in joined \ missed[i]
               PROVE  /\ Places(players[i], j) = Truth(j)
                      /\ Cardinality({n \in DOMAIN players[i] : players[i][n].id = j}) <= 1
    BY DEF ShowsAll, Truth
  <2>1. BoardTypes /\ Reported(i) /\ Distinct(players[i])
    BY <1>1 DEF BoardIInv
  <2>2. j \in SessionIds
    BY <2>1 DEF BoardTypes
  <2>3. Told(i, j)
    BY <1>1, <2>2 DEF BoardIInv
  <2>4. Quiet(i, j) /\ ~Unread(i, j)
    <3>1. DOMAIN down[i] = {}
      OBVIOUS
    <3> QED  BY <3>1 DEF Quiet, Unread
  <2>5. cnt[i] /\ pc[i] \in Playing
    BY <2>1 DEF Reported, Playing
  <2>6. Places(players[i], j) = Truth(j)
    BY <2>3, <2>4, <2>5 DEF Told
  <2> DEFINE A == {n \in DOMAIN players[i] : players[i][n].id = j}
  <2>7. Cardinality(A) <= 1
    <3>1. CASE A = {}
      <4>1. Cardinality(A) = 0
        BY <3>1, FS_EmptySet
      <4> HIDE DEF A
      <4> QED  BY <4>1
    <3>2. CASE A # {}
      <4>1. PICK n \in A : TRUE
        BY <3>2
      <4>2. A = {n}
        BY <2>1, <4>1 DEF Distinct
      <4> HIDE DEF A
      <4>3. Cardinality({n}) = 1
        BY FS_Singleton
      <4> QED  BY <4>2, <4>3
    <3> QED  BY <3>1, <3>2
  <2> QED  BY <2>6, <2>7
<1> QED  BY <1>1, BoardInvariance, PTL

(* No client waits in either loop of main with nothing on its way.          *)
THEOREM NobodyWaitsHolds == BoardSpec => []NobodyWaits
<1>1. ASSUME BoardIInv  PROVE NobodyWaits
  <2> SUFFICES ASSUME NEW i \in SessionIds, up[i] = <<>>, down[i] = <<>>, apcs[i] = 0
               PROVE  (pc[i] = "login" => i \in login) /\ (pc[i] = "connect" => pp[i].last)
    BY DEF NobodyWaits
  <2>1. Answered(i) /\ apcs[i] \in Nat
    BY <1>1 DEF BoardIInv, BoardTypes
  <2>2. <<>> # <<Letter("login", 0)>> /\ <<>> # <<Letter("connect", 0)>>
        /\ <<>> # <<Letter("login", 0), Letter("connect", 0)>>
    OBVIOUS
  <2> QED  BY <2>1, <2>2 DEF Answered, LastPacket
<1> QED  BY <1>1, BoardInvariance, PTL
=============================================================================
