---------------------------- MODULE CombatProofs ----------------------------
(***************************************************************************)
(* For any number of monsters, any strengths, rewards and bounds: where no *)
(* two threads have crossed on hp, a user keeps between one point and all  *)
(* of its health; where none have crossed on healing, the heal events are  *)
(* counted; where none have crossed on either, a wounded user has one; and *)
(* where none have crossed on exp, the levels are the ones exp has paid.   *)
(***************************************************************************)
EXTENDS Combat, FiniteSetTheorems, TLAPS

USE ThreadAssumption, NumberAssumption

Places == [pc : Pcs, seen : Int, amount : Int]

\* No two threads hold the field f.
Apart(f) == \A t, u \in Threads : f \in Holds(at[t].pc) /\ f \in Holds(at[u].pc) => t = u

-----------------------------------------------------------------------------
(* The values, and who holds what.                                         *)

LEMMA ThresholdIsInt == ASSUME NEW l \in Nat \ {0} PROVE Thr(l) \in Int
BY DEF Thr

LEMMA HalfIsInt == ASSUME NEW n \in Int PROVE Half(n) \in Int
BY DEF Half

LEMMA ShareIsInt == ASSUME NEW n \in Int PROVE n \div HealShare \in Int
OBVIOUS

LEMMA ShareIsNat == ASSUME NEW n \in Nat PROVE n \div HealShare \in Nat
OBVIOUS

LEMMA IdleIsPlace == Idle \in Places /\ Idle.pc = "idle"
BY DEF Idle, Place, Places, Pcs

LEMMA PlaceFields ==
  ASSUME NEW pc, NEW s, NEW a
  PROVE  Place(pc, s, a).pc = pc /\ Place(pc, s, a).seen = s /\ Place(pc, s, a).amount = a
BY DEF Place

LEMMA WhoHolds ==
  ASSUME NEW pc
  PROVE  /\ "hp" \in Holds(pc) <=> pc \in {"store", "revive", "add", "fill", "full", "load"}
         /\ "calm" \in Holds(pc) <=> pc \in {"arm", "flag", "fill", "done", "check", "push", "mark"}
         /\ Holds(pc) \subseteq {"hp", "exp", "calm"}
BY DEF Holds

(* Where a step leaves the threads, and that it keeps them apart.          *)
LEMMA GotoStep ==
  ASSUME TypeOK, NEW t \in Threads, NEW k \in Places, Goto(t, k)
  PROVE  /\ at' \in [Threads -> Places]
         /\ at'[t] = k /\ \A u \in Threads \ {t} : at'[u] = at[u]
         /\ crossed' \subseteq {"hp", "exp", "calm"} /\ crossed \subseteq crossed'
BY WhoHolds DEF Goto, TypeOK, Places

LEMMA GotoApart ==
  ASSUME TypeOK, NEW t \in Threads, NEW k \in Places, Goto(t, k), NEW f, f \notin crossed'
  PROVE  /\ f \in Holds(k.pc) => \A u \in Threads \ {t} : f \notin Holds(at[u].pc)
         /\ Apart(f) => Apart(f)'
<1>1. f \in Holds(k.pc) => \A u \in Threads \ {t} : f \notin Holds(at[u].pc)
  BY DEF Goto
<1>2. at'[t] = k /\ \A u \in Threads \ {t} : at'[u] = at[u]
  BY GotoStep
<1>3. ASSUME Apart(f), NEW u \in Threads, NEW v \in Threads,
             f \in Holds(at'[u].pc), f \in Holds(at'[v].pc)
      PROVE  u = v
  BY <1>1, <1>2, <1>3 DEF Apart
<1>4. QED
  BY <1>1, <1>3 DEF Apart

-----------------------------------------------------------------------------
(* Types.                                                                  *)

LEMMA InitTypes == Init => TypeOK
<1> SUFFICES ASSUME Init PROVE TypeOK
  OBVIOUS
<1>1. at \in [Threads -> Places]
  BY IdleIsPlace DEF Init
<1>2. healing \in BOOLEAN /\ known \in BOOLEAN
  BY Zenon DEF Init
<1>3. /\ hp \in Int /\ max_hp \in Int /\ level \in Nat \ {0} /\ exp \in Int
      /\ heals \in Nat /\ resets \in Nat /\ deeds \in Nat
  BY DEF Init
<1>4. crossed \subseteq {"hp", "exp", "calm"}
  BY DEF Init
<1>5. QED
  BY <1>1, <1>2, <1>3, <1>4, Zenon DEF TypeOK, Places

LEMMA PlaceTypes ==
  ASSUME NEW pc \in Pcs, NEW s \in Int, NEW a \in Int
  PROVE  Place(pc, s, a) \in Places
BY DEF Place, Places

LEMMA LoginNames == "check" \in Pcs /\ "push" \in Pcs /\ 0 \in Int
BY DEF Pcs

LEMMA StrengthIsInt == ASSUME NEW a \in Strength PROVE a \in Int
OBVIOUS

LEMMA Values ==
  ASSUME TypeOK
  PROVE  /\ hp \in Int /\ max_hp \in Int /\ level \in Nat \ {0} /\ exp \in Int
         /\ healing \in BOOLEAN /\ known \in BOOLEAN
         /\ heals \in Nat /\ resets \in Nat /\ deeds \in Nat
         /\ \A t \in Threads : at[t] \in Places /\ at[t].seen \in Int /\ at[t].amount \in Int
BY DEF TypeOK, Places

LEMMA ResetsGrow == ASSUME TypeOK, Cleared PROVE resets' \in Nat /\ resets' >= resets
BY DEF TypeOK, Cleared

(* A step that goes to a place and leaves the rest as typed.               *)
LEMMA StepTypes ==
  ASSUME TypeOK, NEW t \in Threads, NEW k \in Places, Goto(t, k),
         healing' \in BOOLEAN, known' \in BOOLEAN,
         hp' \in Int, max_hp' \in Int, level' \in Nat \ {0}, exp' \in Int,
         heals' \in Nat, resets' \in Nat, deeds' \in Nat
  PROVE  TypeOK'
<1>1. at' \in [Threads -> Places] /\ crossed' \subseteq {"hp", "exp", "calm"}
  BY GotoStep
<1>2. QED
  BY <1>1, Zenon DEF TypeOK, Places

LEMMA HitTypes ==
  ASSUME TypeOK, NEW m \in Monsters, Hit(m) PROVE TypeOK'
<1> m \in Threads
  BY DEF Threads
<1> USE Values
<1>1. CASE HitTest(m)
  <2>1. PICK a \in Strength : Goto(m, Place(IF hp - a > 0 THEN "store" ELSE "die", hp, a))
    BY <1>1 DEF HitTest
  <2>2. (IF hp - a > 0 THEN "store" ELSE "die") \in Pcs
    BY DEF Pcs
  <2>3. Place(IF hp - a > 0 THEN "store" ELSE "die", hp, a) \in Places
    <3>1. a \in Int /\ hp \in Int
      OBVIOUS
    <3> QED
      BY <2>2, <3>1, PlaceTypes
  <2>4. QED
    BY <1>1, <2>1, <2>3, StepTypes DEF HitTest, stats
<1>2. CASE HitStore(m)
  BY <1>2, StepTypes, PlaceTypes DEF HitStore, Pcs, count
<1>3. CASE HitArm(m)
  BY <1>3, StepTypes, PlaceTypes DEF HitArm, Pcs, count, stats
<1>4. CASE HitFlag(m)
  BY <1>4, StepTypes, IdleIsPlace DEF HitFlag, count, stats
<1>5. CASE DieLoad(m)
  BY <1>5, StepTypes, PlaceTypes DEF DieLoad, Pcs, count, stats
<1>6. CASE DieHp(m)
  BY <1>6, StepTypes, PlaceTypes DEF DieHp, Pcs, count
<1>7. CASE DieExp(m)
  BY <1>7, StepTypes, PlaceTypes, HalfIsInt DEF DieExp, Pcs, count
<1>8. CASE DieCalm(m)
  <2>1. resets' \in Nat
    BY <1>8, Zenon, ResetsGrow DEF DieCalm
  <2>2. healing' \in BOOLEAN /\ Goto(m, Idle)
    BY <1>8, Zenon DEF DieCalm
  <2>3. QED
    BY <1>8, <2>1, <2>2, StepTypes, IdleIsPlace DEF DieCalm, count, stats
<1>9. QED
  BY <1>1, <1>2, <1>3, <1>4, <1>5, <1>6, <1>7, <1>8 DEF Hit

LEMMA TimerTypes == ASSUME TypeOK, Timer PROVE TypeOK'
<1> "timer" \in Threads
  BY DEF Threads
<1> USE Values
<1>1. CASE TimerTest
  <2> DEFINE k == IF hp + max_hp \div HealShare < max_hp THEN Place("add", hp, max_hp)
                                                        ELSE Place("fill", 0, max_hp)
  <2>1. k \in Places
    BY PlaceTypes DEF Pcs
  <2>2. Goto("timer", k)
    BY <1>1 DEF TimerTest
  <2> HIDE DEF k
  <2>3. QED
    BY <1>1, <2>1, <2>2, StepTypes DEF TimerTest, count, stats
<1>2. CASE TimerAdd
  BY <1>2, StepTypes, PlaceTypes, ShareIsInt DEF TimerAdd, Pcs, count
<1>3. CASE TimerAgain
  BY <1>3, StepTypes, IdleIsPlace DEF TimerAgain, count, stats
<1>4. CASE TimerFill
  BY <1>4, StepTypes, PlaceTypes DEF TimerFill, Pcs, count
<1>5. CASE TimerCalm
  BY <1>5, StepTypes, IdleIsPlace DEF TimerCalm, count, stats
<1>6. QED
  BY <1>1, <1>2, <1>3, <1>4, <1>5 DEF Timer

LEMMA OwnTypes == ASSUME TypeOK, Own PROVE TypeOK'
<1> "own" \in Threads
  BY DEF Threads
<1> USE Values
<1>1. CASE Kill
  <2>1. PICK r \in Rewards : Goto("own", Place("gain", exp, r * level))
    BY <1>1 DEF Kill
  <2>2. r * level \in Int
    OBVIOUS
  <2>3. Place("gain", exp, r * level) \in Places
    BY <2>2, PlaceTypes DEF Pcs
  <2>4. QED
    BY <1>1, <2>1, <2>3, StepTypes DEF Kill, stats
<1>2. CASE Gain
  BY <1>2, StepTypes, PlaceTypes DEF Gain, Pcs, count
<1>3. CASE LevelTest
  <2>1. (IF exp > Thr(level) THEN Place("up", exp, 0) ELSE Idle) \in Places
    BY PlaceTypes, IdleIsPlace DEF Pcs
  <2>2. QED
    BY <1>3, <2>1, StepTypes DEF LevelTest, count, stats
<1>4. CASE LevelUp
  <2>1. Thr(level) \in Int /\ HpPerLevel * (level + 1) \in Int
    BY ThresholdIsInt
  <2>2. QED
    BY <1>4, <2>1, StepTypes, PlaceTypes DEF LevelUp, Pcs, count
<1>5. CASE LevelHp
  BY <1>5, StepTypes, PlaceTypes DEF LevelHp, Pcs, count
<1>6. CASE Login
  BY <1>6, StepTypes, PlaceTypes DEF Login, Pcs, stats
<1>7. CASE LoginLoad
  <2>1. PICK l \in 1..TopLevel : level' = l /\ max_hp' = HpPerLevel * l /\ hp' \in {1, max_hp'} /\ exp' = 0
    BY <1>7 DEF LoginLoad
  <2>2. HpPerLevel * l \in Int /\ l \in Nat \ {0}
    OBVIOUS
  <2>3. QED
    BY <1>7, <2>1, <2>2, StepTypes, PlaceTypes DEF LoginLoad, Pcs, count
<1>8. CASE LoginClear
  <2>1. resets' \in Nat
    BY <1>8, Zenon, ResetsGrow DEF LoginClear
  <2>2. healing' \in BOOLEAN /\ Goto("own", Place("check", 0, 0))
    BY <1>8, Zenon DEF LoginClear
  <2>3. Place("check", 0, 0) \in Places
    BY PlaceTypes, LoginNames, Zenon
  <2>4. QED
    BY <1>8, <2>1, <2>2, <2>3, StepTypes DEF LoginClear, count, stats
<1>9. CASE LoginCheck
  <2> DEFINE k == IF hp < max_hp THEN Place("push", 0, 0) ELSE Idle
  <2>1. k \in Places
    <3>1. Place("push", 0, 0) \in Places
      BY PlaceTypes, LoginNames, Zenon
    <3>2. QED
      BY <3>1, IdleIsPlace, Zenon
  <2>2. Goto("own", k)
    BY <1>9 DEF LoginCheck
  <2> HIDE DEF k
  <2>3. known' \in BOOLEAN
    BY <1>9 DEF LoginCheck
  <2>4. QED
    BY <1>9, <2>1, <2>2, <2>3, StepTypes DEF LoginCheck, stats
<1>10. CASE LoginPush
  BY <1>10, StepTypes, PlaceTypes DEF LoginPush, Pcs, count, stats
<1>11. CASE LoginMark
  BY <1>11, StepTypes, IdleIsPlace DEF LoginMark, stats
<1>12. QED
  BY <1>1, <1>2, <1>3, <1>4, <1>5, <1>6, <1>7, <1>8, <1>9, <1>10, <1>11 DEF Own

(* Reading again changes one value of the place.                           *)
LEMMA ReloadPlace ==
  ASSUME TypeOK, NEW t \in Threads, Reload(t)
  PROVE  \E k \in Places :
           /\ Goto(t, k) /\ k.pc = at[t].pc /\ k.pc \in {"store", "add", "fill", "up"}
           /\ k.pc = "store" => k.seen = hp /\ k.amount = at[t].amount
           /\ k.pc = "add" => k.seen = hp /\ k.amount = max_hp
           /\ k.pc = "fill" => k.amount = max_hp
           /\ k.pc = "up" => k.seen = exp
<1> USE Values
<1>1. at[t] \in Places /\ at[t].pc \in Pcs
  BY DEF TypeOK, Places
<1>2. CASE at[t].pc = "store" /\ Goto(t, [at[t] EXCEPT !.seen = hp])
  BY <1>1, <1>2 DEF Places
<1>3. CASE at[t].pc = "add" /\ Goto(t, [at[t] EXCEPT !.seen = hp, !.amount = max_hp])
  <2> DEFINE k == [at[t] EXCEPT !.seen = hp, !.amount = max_hp]
  <2>1. k \in Places
    BY <1>1 DEF Places
  <2>2. k.pc = "add" /\ k.seen = hp /\ k.amount = max_hp
    BY <1>1, <1>3 DEF Places
  <2>3. QED
    BY <1>3, <2>1, <2>2
<1>4. CASE at[t].pc = "fill" /\ Goto(t, [at[t] EXCEPT !.amount = max_hp])
  BY <1>1, <1>4 DEF Places
<1>5. CASE at[t].pc = "up" /\ Goto(t, [at[t] EXCEPT !.seen = exp])
  BY <1>1, <1>5 DEF Places
<1>6. QED
  BY <1>2, <1>3, <1>4, <1>5 DEF Reload

LEMMA NextTypes == ASSUME TypeOK, [Next]_vars PROVE TypeOK'
<1>1. ASSUME NEW t \in Threads, Reload(t) PROVE TypeOK'
  <2>1. PICK k \in Places : Goto(t, k)
    BY <1>1, ReloadPlace
  <2>2. QED
    BY <1>1, <2>1, Values, StepTypes DEF Reload, count, stats
<1>2. CASE UNCHANGED vars
  BY <1>2, Zenon DEF TypeOK, vars, stats, count
<1>3. QED
  BY <1>1, <1>2, HitTypes, TimerTypes, OwnTypes DEF Next

\* TypeOK holds in every state of Combat: every place a thread may be at, and
\* every value it may hold, is one of those the code has.
THEOREM TypeCorrect == Spec => []TypeOK
<1>1. QED
  BY InitTypes, NextTypes, PTL DEF Spec
-----------------------------------------------------------------------------
(* Health.  Where no two threads have crossed on hp, what a thread holds   *)
(* is what hp and max_hp still are, so its store is what its test allowed. *)

Fits(k) ==
  /\ k.pc = "store"  => k.seen = hp /\ k.amount > 0 /\ hp > k.amount
  /\ k.pc = "revive" => k.seen = max_hp
  /\ k.pc = "add"    => k.seen = hp /\ k.amount = max_hp /\ hp + max_hp \div HealShare < max_hp
  /\ k.pc = "fill"   => k.amount = max_hp

HpInv ==
  /\ max_hp = HpPerLevel * level
  /\ "hp" \notin crossed => Apart("hp") /\ hp \in 1..max_hp /\ \A t \in Threads : Fits(at[t])

LEMMA LevelsHaveHealth ==
  ASSUME NEW l \in Nat \ {0}
  PROVE  HpPerLevel * l >= 1 /\ HpPerLevel * (l + 1) >= HpPerLevel * l
OBVIOUS

(* A step that leaves hp and max_hp as they are. *)
LEMMA HpQuiet ==
  ASSUME TypeOK, HpInv, NEW t \in Threads, NEW k \in Places, Goto(t, k),
         hp' = hp, max_hp' = max_hp, level' = level, "hp" \notin crossed' => Fits(k)
  PROVE  HpInv'
<1>1. at'[t] = k /\ (\A u \in Threads \ {t} : at'[u] = at[u]) /\ crossed \subseteq crossed'
  BY GotoStep
<1>2. ASSUME "hp" \notin crossed' PROVE Apart("hp")' /\ \A u \in Threads : Fits(at[u])'
  <2>1. "hp" \notin crossed /\ Apart("hp") /\ \A u \in Threads : Fits(at[u])
    BY <1>1, <1>2 DEF HpInv
  <2>2. Apart("hp")'
    BY <1>2, <2>1, GotoApart
  <2>3. ASSUME NEW u \in Threads PROVE Fits(at[u])'
    BY <1>1, <1>2, <2>1 DEF Fits
  <2>4. QED
    BY <2>2, <2>3
<1>3. QED
  BY <1>1, <1>2 DEF HpInv

(* A step that writes one of them: nobody else holds hp then. *)
LEMMA HpWrite ==
  ASSUME TypeOK, HpInv, NEW t \in Threads, NEW k \in Places, Goto(t, k),
         "hp" \in Holds(at[t].pc) \/ "hp" \in Holds(k.pc),
         k.pc \notin {"store", "revive", "add", "fill"},
         max_hp' = HpPerLevel * level', "hp" \notin crossed' => hp' \in 1..max_hp'
  PROVE  HpInv'
<1>1. at'[t] = k /\ (\A u \in Threads \ {t} : at'[u] = at[u]) /\ crossed \subseteq crossed'
  BY GotoStep
<1>2. ASSUME "hp" \notin crossed' PROVE Apart("hp")' /\ \A u \in Threads : Fits(at[u])'
  <2>1. "hp" \notin crossed /\ Apart("hp")
    BY <1>1, <1>2 DEF HpInv
  <2>2. Apart("hp")'
    BY <1>2, <2>1, GotoApart
  <2>3. ASSUME NEW u \in Threads \ {t} PROVE at[u].pc \notin {"store", "revive", "add", "fill"}
    <3>1. "hp" \notin Holds(at[u].pc)
      BY <1>2, <2>1, GotoApart DEF Apart
    <3>2. QED
      BY <3>1, WhoHolds
  <2>4. ASSUME NEW u \in Threads PROVE Fits(at[u])'
    BY <1>1, <2>3 DEF Fits
  <2>5. QED
    BY <2>2, <2>4
<1>3. QED
  BY <1>2 DEF HpInv

LEMMA InitHp == Init => HpInv
<1> SUFFICES ASSUME Init PROVE HpInv
  OBVIOUS
<1>1. max_hp = HpPerLevel * level /\ hp \in 1..max_hp
  BY LevelsHaveHealth DEF Init
<1>2. \A t \in Threads : at[t].pc = "idle"
  BY IdleIsPlace DEF Init
<1>3. Apart("hp") /\ \A t \in Threads : Fits(at[t])
  BY <1>2, WhoHolds DEF Apart, Fits
<1>4. QED
  BY <1>1, <1>3 DEF HpInv

Others == Pcs \ {"store", "revive", "add", "fill"}

LEMMA OtherNames ==
  /\ "arm" \in Others /\ "flag" \in Others /\ "die" \in Others /\ "halve" \in Others
  /\ "calm" \in Others /\ "again" \in Others /\ "done" \in Others /\ "gain" \in Others
  /\ "test" \in Others /\ "up" \in Others /\ "full" \in Others /\ "load" \in Others
  /\ "clear" \in Others /\ "check" \in Others /\ "push" \in Others /\ "mark" \in Others
BY DEF Others, Pcs

LEMMA HeldNames == "store" \in Pcs /\ "revive" \in Pcs /\ "add" \in Pcs /\ "fill" \in Pcs
BY DEF Pcs

(* A place that is none of the four of Fits fits. *)
LEMMA FitsElsewhere ==
  ASSUME NEW pc \in Others, NEW s \in Int, NEW a \in Int
  PROVE  Place(pc, s, a) \in Places /\ Place(pc, s, a).pc = pc /\ Fits(Place(pc, s, a))
<1>1. pc \in Pcs /\ pc \notin {"store", "revive", "add", "fill"}
  BY DEF Others
<1>2. QED
  BY <1>1, PlaceTypes, PlaceFields DEF Fits

LEMMA IdleFits == Fits(Idle)
BY IdleIsPlace DEF Fits

LEMMA HitHp ==
  ASSUME TypeOK, HpInv, NEW m \in Monsters, Hit(m) PROVE HpInv'
<1> m \in Threads
  BY DEF Threads
<1> USE Values
<1>1. CASE HitTest(m)
  <2>1. PICK a \in Strength : Goto(m, Place(IF hp - a > 0 THEN "store" ELSE "die", hp, a))
    BY <1>1 DEF HitTest
  <2>2. CASE hp - a > 0
    <3>1. Goto(m, Place("store", hp, a))
      BY <2>1, <2>2, Zenon
    <3>2. Place("store", hp, a) \in Places
      BY HeldNames, PlaceTypes, StrengthIsInt, Zenon
    <3>3. Fits(Place("store", hp, a))
      BY <2>2, PlaceFields DEF Fits
    <3>4. QED
      BY <1>1, <3>1, <3>2, <3>3, HpQuiet DEF HitTest, stats
  <2>3. CASE ~(hp - a > 0)
    <3>1. Goto(m, Place("die", hp, a))
      BY <2>1, <2>3, Zenon
    <3>2. Place("die", hp, a) \in Places /\ Fits(Place("die", hp, a))
      BY OtherNames, FitsElsewhere, StrengthIsInt, Zenon
    <3>3. QED
      BY <1>1, <3>1, <3>2, HpQuiet DEF HitTest, stats
  <2>4. QED
    BY <2>2, <2>3
<1>2. CASE HitStore(m)
  <2>1. Place("arm", 0, 0) \in Places /\ Place("arm", 0, 0).pc = "arm"
    BY OtherNames, FitsElsewhere, LoginNames, Zenon
  <2>2. "hp" \in Holds(at[m].pc) /\ Goto(m, Place("arm", 0, 0))
    BY <1>2, WhoHolds DEF HitStore
  <2>3. "hp" \notin crossed' => hp' \in 1..max_hp'
    BY <1>2, <2>1, <2>2, GotoStep DEF HitStore, HpInv, Fits
  <2>4. QED
    BY <1>2, <2>1, <2>2, <2>3, HpWrite DEF HitStore, HpInv
<1>3. CASE HitArm(m)
  BY <1>3, HpQuiet, FitsElsewhere, OtherNames DEF HitArm, stats
<1>4. CASE HitFlag(m)
  BY <1>4, HpQuiet, IdleIsPlace, IdleFits DEF HitFlag, stats
<1>5. CASE DieLoad(m)
  <2>1. Place("revive", max_hp, 0) \in Places
    BY HeldNames, PlaceTypes
  <2>2. Fits(Place("revive", max_hp, 0))
    BY PlaceFields DEF Fits
  <2>3. QED
    BY <1>5, <2>1, <2>2, HpQuiet DEF DieLoad, stats
<1>6. CASE DieHp(m)
  <2>1. Place("halve", exp, 0) \in Places /\ Place("halve", exp, 0).pc = "halve"
    BY OtherNames, FitsElsewhere
  <2>2. "hp" \in Holds(at[m].pc) /\ Goto(m, Place("halve", exp, 0))
    BY <1>6, WhoHolds DEF DieHp
  <2>3. "hp" \notin crossed' => hp' \in 1..max_hp'
    BY <1>6, <2>1, <2>2, GotoStep DEF DieHp, HpInv, Fits
  <2>4. QED
    BY <1>6, <2>1, <2>2, <2>3, HpWrite DEF DieHp, HpInv
<1>7. CASE DieExp(m)
  BY <1>7, HpQuiet, FitsElsewhere, OtherNames DEF DieExp
<1>8. CASE DieCalm(m)
  <2>1. Goto(m, Idle) /\ UNCHANGED stats
    BY <1>8, Zenon DEF DieCalm, stats
  <2>2. QED
    BY <2>1, HpQuiet, IdleIsPlace, IdleFits DEF stats
<1>9. QED
  BY <1>1, <1>2, <1>3, <1>4, <1>5, <1>6, <1>7, <1>8 DEF Hit

LEMMA TimerHp == ASSUME TypeOK, HpInv, Timer PROVE HpInv'
<1> "timer" \in Threads
  BY DEF Threads
<1> USE Values
<1>1. CASE TimerTest
  <2>1. CASE hp + max_hp \div HealShare < max_hp
    <3>1. Goto("timer", Place("add", hp, max_hp))
      BY <1>1, <2>1, Zenon DEF TimerTest
    <3>2. Place("add", hp, max_hp) \in Places
      BY HeldNames, PlaceTypes
    <3>3. Fits(Place("add", hp, max_hp))
      BY <2>1, PlaceFields DEF Fits
    <3>4. QED
      BY <1>1, <3>1, <3>2, <3>3, HpQuiet DEF TimerTest, stats
  <2>2. CASE ~(hp + max_hp \div HealShare < max_hp)
    <3>1. Goto("timer", Place("fill", 0, max_hp))
      BY <1>1, <2>2, Zenon DEF TimerTest
    <3>2. Place("fill", 0, max_hp) \in Places
      BY HeldNames, PlaceTypes
    <3>3. Fits(Place("fill", 0, max_hp))
      BY PlaceFields DEF Fits
    <3>4. QED
      BY <1>1, <3>1, <3>2, <3>3, HpQuiet DEF TimerTest, stats
  <2>3. QED
    BY <2>1, <2>2
<1>2. CASE TimerAdd
  <2>1. Place("again", 0, 0) \in Places /\ Place("again", 0, 0).pc = "again"
    BY OtherNames, FitsElsewhere
  <2>2. "hp" \in Holds(at["timer"].pc) /\ Goto("timer", Place("again", 0, 0))
    BY <1>2, WhoHolds DEF TimerAdd
  <2>3. ASSUME "hp" \notin crossed' PROVE hp' \in 1..max_hp'
    <3>1. hp \in 1..max_hp /\ Fits(at["timer"])
      BY <2>1, <2>2, <2>3, GotoStep DEF HpInv
    <3>2. hp' = hp + max_hp \div HealShare /\ hp' < max_hp /\ max_hp' = max_hp
      BY <1>2, <3>1 DEF TimerAdd, Fits
    <3>3. max_hp \div HealShare \in Nat
      BY <3>1, ShareIsNat
    <3>4. QED
      BY <3>1, <3>2, <3>3
  <2>4. QED
    BY <1>2, <2>1, <2>2, <2>3, HpWrite DEF TimerAdd, HpInv
<1>3. CASE TimerAgain
  BY <1>3, HpQuiet, IdleIsPlace, IdleFits DEF TimerAgain, stats
<1>4. CASE TimerFill
  <2>1. Place("done", 0, 0) \in Places /\ Place("done", 0, 0).pc = "done"
    BY OtherNames, FitsElsewhere, LoginNames, Zenon
  <2>2. "hp" \in Holds(at["timer"].pc) /\ Goto("timer", Place("done", 0, 0))
    BY <1>4, WhoHolds DEF TimerFill
  <2>3. "hp" \notin crossed' => hp' \in 1..max_hp'
    BY <1>4, <2>1, <2>2, GotoStep DEF TimerFill, HpInv, Fits
  <2>4. QED
    BY <1>4, <2>1, <2>2, <2>3, HpWrite DEF TimerFill, HpInv
<1>5. CASE TimerCalm
  BY <1>5, HpQuiet, IdleIsPlace, IdleFits DEF TimerCalm, stats
<1>6. QED
  BY <1>1, <1>2, <1>3, <1>4, <1>5 DEF Timer

LEMMA OwnHp == ASSUME TypeOK, HpInv, Own PROVE HpInv'
<1> "own" \in Threads
  BY DEF Threads
<1> USE Values
<1>1. CASE Kill
  <2>1. PICK r \in Rewards : Goto("own", Place("gain", exp, r * level))
    BY <1>1 DEF Kill
  <2>2. r * level \in Int
    OBVIOUS
  <2>3. Place("gain", exp, r * level) \in Places /\ Fits(Place("gain", exp, r * level))
    BY <2>2, OtherNames, FitsElsewhere
  <2>4. QED
    BY <1>1, <2>1, <2>3, HpQuiet DEF Kill, stats
<1>2. CASE Gain
  BY <1>2, HpQuiet, FitsElsewhere, OtherNames DEF Gain
<1>3. CASE LevelTest
  <2>1. Place("up", exp, 0) \in Places /\ Fits(Place("up", exp, 0))
    BY OtherNames, FitsElsewhere
  <2>2. Goto("own", Place("up", exp, 0)) \/ Goto("own", Idle)
    BY <1>3, Zenon DEF LevelTest
  <2>3. UNCHANGED stats
    BY <1>3 DEF LevelTest
  <2>4. QED
    BY <2>1, <2>2, <2>3, HpQuiet, IdleIsPlace, IdleFits DEF stats
<1>4. CASE LevelUp
  <2>1. Place("full", 0, 0) \in Places /\ Place("full", 0, 0).pc = "full"
    BY OtherNames, FitsElsewhere, LoginNames, Zenon
  <2>2. "hp" \in Holds("full") /\ Goto("own", Place("full", 0, 0))
    BY <1>4, WhoHolds DEF LevelUp
  <2>3. max_hp' = HpPerLevel * level' /\ max_hp' >= HpPerLevel * level /\ hp' = hp /\ max_hp' \in Int
    BY <1>4, LevelsHaveHealth DEF LevelUp
  <2>4. "hp" \notin crossed' => hp' \in 1..max_hp'
    BY <2>1, <2>2, <2>3, GotoStep DEF HpInv
  <2>5. QED
    BY <2>1, <2>2, <2>3, <2>4, HpWrite
<1>5. CASE LevelHp
  <2>1. Place("test", 0, 0) \in Places /\ Place("test", 0, 0).pc = "test"
    BY OtherNames, FitsElsewhere, LoginNames, Zenon
  <2>2. "hp" \in Holds(at["own"].pc) /\ Goto("own", Place("test", 0, 0))
    BY <1>5, WhoHolds DEF LevelHp
  <2>3. hp' = max_hp /\ max_hp' = max_hp /\ level' = level
    BY <1>5 DEF LevelHp
  <2>4. "hp" \notin crossed' => hp' \in 1..max_hp'
    BY <2>1, <2>2, <2>3, GotoStep DEF HpInv
  <2>5. QED
    BY <2>1, <2>2, <2>3, <2>4, HpWrite DEF HpInv
<1>6. CASE Login
  BY <1>6, HpQuiet, FitsElsewhere, OtherNames DEF Login, stats
<1>7. CASE LoginLoad
  <2>1. Place("clear", 0, 0) \in Places /\ Place("clear", 0, 0).pc = "clear"
    BY OtherNames, FitsElsewhere
  <2>2. "hp" \in Holds(at["own"].pc) /\ Goto("own", Place("clear", 0, 0))
    BY <1>7, WhoHolds DEF LoginLoad
  <2>3. PICK l \in 1..TopLevel : level' = l /\ max_hp' = HpPerLevel * l /\ hp' \in {1, max_hp'}
    BY <1>7 DEF LoginLoad
  <2>4. max_hp' = HpPerLevel * level' /\ hp' \in 1..max_hp'
    <3>1. HpPerLevel * l >= 1 /\ HpPerLevel * l \in Int
      BY LevelsHaveHealth
    <3>2. QED
      BY <2>3, <3>1
  <2>5. QED
    BY <2>1, <2>2, <2>4, HpWrite
<1>8. CASE LoginClear
  <2>1. Goto("own", Place("check", 0, 0)) /\ UNCHANGED stats
    BY <1>8, Zenon DEF LoginClear, stats
  <2>2. QED
    BY <2>1, HpQuiet, FitsElsewhere, OtherNames DEF stats
<1>9. CASE LoginCheck
  <2>1. Place("push", 0, 0) \in Places /\ Fits(Place("push", 0, 0))
    BY OtherNames, FitsElsewhere
  <2>2. Goto("own", Place("push", 0, 0)) \/ Goto("own", Idle)
    BY <1>9, Zenon DEF LoginCheck
  <2>3. UNCHANGED stats
    BY <1>9 DEF LoginCheck
  <2>4. QED
    BY <2>1, <2>2, <2>3, HpQuiet, IdleIsPlace, IdleFits DEF stats
<1>10. CASE LoginPush
  BY <1>10, HpQuiet, FitsElsewhere, OtherNames DEF LoginPush, stats
<1>11. CASE LoginMark
  BY <1>11, HpQuiet, IdleIsPlace, IdleFits DEF LoginMark, stats
<1>12. QED
  BY <1>1, <1>2, <1>3, <1>4, <1>5, <1>6, <1>7, <1>8, <1>9, <1>10, <1>11 DEF Own

LEMMA NextHp == ASSUME TypeOK, HpInv, [Next]_vars PROVE HpInv'
<1>1. ASSUME NEW t \in Threads, Reload(t) PROVE HpInv'
  <2>1. PICK k \in Places :
           /\ Goto(t, k) /\ k.pc = at[t].pc /\ k.pc \in {"store", "add", "fill", "up"}
           /\ k.pc = "store" => k.seen = hp /\ k.amount = at[t].amount
           /\ k.pc = "add" => k.seen = hp /\ k.amount = max_hp
           /\ k.pc = "fill" => k.amount = max_hp
    BY <1>1, ReloadPlace
  <2>2. ASSUME "hp" \notin crossed' PROVE Fits(k)
    <3>1. Fits(at[t])
      BY <2>1, <2>2, GotoStep DEF HpInv
    <3>2. QED
      BY <2>1, <3>1 DEF Fits
  <2>3. UNCHANGED stats
    BY <1>1 DEF Reload
  <2>4. QED
    BY <2>1, <2>2, <2>3, HpQuiet DEF stats
<1>2. CASE UNCHANGED vars
  BY <1>2 DEF HpInv, Apart, Fits, vars, stats
<1>3. QED
  BY <1>1, <1>2, HitHp, TimerHp, OwnHp DEF Next

LEMMA HpInvHolds == Spec => [](TypeOK /\ HpInv)
<1>1. QED
  BY InitTypes, NextTypes, InitHp, NextHp, PTL DEF Spec

\* LifeLeft: however many monsters strike a user, whatever their strength, the
\* hit that takes the last point kills (API_ChangeStat), unless two threads
\* worked on hp at the same time.
THEOREM LifeLeftHolds == Spec => []LifeLeft
<1>1. TypeOK /\ HpInv => LifeLeft
  BY DEF HpInv, LifeLeft, TypeOK
<1>2. QED
  BY <1>1, HpInvHolds, PTL

\* NoOverheal: whatever share of the health a heal event gives (do_timer) and
\* whatever levels are gained meanwhile, hp does not pass max_hp.
THEOREM NoOverhealHolds == Spec => []NoOverheal
<1>1. TypeOK /\ HpInv => NoOverheal
  BY DEF HpInv, NoOverheal, TypeOK
<1>2. QED
  BY <1>1, HpInvHolds, PTL
-----------------------------------------------------------------------------
(* Chains of heal events.                                                  *)

\* The slot is taken to be healing, or is about to be.
Believed == healing \/ \E t \in Threads : at[t].pc \in {"flag", "mark"}

CalmInv ==
  "calm" \notin crossed =>
    /\ Apart("calm")
    /\ at["own"].pc \in {"check", "push"} => ~healing
    /\ Chains <= resets + (IF Believed THEN 1 ELSE 0)

LEMMA ChainsIsNat ==
  ASSUME TypeOK
  PROVE  Chains \in Nat /\ (at["timer"].pc # "idle" => Chains = heals + 1) /\ Chains >= heals
BY IdleIsPlace DEF TypeOK, Chains

(* Only the timer, and who queues an event, change the number of chains. *)
LEMMA ChainsSame ==
  ASSUME TypeOK, NEW t \in Threads \ {"timer"}, NEW k \in Places, Goto(t, k)
  PROVE  (heals' = heals => Chains' = Chains) /\ (heals' = heals + 1 => Chains' = Chains + 1)
<1>1. at'["timer"] = at["timer"]
  BY GotoStep DEF Threads
<1>2. QED
  BY <1>1, Values DEF Chains

LEMMA TimerChains ==
  ASSUME TypeOK, Timer
  PROVE  /\ ~TimerCalm => Chains' = Chains
         /\ TimerCalm => Chains' = Chains - 1
<1> "timer" \in Threads
  BY DEF Threads
<1> USE Values, IdleIsPlace, HeldNames, OtherNames
<1>1. CASE TimerTest
  <2>1. Chains = heals
    BY <1>1 DEF TimerTest, Chains
  <2>2. \E pc \in {"add", "fill"}, s \in Int : at'["timer"] = Place(pc, s, max_hp)
    <3>1. Goto("timer", Place("add", hp, max_hp)) \/ Goto("timer", Place("fill", 0, max_hp))
      BY <1>1, Zenon DEF TimerTest
    <3>2. Place("add", hp, max_hp) \in Places /\ Place("fill", 0, max_hp) \in Places
      BY PlaceTypes
    <3>3. QED
      BY <3>1, <3>2, GotoStep
  <2>3. at'["timer"].pc # "idle"
    BY <2>2, PlaceFields
  <2>4. at'["timer"] # Idle
    BY <2>3
  <2>5. heals' = heals - 1
    BY <1>1 DEF TimerTest
  <2>6. Chains' = heals
    BY <2>4, <2>5 DEF Chains
  <2>7. ~TimerCalm
    BY <1>1 DEF TimerTest, TimerCalm
  <2>8. QED
    BY <2>1, <2>6, <2>7
<1>2. CASE TimerAdd
  <2>1. at'["timer"] = Place("again", 0, 0)
    BY <1>2, GotoStep, PlaceTypes DEF TimerAdd, Others
  <2>2. at'["timer"] # Idle /\ at["timer"] # Idle /\ heals' = heals /\ ~TimerCalm
    BY <1>2, <2>1, PlaceFields DEF TimerAdd, TimerCalm
  <2>3. QED
    BY <2>2 DEF Chains
<1>3. CASE TimerAgain
  <2>1. at'["timer"] = Idle /\ at["timer"] # Idle /\ heals' = heals + 1 /\ ~TimerCalm
    BY <1>3, GotoStep DEF TimerAgain, TimerCalm
  <2>2. QED
    BY <2>1 DEF Chains
<1>4. CASE TimerFill
  <2>1. at'["timer"] = Place("done", 0, 0)
    BY <1>4, GotoStep, PlaceTypes DEF TimerFill, Others
  <2>2. at'["timer"] # Idle /\ at["timer"] # Idle /\ heals' = heals /\ ~TimerCalm
    BY <1>4, <2>1, PlaceFields DEF TimerFill, TimerCalm
  <2>3. QED
    BY <2>2 DEF Chains
<1>5. CASE TimerCalm
  <2>1. at'["timer"] = Idle /\ at["timer"] # Idle /\ heals' = heals
    BY <1>5, GotoStep DEF TimerCalm
  <2>2. QED
    BY <1>5, <2>1 DEF Chains
<1>6. QED
  BY <1>1, <1>2, <1>3, <1>4, <1>5 DEF Timer

(* What a step has to show for CalmInv. *)
LEMMA CalmStep ==
  ASSUME TypeOK, CalmInv, NEW t \in Threads, NEW k \in Places, Goto(t, k),
         "calm" \notin crossed' =>
            /\ at'["own"].pc \in {"check", "push"} => ~healing'
            /\ Chains' <= resets' + (IF Believed' THEN 1 ELSE 0)
  PROVE  CalmInv'
<1>1. "calm" \notin crossed' => Apart("calm")'
  BY GotoStep, GotoApart DEF CalmInv
<1>2. QED
  BY <1>1 DEF CalmInv

LEMMA CalmQuiet ==
  ASSUME TypeOK, CalmInv, NEW t \in Threads, NEW k \in Places, Goto(t, k),
         k.pc \notin {"flag", "mark", "check", "push"}, at[t].pc \notin {"flag", "mark"},
         healing' = healing, resets' = resets, Chains' = Chains
  PROVE  CalmInv'
<1>1. at'[t] = k /\ (\A u \in Threads \ {t} : at'[u] = at[u]) /\ crossed \subseteq crossed'
  BY GotoStep
<1>2. Believed' = Believed
  <2>1. \A u \in Threads : at'[u].pc \in {"flag", "mark"} <=> at[u].pc \in {"flag", "mark"}
    BY <1>1
  <2>2. QED
    BY <2>1, Zenon DEF Believed
<1>3. at'["own"].pc \in {"check", "push"} => at["own"].pc \in {"check", "push"}
  BY <1>1 DEF Threads
<1>4. QED
  BY <1>1, <1>2, <1>3, CalmStep DEF CalmInv

(* A thread that holds healing is the only one near it. *)
LEMMA CalmAlone ==
  ASSUME TypeOK, CalmInv, NEW t \in Threads, "calm" \in Holds(at[t].pc), "calm" \notin crossed,
         NEW u \in Threads \ {t}
  PROVE  at[u].pc \notin {"arm", "flag", "fill", "done", "check", "push", "mark"}
BY WhoHolds DEF CalmInv, Apart

LEMMA InitCalm == Init => CalmInv
<1> SUFFICES ASSUME Init PROVE CalmInv
  OBVIOUS
<1>1. \A t \in Threads : at[t] = Idle /\ at[t].pc = "idle"
  BY IdleIsPlace DEF Init
<1>2. Apart("calm")
  BY <1>1, WhoHolds DEF Apart
<1>3. ~healing /\ heals = 0 /\ resets = 0
  BY Zenon DEF Init
<1>4. Chains = 0 /\ ~Believed
  BY <1>1, <1>3 DEF Chains, Believed, Threads
<1>5. QED
  BY <1>2, <1>3, <1>4 DEF CalmInv

LEMMA HitCalm ==
  ASSUME TypeOK, CalmInv, NEW m \in Monsters, Hit(m) PROVE CalmInv'
<1> m \in Threads /\ m \in Threads \ {"timer"} /\ m # "own" /\ "own" \in Threads
  BY ThreadAssumption DEF Threads
<1> USE Values
<1>1. ASSUME NEW k \in Places, Goto(m, k), k.pc \notin {"flag", "mark", "check", "push"},
             at[m].pc \notin {"flag", "mark"}, healing' = healing, resets' = resets, heals' = heals
      PROVE  CalmInv'
  BY <1>1, ChainsSame, CalmQuiet
<1>2. CASE HitTest(m)
  <2>1. PICK a \in Strength : Goto(m, Place(IF hp - a > 0 THEN "store" ELSE "die", hp, a))
    BY <1>2 DEF HitTest
  <2>2. PICK pc \in {"store", "die"} : Goto(m, Place(pc, hp, a))
    BY <2>1, Zenon
  <2>3. Place(pc, hp, a) \in Places /\ Place(pc, hp, a).pc = pc
    BY HeldNames, OtherNames, PlaceTypes, PlaceFields DEF Others
  <2>4. at[m].pc = "idle"
    BY <1>2, IdleIsPlace DEF HitTest
  <2>5. QED
    BY <1>1, <1>2, <2>2, <2>3, <2>4 DEF HitTest
<1>3. CASE HitStore(m)
  BY <1>1, <1>3, FitsElsewhere, OtherNames DEF HitStore
<1>4. CASE HitArm(m)
  <2> DEFINE k == Place("flag", 0, 0)
  <2>1. k \in Places /\ k.pc = "flag"
    BY FitsElsewhere, OtherNames
  <2> HIDE DEF k
  <2>2. Goto(m, k) /\ healing' = healing /\ resets' = resets
    BY <1>4 DEF HitArm, count, k
  <2>3. at'[m].pc = "flag" /\ (\A u \in Threads \ {m} : at'[u] = at[u]) /\ crossed \subseteq crossed'
    BY <2>1, <2>2, GotoStep
  <2>4. Believed'
    BY <2>3 DEF Believed
  <2>5. ASSUME "calm" \notin crossed' PROVE Chains' <= resets' + 1
    <3>1. "calm" \notin crossed /\ Chains <= resets + (IF Believed THEN 1 ELSE 0)
      BY <2>3, <2>5 DEF CalmInv
    <3>2. CASE healing
      <4>1. heals' = heals
        BY <1>4, <3>2 DEF HitArm
      <4>2. Chains' = Chains /\ Chains \in Nat
        BY <2>1, <2>2, <4>1, ChainsSame, ChainsIsNat
      <4>3. QED
        BY <2>2, <3>1, <4>2
    <3>3. CASE ~healing
      <4>1. heals' = heals + 1
        BY <1>4, <3>3 DEF HitArm
      <4>2. Chains' = Chains + 1 /\ Chains \in Nat
        BY <2>1, <2>2, <4>1, ChainsSame, ChainsIsNat
      <4>3. at[m].pc = "arm" /\ "calm" \in Holds(at[m].pc)
        BY <1>4, WhoHolds DEF HitArm
      <4>4. \A u \in Threads : at[u].pc \notin {"flag", "mark"}
        BY <3>1, <4>3, CalmAlone
      <4>5. ~Believed
        BY <3>3, <4>4 DEF Believed
      <4>6. QED
        BY <2>2, <3>1, <4>2, <4>5
    <3>4. QED
      BY <3>2, <3>3
  <2>6. ASSUME "calm" \notin crossed' PROVE at'["own"].pc \in {"check", "push"} => ~healing'
    BY <2>2, <2>3, <2>6 DEF CalmInv
  <2>7. QED
    BY <2>1, <2>2, <2>4, <2>5, <2>6, CalmStep
<1>5. CASE HitFlag(m)
  <2>1. Goto(m, Idle) /\ heals' = heals /\ resets' = resets /\ healing' = TRUE /\ at[m].pc = "flag"
    BY <1>5 DEF HitFlag, count
  <2>2. (\A u \in Threads \ {m} : at'[u] = at[u]) /\ crossed \subseteq crossed' /\ Chains' = Chains
    BY <2>1, GotoStep, IdleIsPlace, ChainsSame
  <2>3. Believed' /\ Believed
    BY <2>1 DEF Believed
  <2>4. ASSUME "calm" \notin crossed' PROVE at'["own"].pc \notin {"check", "push"}
    <3>1. "calm" \notin crossed /\ "calm" \in Holds(at[m].pc)
      BY <2>1, <2>2, <2>4, WhoHolds
    <3>2. at["own"].pc \notin {"check", "push"} /\ at'["own"] = at["own"]
      BY <2>2, <3>1, CalmAlone
    <3>3. QED
      BY <3>2
  <2>5. "calm" \notin crossed' => Chains' <= resets' + 1
    BY <2>1, <2>2, <2>3 DEF CalmInv
  <2>6. QED
    BY <2>1, <2>3, <2>4, <2>5, CalmStep, IdleIsPlace
<1>6. CASE DieLoad(m)
  <2>1. Place("revive", max_hp, 0) \in Places /\ Place("revive", max_hp, 0).pc = "revive"
    BY HeldNames, PlaceTypes, PlaceFields
  <2>2. QED
    BY <1>1, <1>6, <2>1 DEF DieLoad
<1>7. CASE DieHp(m)
  BY <1>1, <1>7, FitsElsewhere, OtherNames DEF DieHp
<1>8. CASE DieExp(m)
  BY <1>1, <1>8, FitsElsewhere, OtherNames DEF DieExp
<1>9. CASE DieCalm(m)
  <2>1. Goto(m, Idle) /\ heals' = heals /\ healing' = FALSE /\ Cleared
    BY <1>9, Zenon DEF DieCalm
  <2>2. (\A u \in Threads \ {m} : at'[u] = at[u]) /\ crossed \subseteq crossed' /\ Chains' = Chains
    BY <2>1, GotoStep, IdleIsPlace, ChainsSame
  <2>3. Chains \in Nat
    BY ChainsIsNat
  <2>4. "calm" \notin crossed' => Chains' <= resets'
    BY <2>1, <2>2, <2>3 DEF Cleared, CalmInv
  <2>5. resets' \in Nat /\ Chains' \in Nat
    BY <2>1, <2>2, <2>3, ResetsGrow
  <2>6. "calm" \notin crossed' => Chains' <= resets' + (IF Believed' THEN 1 ELSE 0)
    BY <2>4, <2>5
  <2>7. ~healing'
    BY <2>1, Zenon
  <2>8. QED
    BY <2>1, <2>6, <2>7, CalmStep, IdleIsPlace, Zenon
<1>10. QED
  BY <1>2, <1>3, <1>4, <1>5, <1>6, <1>7, <1>8, <1>9 DEF Hit

LEMMA TimerCalmInv == ASSUME TypeOK, CalmInv, Timer PROVE CalmInv'
<1> "timer" \in Threads /\ "own" \in Threads \ {"timer"}
  BY DEF Threads
<1> USE Values
<1>1. ASSUME NEW k \in Places, Goto("timer", k), k.pc \notin {"flag", "mark", "check", "push"},
             at["timer"].pc \notin {"flag", "mark"}, healing' = healing, resets' = resets, ~TimerCalm
      PROVE  CalmInv'
  BY <1>1, TimerChains, CalmQuiet
<1>2. CASE TimerTest
  <2>1. PICK pc \in {"add", "fill"}, s \in Int : Goto("timer", Place(pc, s, max_hp))
    <3>1. Goto("timer", Place("add", hp, max_hp)) \/ Goto("timer", Place("fill", 0, max_hp))
      BY <1>2, Zenon DEF TimerTest
    <3>2. QED
      BY <3>1
  <2>2. Place(pc, s, max_hp) \in Places /\ Place(pc, s, max_hp).pc = pc
    BY HeldNames, PlaceTypes, PlaceFields
  <2>3. at["timer"].pc = "idle"
    BY <1>2, IdleIsPlace DEF TimerTest
  <2>4. ~TimerCalm
    BY <2>3 DEF TimerCalm
  <2>5. QED
    BY <1>1, <1>2, <2>1, <2>2, <2>3, <2>4 DEF TimerTest, count
<1>3. CASE TimerAdd
  BY <1>1, <1>3, FitsElsewhere, OtherNames DEF TimerAdd, TimerCalm
<1>4. CASE TimerAgain
  BY <1>1, <1>4, IdleIsPlace DEF TimerAgain, TimerCalm
<1>5. CASE TimerFill
  BY <1>1, <1>5, FitsElsewhere, OtherNames DEF TimerFill, TimerCalm
<1>6. CASE TimerCalm
  <2>1. Goto("timer", Idle) /\ healing' = FALSE /\ resets' = resets /\ Chains' = Chains - 1
    BY <1>6, TimerChains DEF TimerCalm, count
  <2>2. crossed \subseteq crossed' /\ Chains \in Nat
    BY <2>1, GotoStep, IdleIsPlace, ChainsIsNat
  <2>3. "calm" \notin crossed' => Chains' <= resets'
    BY <2>1, <2>2 DEF CalmInv
  <2>4. Chains' \in Int
    BY <2>1, <2>2
  <2>5. QED
    BY <2>1, <2>3, <2>4, CalmStep, IdleIsPlace
<1>7. QED
  BY <1>2, <1>3, <1>4, <1>5, <1>6 DEF Timer

LEMMA OwnCalm == ASSUME TypeOK, CalmInv, Own PROVE CalmInv'
<1> "own" \in Threads /\ "own" \in Threads \ {"timer"}
  BY DEF Threads
<1> USE Values
<1>1. ASSUME NEW k \in Places, Goto("own", k), k.pc \notin {"flag", "mark", "check", "push"},
             at["own"].pc \notin {"flag", "mark"}, healing' = healing, resets' = resets, heals' = heals
      PROVE  CalmInv'
  BY <1>1, ChainsSame, CalmQuiet
<1>2. CASE Kill
  <2>1. PICK r \in Rewards : Goto("own", Place("gain", exp, r * level))
    BY <1>2 DEF Kill
  <2>2. r * level \in Int
    OBVIOUS
  <2>3. Place("gain", exp, r * level) \in Places /\ Place("gain", exp, r * level).pc = "gain"
    BY <2>2, FitsElsewhere, OtherNames
  <2>4. at["own"].pc = "idle"
    BY <1>2, IdleIsPlace DEF Kill
  <2>5. QED
    BY <1>1, <1>2, <2>1, <2>3, <2>4 DEF Kill
<1>3. CASE Gain
  BY <1>1, <1>3, FitsElsewhere, OtherNames DEF Gain, count
<1>4. CASE LevelTest
  <2>1. Place("up", exp, 0) \in Places /\ Place("up", exp, 0).pc = "up"
    BY FitsElsewhere, OtherNames
  <2>2. Goto("own", Place("up", exp, 0)) \/ Goto("own", Idle)
    BY <1>4, Zenon DEF LevelTest
  <2>3. QED
    BY <1>1, <1>4, <2>1, <2>2, IdleIsPlace DEF LevelTest, count
<1>5. CASE LevelUp
  BY <1>1, <1>5, FitsElsewhere, OtherNames DEF LevelUp, count
<1>6. CASE LevelHp
  <2>1. /\ Goto("own", Place("test", 0, 0)) /\ at["own"].pc = "full"
        /\ healing' = healing /\ resets' = resets /\ heals' = heals
    BY <1>6 DEF LevelHp
  <2>2. Place("test", 0, 0) \in Places /\ Place("test", 0, 0).pc = "test"
    BY OtherNames, FitsElsewhere, LoginNames, Zenon
  <2>3. QED
    BY <1>1, <2>1, <2>2
<1>7. CASE Login
  <2>1. /\ Goto("own", Place("load", 0, 0)) /\ at["own"].pc = "idle"
        /\ healing' = healing /\ resets' = resets /\ heals' = heals
    BY <1>7, IdleIsPlace DEF Login
  <2>2. Place("load", 0, 0) \in Places /\ Place("load", 0, 0).pc = "load"
    BY OtherNames, FitsElsewhere, LoginNames, Zenon
  <2>3. QED
    BY <1>1, <2>1, <2>2
<1>8. CASE LoginLoad
  BY <1>1, <1>8, FitsElsewhere, OtherNames DEF LoginLoad, count
<1>9. CASE LoginClear
  <2> DEFINE k == Place("check", 0, 0)
  <2>1. k \in Places /\ k.pc = "check"
    BY FitsElsewhere, OtherNames
  <2> HIDE DEF k
  <2>2. Goto("own", k) /\ heals' = heals /\ healing' = FALSE /\ Cleared
    BY <1>9, Zenon DEF LoginClear, k
  <2>3. crossed \subseteq crossed' /\ Chains' = Chains /\ Chains \in Nat
    BY <2>1, <2>2, GotoStep, ChainsSame, ChainsIsNat
  <2>4. "calm" \notin crossed' => Chains' <= resets'
    BY <2>2, <2>3 DEF Cleared, CalmInv
  <2>5. resets' \in Nat /\ Chains' \in Nat
    BY <2>2, <2>3, ResetsGrow
  <2>6. "calm" \notin crossed' => Chains' <= resets' + (IF Believed' THEN 1 ELSE 0)
    BY <2>4, <2>5
  <2>7. ~healing'
    BY <2>2, Zenon
  <2>8. QED
    BY <2>1, <2>2, <2>6, <2>7, CalmStep, Zenon
<1>10. CASE LoginCheck
  <2>1. UNCHANGED <<healing, heals, resets>> /\ at["own"].pc = "check"
    BY <1>10 DEF LoginCheck
  <2>2. CASE Goto("own", Idle)
    BY <1>1, <2>1, <2>2, IdleIsPlace
  <2>3. CASE Goto("own", Place("push", 0, 0))
    <3> DEFINE k == Place("push", 0, 0)
    <3>1. k \in Places /\ k.pc = "push"
      BY FitsElsewhere, OtherNames
    <3> HIDE DEF k
    <3>2. /\ at'["own"] = k /\ (\A u \in Threads \ {"own"} : at'[u] = at[u])
          /\ crossed \subseteq crossed' /\ Chains' = Chains
      BY <2>1, <2>3, <3>1, GotoStep, ChainsSame DEF k
    <3>3. \A u \in Threads : at'[u].pc \in {"flag", "mark"} <=> at[u].pc \in {"flag", "mark"}
      BY <2>1, <3>1, <3>2
    <3>4. Believed' = Believed
      BY <2>1, <3>3, Zenon DEF Believed
    <3>5. "calm" \notin crossed' => /\ ~healing'
                                    /\ Chains' <= resets' + (IF Believed' THEN 1 ELSE 0)
      BY <2>1, <3>2, <3>4 DEF CalmInv
    <3>6. QED
      BY <2>3, <3>1, <3>5, CalmStep DEF k
  <2>4. QED
    BY <1>10, <2>2, <2>3, Zenon DEF LoginCheck
<1>11. CASE LoginPush
  <2> DEFINE k == Place("mark", 0, 0)
  <2>1. k \in Places /\ k.pc = "mark"
    BY FitsElsewhere, OtherNames
  <2> HIDE DEF k
  <2>2. Goto("own", k) /\ heals' = heals + 1 /\ UNCHANGED <<healing, resets>> /\ at["own"].pc = "push"
    BY <1>11 DEF LoginPush, count, k
  <2>3. at'["own"] = k /\ crossed \subseteq crossed' /\ Chains' = Chains + 1 /\ Chains \in Nat
    BY <2>1, <2>2, GotoStep, ChainsSame, ChainsIsNat
  <2>4. Believed'
    BY <2>1, <2>3 DEF Believed
  <2>5. ASSUME "calm" \notin crossed' PROVE Chains' <= resets' + 1
    <3>1. "calm" \notin crossed /\ "calm" \in Holds(at["own"].pc)
      BY <2>2, <2>3, <2>5, WhoHolds
    <3>2. \A u \in Threads : at[u].pc \notin {"flag", "mark"}
      BY <2>2, <3>1, CalmAlone
    <3>3. ~Believed
      BY <2>2, <3>1, <3>2 DEF Believed, CalmInv
    <3>4. QED
      BY <2>2, <2>3, <3>1, <3>3 DEF CalmInv
  <2>6. at'["own"].pc \notin {"check", "push"}
    BY <2>1, <2>3
  <2>7. QED
    BY <2>1, <2>2, <2>4, <2>5, <2>6, CalmStep
<1>12. CASE LoginMark
  <2>1. Goto("own", Idle) /\ heals' = heals /\ resets' = resets /\ healing' = TRUE /\ at["own"].pc = "mark"
    BY <1>12 DEF LoginMark, stats
  <2>2. at'["own"].pc = "idle" /\ crossed \subseteq crossed' /\ Chains' = Chains
    BY <2>1, GotoStep, IdleIsPlace, ChainsSame
  <2>3. Believed' /\ Believed
    BY <2>1 DEF Believed
  <2>4. "calm" \notin crossed' => Chains' <= resets' + 1
    BY <2>1, <2>2, <2>3 DEF CalmInv
  <2>5. QED
    BY <2>1, <2>2, <2>3, <2>4, CalmStep, IdleIsPlace
<1>13. QED
  BY <1>2, <1>3, <1>4, <1>5, <1>6, <1>7, <1>8, <1>9, <1>10, <1>11, <1>12 DEF Own

LEMMA NextCalm == ASSUME TypeOK, CalmInv, [Next]_vars PROVE CalmInv'
<1>1. ASSUME NEW t \in Threads, Reload(t) PROVE CalmInv'
  <2>1. PICK k \in Places : Goto(t, k) /\ k.pc = at[t].pc /\ k.pc \in {"store", "add", "fill", "up"}
    BY <1>1, ReloadPlace
  <2>2. UNCHANGED <<healing, heals, resets>>
    BY <1>1 DEF Reload
  <2>3. Chains' = Chains
    <3>1. at'[t] # Idle /\ at[t] # Idle /\ \A u \in Threads \ {t} : at'[u] = at[u]
      BY <2>1, GotoStep, IdleIsPlace
    <3>2. at'["timer"] = Idle <=> at["timer"] = Idle
      BY <3>1 DEF Threads
    <3>3. QED
      BY <2>2, <3>2, Values DEF Chains
  <2>4. QED
    BY <2>1, <2>2, <2>3, CalmQuiet
<1>2. CASE UNCHANGED vars
  BY <1>2 DEF CalmInv, Apart, Chains, Believed, vars
<1>3. QED
  BY <1>1, <1>2, HitCalm, TimerCalmInv, OwnCalm DEF Next

LEMMA CalmInvHolds == Spec => [](TypeOK /\ CalmInv)
<1>1. QED
  BY InitTypes, NextTypes, InitCalm, NextCalm, PTL DEF Spec

\* ChainsCounted: however many monsters strike and however often the user dies
\* or the slot gets another one, there is at most one chain of EV_HEAL events
\* for it and one more for every time healing was cleared under a queued event
\* (the death of API_ChangeStat, CS_LOGIN).
THEOREM ChainsCountedHolds == Spec => []ChainsCounted
<1>1. TypeOK /\ CalmInv => ChainsCounted
  BY ChainsIsNat, Values DEF CalmInv, ChainsCounted
<1>2. QED
  BY <1>1, CalmInvHolds, PTL
-----------------------------------------------------------------------------
(* A wounded user heals.                                                   *)

Heals ==
  /\ healing => Chains > 0
  /\ \A t \in Threads : at[t].pc \in {"flag", "mark"} => Chains > 0
  /\ at["timer"].pc = "done" => hp >= max_hp \/ at["own"].pc \in {"full", "clear"}
  /\ hp < max_hp => \/ Chains > 0
                    \/ \E m \in Monsters : at[m].pc = "arm"
                    \/ at["own"].pc \in {"full", "clear", "check", "push"}

Uncrossed == "hp" \notin crossed /\ "calm" \notin crossed
HealInv   == Uncrossed => Heals

\* All three invariants in one state.
AllInv == TypeOK /\ HpInv /\ CalmInv /\ HealInv

LEMMA InitHeal == Init => HealInv
<1> SUFFICES ASSUME Init PROVE HealInv
  OBVIOUS
<1>1. "timer" \in Threads /\ \A t \in Threads : at[t].pc = "idle"
  BY IdleIsPlace DEF Init, Threads
<1>2. ~healing /\ ~(hp < max_hp)
  BY DEF Init
<1>3. QED
  BY <1>1, <1>2 DEF HealInv, Heals

(* What the threads are after a step, and that it had not crossed before. *)
LEMMA After ==
  ASSUME AllInv, NEW t \in Threads, NEW k \in Places, Goto(t, k), Uncrossed'
  PROVE  /\ Uncrossed /\ Heals /\ Apart("hp") /\ Apart("calm")
         /\ at'[t] = k /\ \A u \in Threads \ {t} : at'[u] = at[u]
         /\ \A u \in Threads : Fits(at[u])
         /\ "calm" \in Holds(k.pc) => \A u \in Threads \ {t} : "calm" \notin Holds(at[u].pc)
BY GotoStep, GotoApart DEF AllInv, HpInv, CalmInv, HealInv, Uncrossed

(* A step that touches neither the health nor the chains, and no place the *)
(* invariant speaks of.                                                    *)
LEMMA HealQuiet ==
  ASSUME AllInv, NEW t \in Threads, NEW k \in Places, Goto(t, k),
         k.pc \notin {"flag", "mark", "done"},
         at[t].pc \notin {"arm", "full", "clear", "check", "push"},
         healing' => healing, hp' = hp, max_hp' = max_hp, Chains' = Chains
  PROVE  HealInv'
<1> SUFFICES ASSUME Uncrossed' PROVE Heals'
  BY DEF HealInv
<1>1. Heals /\ at'[t] = k /\ \A u \in Threads \ {t} : at'[u] = at[u]
  BY After
<1>2. healing' => Chains' > 0
  BY <1>1 DEF Heals
<1>3. ASSUME NEW u \in Threads, at'[u].pc \in {"flag", "mark"} PROVE Chains' > 0
  BY <1>1, <1>3 DEF Heals
<1>4. at'["timer"].pc = "done" => hp' >= max_hp' \/ at'["own"].pc \in {"full", "clear"}
  BY <1>1 DEF Heals, Threads
<1>5. hp' < max_hp' => \/ Chains' > 0
                       \/ \E m \in Monsters : at'[m].pc = "arm"
                       \/ at'["own"].pc \in {"full", "clear", "check", "push"}
  <2>1. ASSUME NEW m \in Monsters, at[m].pc = "arm" PROVE at'[m].pc = "arm"
    BY <1>1, <2>1 DEF Threads
  <2>2. at["own"].pc \in {"full", "clear", "check", "push"} => at'["own"] = at["own"]
    BY <1>1 DEF Threads
  <2>3. QED
    BY <1>1, <2>1, <2>2 DEF Heals
<1>6. QED
  BY <1>2, <1>3, <1>4, <1>5 DEF Heals

(* A step after which the user is whole. *)
LEMMA HealWhole ==
  ASSUME AllInv, NEW t \in Threads, NEW k \in Places, Goto(t, k),
         k.pc \notin {"flag", "mark"}, healing' => healing, Chains' = Chains,
         Uncrossed' => hp' = max_hp' /\ max_hp' \in Int
  PROVE  HealInv'
<1> SUFFICES ASSUME Uncrossed' PROVE Heals'
  BY DEF HealInv
<1>1. Heals /\ at'[t] = k /\ \A u \in Threads \ {t} : at'[u] = at[u]
  BY After
<1>2. ASSUME NEW u \in Threads, at'[u].pc \in {"flag", "mark"} PROVE Chains' > 0
  BY <1>1, <1>2 DEF Heals
<1>3. QED
  BY <1>1, <1>2 DEF Heals

(* A step after which an event is on its way, and the timer is not done. *)
LEMMA HealOnItsWay ==
  ASSUME AllInv, NEW t \in Threads, NEW k \in Places, Goto(t, k), k.pc # "done",
         Uncrossed' => Chains' > 0,
         Uncrossed' /\ at'["timer"].pc = "done" => /\ hp' = hp /\ max_hp' = max_hp
                                                   /\ at["own"].pc \notin {"full", "clear"}
  PROVE  HealInv'
<1> SUFFICES ASSUME Uncrossed' PROVE Heals'
  BY DEF HealInv
<1>1. Heals /\ at'[t] = k /\ \A u \in Threads \ {t} : at'[u] = at[u]
  BY After
<1>2. at'["timer"].pc = "done" => hp' >= max_hp'
  BY <1>1 DEF Heals, Threads
<1>3. QED
  BY <1>2 DEF Heals

LEMMA HitHeal ==
  ASSUME AllInv, NEW m \in Monsters, Hit(m) PROVE HealInv'
<1> m \in Threads /\ m \in Threads \ {"timer"} /\ m # "own" /\ m # "timer" /\ "own" \in Threads
    /\ "timer" \in Threads
  BY ThreadAssumption DEF Threads
<1> TypeOK
  BY DEF AllInv
<1> hp \in Int /\ max_hp \in Int /\ level \in Nat \ {0} /\ exp \in Int /\ heals \in Nat
  BY Values
<1>1. ASSUME NEW k \in Places, Goto(m, k), k.pc \notin {"flag", "mark", "done"},
             at[m].pc \notin {"arm", "full", "clear", "check", "push"},
             healing' => healing, hp' = hp, max_hp' = max_hp, heals' = heals
      PROVE  HealInv'
  BY <1>1, ChainsSame, HealQuiet
<1>2. CASE HitTest(m)
  <2>1. PICK a \in Strength : Goto(m, Place(IF hp - a > 0 THEN "store" ELSE "die", hp, a))
    BY <1>2 DEF HitTest
  <2>2. PICK pc \in {"store", "die"} : Goto(m, Place(pc, hp, a))
    BY <2>1, Zenon
  <2>3. Place(pc, hp, a) \in Places /\ Place(pc, hp, a).pc = pc
    BY HeldNames, OtherNames, PlaceTypes, PlaceFields DEF Others
  <2>4. at[m].pc = "idle"
    BY <1>2, IdleIsPlace DEF HitTest
  <2>5. QED
    BY <1>1, <1>2, <2>2, <2>3, <2>4 DEF HitTest, stats
<1>3. CASE HitStore(m)
  <2> DEFINE k == Place("arm", 0, 0)
  <2>1. k \in Places /\ k.pc = "arm"
    BY FitsElsewhere, OtherNames
  <2> HIDE DEF k
  <2>2. Goto(m, k) /\ healing' = healing /\ heals' = heals
    BY <1>3 DEF HitStore, k
  <2> SUFFICES ASSUME Uncrossed' PROVE Heals'
    BY DEF HealInv
  <2>3. /\ Heals /\ at'[m] = k /\ \A u \in Threads \ {m} : at'[u] = at[u]
        /\ \A u \in Threads \ {m} : "calm" \notin Holds(at[u].pc)
    BY <2>1, <2>2, After, WhoHolds
  <2>4. Chains' = Chains
    BY <2>1, <2>2, ChainsSame
  <2>5. at'["timer"].pc # "done"
    BY <2>3, WhoHolds
  <2>6. at'[m].pc = "arm"
    BY <2>1, <2>3
  <2>7. ASSUME NEW u \in Threads, at'[u].pc \in {"flag", "mark"} PROVE Chains' > 0
    BY <2>3, <2>4, <2>6, <2>7 DEF Heals
  <2>8. healing' => Chains' > 0
    BY <2>2, <2>3, <2>4 DEF Heals
  <2>9. QED
    BY <2>5, <2>6, <2>7, <2>8 DEF Heals
<1>4. CASE HitArm(m)
  <2> DEFINE k == Place("flag", 0, 0)
  <2>1. k \in Places /\ k.pc = "flag"
    BY FitsElsewhere, OtherNames
  <2> HIDE DEF k
  <2>2. Goto(m, k) /\ hp' = hp /\ max_hp' = max_hp
    BY <1>4 DEF HitArm, stats, k
  <2>3. ASSUME Uncrossed' PROVE Chains' > 0
    <3>1. Heals /\ Chains \in Nat
      BY <2>1, <2>2, <2>3, After, ChainsIsNat
    <3>2. CASE healing
      <4>1. heals' = heals
        BY <1>4, <3>2 DEF HitArm
      <4>2. QED
        BY <2>1, <2>2, <3>1, <3>2, <4>1, ChainsSame DEF Heals
    <3>3. CASE ~healing
      <4>1. heals' = heals + 1
        BY <1>4, <3>3 DEF HitArm
      <4>2. QED
        BY <2>1, <2>2, <3>1, <4>1, ChainsSame
    <3>4. QED
      BY <3>2, <3>3
  <2>4. ASSUME Uncrossed' PROVE at'["timer"].pc # "done"
    <3>1. /\ \A u \in Threads \ {m} : "calm" \notin Holds(at[u].pc)
          /\ at'["timer"] = at["timer"]
      BY <2>1, <2>2, <2>4, After, WhoHolds
    <3>2. QED
      BY <3>1, WhoHolds
  <2>5. QED
    BY <2>1, <2>2, <2>3, <2>4, HealOnItsWay
<1>5. CASE HitFlag(m)
  <2>1. Goto(m, Idle) /\ hp' = hp /\ max_hp' = max_hp /\ heals' = heals /\ at[m].pc = "flag"
    BY <1>5 DEF HitFlag, stats
  <2>2. Chains' = Chains
    BY <2>1, ChainsSame, IdleIsPlace
  <2>3. ASSUME Uncrossed' PROVE Chains' > 0 /\ at'["timer"].pc # "done"
    <3>1. Heals /\ Apart("calm") /\ at'["timer"] = at["timer"]
      BY <2>1, <2>3, After, IdleIsPlace
    <3>2. "calm" \in Holds(at[m].pc)
      BY <2>1, WhoHolds
    <3>3. "calm" \notin Holds(at["timer"].pc)
      BY <3>1, <3>2 DEF Apart
    <3>4. QED
      BY <2>1, <2>2, <3>1, <3>3, WhoHolds DEF Heals
  <2>4. QED
    BY <2>1, <2>3, HealOnItsWay, IdleIsPlace
<1>6. CASE DieLoad(m)
  <2>1. Place("revive", max_hp, 0) \in Places /\ Place("revive", max_hp, 0).pc = "revive"
    BY HeldNames, PlaceTypes, PlaceFields
  <2>2. QED
    BY <1>1, <1>6, <2>1 DEF DieLoad, stats
<1>7. CASE DieHp(m)
  <2>1. Place("halve", exp, 0) \in Places /\ Place("halve", exp, 0).pc = "halve"
    BY FitsElsewhere, OtherNames
  <2>2. Goto(m, Place("halve", exp, 0)) /\ healing' = healing /\ heals' = heals
    BY <1>7 DEF DieHp
  <2>3. Uncrossed' => hp' = max_hp' /\ max_hp' \in Int
    BY <1>7, <2>1, <2>2, After DEF DieHp, Fits
  <2>4. Chains' = Chains
    BY <2>1, <2>2, ChainsSame
  <2>5. QED
    BY <2>1, <2>2, <2>3, <2>4, HealWhole
<1>8. CASE DieExp(m)
  BY <1>1, <1>8, FitsElsewhere, OtherNames DEF DieExp
<1>9. CASE DieCalm(m)
  <2>1. /\ Goto(m, Idle) /\ heals' = heals /\ ~healing' /\ hp' = hp /\ max_hp' = max_hp
        /\ at[m].pc = "calm"
    BY <1>9, Zenon DEF DieCalm, stats
  <2>2. QED
    BY <1>1, <2>1, IdleIsPlace
<1>10. QED
  BY <1>2, <1>3, <1>4, <1>5, <1>6, <1>7, <1>8, <1>9 DEF Hit

LEMMA TimerHeal == ASSUME AllInv, Timer PROVE HealInv'
<1> "timer" \in Threads /\ "own" \in Threads \ {"timer"} /\ \A m \in Monsters : m \in Threads \ {"timer"}
  BY ThreadAssumption DEF Threads
<1> TypeOK
  BY DEF AllInv
<1> hp \in Int /\ max_hp \in Int /\ level \in Nat \ {0} /\ exp \in Int /\ heals \in Nat
  BY Values
<1>1. CASE TimerTest
  <2>1. PICK pc \in {"add", "fill"}, s \in Int : Goto("timer", Place(pc, s, max_hp))
    <3>1. Goto("timer", Place("add", hp, max_hp)) \/ Goto("timer", Place("fill", 0, max_hp))
      BY <1>1, Zenon DEF TimerTest
    <3>2. QED
      BY <3>1
  <2>2. Place(pc, s, max_hp) \in Places /\ Place(pc, s, max_hp).pc = pc
    BY HeldNames, PlaceTypes, PlaceFields
  <2>3. at["timer"].pc = "idle" /\ healing' = healing /\ hp' = hp /\ max_hp' = max_hp
    BY <1>1, IdleIsPlace DEF TimerTest, stats
  <2>4. Chains' = Chains
    BY <2>3, TimerChains DEF TimerCalm
  <2>5. QED
    BY <2>1, <2>2, <2>3, <2>4, HealQuiet
<1>2. CASE TimerAdd
  <2> DEFINE k == Place("again", 0, 0)
  <2>1. k \in Places /\ k.pc = "again"
    BY FitsElsewhere, OtherNames
  <2> HIDE DEF k
  <2>2. Goto("timer", k) /\ at["timer"].pc = "add"
    BY <1>2 DEF TimerAdd, k
  <2>3. Chains' = Chains /\ Chains > 0
    BY <2>2, TimerChains, ChainsIsNat DEF TimerCalm
  <2>4. at'["timer"].pc = "again"
    BY <2>1, <2>2, GotoStep
  <2>5. QED
    BY <2>1, <2>2, <2>3, <2>4, HealOnItsWay
<1>3. CASE TimerAgain
  <2>1. /\ Goto("timer", Idle) /\ at["timer"].pc = "again"
        /\ healing' = healing /\ hp' = hp /\ max_hp' = max_hp
    BY <1>3 DEF TimerAgain, stats
  <2>2. Chains' = Chains
    BY <2>1, TimerChains DEF TimerCalm
  <2>3. QED
    BY <2>1, <2>2, HealQuiet, IdleIsPlace
<1>4. CASE TimerFill
  <2>1. Place("done", 0, 0) \in Places /\ Place("done", 0, 0).pc = "done"
    BY FitsElsewhere, OtherNames
  <2>2. Goto("timer", Place("done", 0, 0)) /\ healing' = healing /\ at["timer"].pc = "fill"
    BY <1>4 DEF TimerFill
  <2>3. Uncrossed' => hp' = max_hp' /\ max_hp' \in Int
    BY <1>4, <2>1, <2>2, After DEF TimerFill, Fits
  <2>4. Chains' = Chains
    BY <2>2, TimerChains DEF TimerCalm
  <2>5. QED
    BY <2>1, <2>2, <2>3, <2>4, HealWhole
<1>5. CASE TimerCalm
  <2>1. /\ Goto("timer", Idle) /\ at["timer"].pc = "done" /\ ~healing'
        /\ hp' = hp /\ max_hp' = max_hp
    BY <1>5, Zenon DEF TimerCalm, stats
  <2> SUFFICES ASSUME Uncrossed' PROVE Heals'
    BY DEF HealInv
  <2>2. /\ Heals /\ Apart("calm") /\ at'["timer"] = Idle
        /\ \A u \in Threads \ {"timer"} : at'[u] = at[u]
    BY <2>1, After, IdleIsPlace
  <2>3. \A u \in Threads \ {"timer"} : at[u].pc \notin {"flag", "mark"}
    BY <2>1, <2>2, WhoHolds DEF Apart
  <2>4. \A u \in Threads : at'[u].pc \notin {"flag", "mark"}
    BY <2>2, <2>3, IdleIsPlace
  <2>5. at'["timer"].pc # "done"
    BY <2>2, IdleIsPlace
  <2>6. hp' < max_hp' => at'["own"].pc \in {"full", "clear"}
    BY <2>1, <2>2 DEF Heals
  <2>7. QED
    BY <2>1, <2>4, <2>5, <2>6 DEF Heals
<1>6. QED
  BY <1>1, <1>2, <1>3, <1>4, <1>5 DEF Timer

LEMMA OwnHeal == ASSUME AllInv, Own PROVE HealInv'
<1> "own" \in Threads /\ "own" \in Threads \ {"timer"} /\ "timer" \in Threads
    /\ "timer" \in Threads \ {"own"} /\ \A m \in Monsters : m \in Threads \ {"own"}
  BY ThreadAssumption DEF Threads
<1> TypeOK
  BY DEF AllInv
<1> hp \in Int /\ max_hp \in Int /\ level \in Nat \ {0} /\ exp \in Int /\ heals \in Nat
  BY Values
<1>1. ASSUME NEW k \in Places, Goto("own", k), k.pc \notin {"flag", "mark", "done"},
             at["own"].pc \notin {"arm", "full", "clear", "check", "push"},
             healing' => healing, hp' = hp, max_hp' = max_hp, heals' = heals
      PROVE  HealInv'
  BY <1>1, ChainsSame, HealQuiet
<1>2. CASE Kill
  <2>1. PICK r \in Rewards : Goto("own", Place("gain", exp, r * level))
    BY <1>2 DEF Kill
  <2>2. r * level \in Int
    OBVIOUS
  <2>3. Place("gain", exp, r * level) \in Places /\ Place("gain", exp, r * level).pc = "gain"
    BY <2>2, FitsElsewhere, OtherNames
  <2>4. at["own"].pc = "idle"
    BY <1>2, IdleIsPlace DEF Kill
  <2>5. QED
    BY <1>1, <1>2, <2>1, <2>3, <2>4 DEF Kill, stats
<1>3. CASE Gain
  BY <1>1, <1>3, FitsElsewhere, OtherNames DEF Gain
<1>4. CASE LevelTest
  <2>1. Place("up", exp, 0) \in Places /\ Place("up", exp, 0).pc = "up"
    BY FitsElsewhere, OtherNames
  <2>2. Goto("own", Place("up", exp, 0)) \/ Goto("own", Idle)
    BY <1>4, Zenon DEF LevelTest
  <2>3. QED
    BY <1>1, <1>4, <2>1, <2>2, IdleIsPlace DEF LevelTest, stats
(* Between the new level, or the row, and the full health or the event that *)
(* goes with it, the user's own thread is at a place the invariant names.   *)
<1>5. ASSUME NEW k \in Places, Goto("own", k), k.pc \in {"full", "clear"},
             healing' = healing, heals' = heals
      PROVE  HealInv'
  <2> SUFFICES ASSUME Uncrossed' PROVE Heals'
    BY DEF HealInv
  <2>1. Heals /\ at'["own"] = k /\ \A u \in Threads \ {"own"} : at'[u] = at[u]
    BY <1>5, After
  <2>2. Chains' = Chains
    BY <1>5, ChainsSame
  <2>3. ASSUME NEW u \in Threads, at'[u].pc \in {"flag", "mark"} PROVE Chains' > 0
    BY <1>5, <2>1, <2>2, <2>3 DEF Heals
  <2>4. QED
    BY <1>5, <2>1, <2>2, <2>3 DEF Heals
<1>6. CASE LevelUp
  <2>1. Place("full", 0, 0) \in Places /\ Place("full", 0, 0).pc = "full"
    BY FitsElsewhere, OtherNames
  <2>2. QED
    BY <1>5, <1>6, <2>1 DEF LevelUp
<1>7. CASE LevelHp
  <2>1. Place("test", 0, 0) \in Places /\ Place("test", 0, 0).pc = "test"
    BY FitsElsewhere, OtherNames
  <2>2. /\ Goto("own", Place("test", 0, 0)) /\ healing' = healing /\ heals' = heals
        /\ hp' = max_hp' /\ max_hp' \in Int
    BY <1>7 DEF LevelHp
  <2>3. Chains' = Chains
    BY <2>1, <2>2, ChainsSame
  <2>4. QED
    BY <2>1, <2>2, <2>3, HealWhole
<1>8. CASE Login
  <2>1. /\ Goto("own", Place("load", 0, 0)) /\ at["own"].pc = "idle"
        /\ healing' = healing /\ hp' = hp /\ max_hp' = max_hp /\ heals' = heals
    BY <1>8, IdleIsPlace DEF Login, stats
  <2>2. QED
    BY <1>1, <2>1, FitsElsewhere, OtherNames
<1>9. CASE LoginLoad
  <2>1. Place("clear", 0, 0) \in Places /\ Place("clear", 0, 0).pc = "clear"
    BY FitsElsewhere, OtherNames
  <2>2. QED
    BY <1>5, <1>9, <2>1 DEF LoginLoad
<1>10. CASE LoginClear
  <2> DEFINE k == Place("check", 0, 0)
  <2>1. k \in Places /\ k.pc = "check"
    BY FitsElsewhere, OtherNames
  <2> HIDE DEF k
  <2>2. Goto("own", k) /\ heals' = heals /\ ~healing'
    BY <1>10, Zenon DEF LoginClear, k
  <2> SUFFICES ASSUME Uncrossed' PROVE Heals'
    BY DEF HealInv
  <2>3. /\ Heals /\ at'["own"] = k /\ \A u \in Threads \ {"own"} : at'[u] = at[u]
        /\ \A u \in Threads \ {"own"} : "calm" \notin Holds(at[u].pc)
    BY <2>1, <2>2, After, WhoHolds
  <2>4. Chains' = Chains
    BY <2>1, <2>2, ChainsSame
  <2>5. at'["timer"].pc # "done" /\ at'["own"].pc = "check"
    BY <2>1, <2>3, WhoHolds
  <2>6. ASSUME NEW u \in Threads, at'[u].pc \in {"flag", "mark"} PROVE Chains' > 0
    BY <2>3, <2>4, <2>5, <2>6 DEF Heals
  <2>7. QED
    BY <2>2, <2>5, <2>6 DEF Heals
<1>11. CASE LoginCheck
  <2>1. /\ healing' = healing /\ heals' = heals /\ hp' = hp /\ max_hp' = max_hp
        /\ at["own"].pc = "check"
    BY <1>11 DEF LoginCheck, stats
  <2>2. PICK k \in Places : Goto("own", k) /\ (k.pc = "push" \/ (k.pc = "idle" /\ ~(hp < max_hp)))
    <3>1. CASE hp < max_hp
      <4>1. Goto("own", Place("push", 0, 0))
        BY <1>11, <3>1, Zenon DEF LoginCheck
      <4>2. QED
        BY <4>1, FitsElsewhere, OtherNames
    <3>2. CASE ~(hp < max_hp)
      <4>1. Goto("own", Idle)
        BY <1>11, <3>2, Zenon DEF LoginCheck
      <4>2. QED
        BY <3>2, <4>1, IdleIsPlace
    <3>3. QED
      BY <3>1, <3>2
  <2> SUFFICES ASSUME Uncrossed' PROVE Heals'
    BY DEF HealInv
  <2>3. Heals /\ at'["own"] = k /\ \A u \in Threads \ {"own"} : at'[u] = at[u]
    BY <2>2, After
  <2>4. Chains' = Chains
    BY <2>1, <2>2, ChainsSame
  <2>5. ASSUME NEW u \in Threads, at'[u].pc \in {"flag", "mark"} PROVE Chains' > 0
    BY <2>2, <2>3, <2>4, <2>5 DEF Heals
  <2>6. at'["timer"].pc = "done" => hp' >= max_hp'
    BY <2>1, <2>3 DEF Heals
  <2>7. hp' < max_hp' => at'["own"].pc = "push"
    BY <2>1, <2>2, <2>3
  <2>8. healing' => Chains' > 0
    BY <2>1, <2>3, <2>4 DEF Heals
  <2>9. QED
    BY <2>5, <2>6, <2>7, <2>8 DEF Heals
<1>12. CASE LoginPush
  <2> DEFINE k == Place("mark", 0, 0)
  <2>1. k \in Places /\ k.pc = "mark"
    BY FitsElsewhere, OtherNames
  <2> HIDE DEF k
  <2>2. /\ Goto("own", k) /\ heals' = heals + 1 /\ hp' = hp /\ max_hp' = max_hp
        /\ at["own"].pc = "push"
    BY <1>12 DEF LoginPush, stats, k
  <2>3. Chains' > 0
    BY <2>1, <2>2, ChainsSame, ChainsIsNat
  <2>4. QED
    BY <2>1, <2>2, <2>3, HealOnItsWay
<1>13. CASE LoginMark
  <2>1. /\ Goto("own", Idle) /\ heals' = heals /\ hp' = hp /\ max_hp' = max_hp
        /\ at["own"].pc = "mark"
    BY <1>13 DEF LoginMark, stats
  <2>2. Chains' = Chains
    BY <2>1, ChainsSame, IdleIsPlace
  <2>3. Uncrossed' => Chains' > 0
    BY <2>1, <2>2, After, IdleIsPlace DEF Heals
  <2>4. QED
    BY <2>1, <2>3, HealOnItsWay, IdleIsPlace
<1>14. QED
  BY <1>2, <1>3, <1>4, <1>6, <1>7, <1>8, <1>9, <1>10, <1>11, <1>12, <1>13 DEF Own

LEMMA NextHeal == ASSUME AllInv, [Next]_vars PROVE HealInv'
<1> TypeOK
  BY DEF AllInv
<1>1. ASSUME NEW t \in Threads, Reload(t) PROVE HealInv'
  <2>1. PICK k \in Places : Goto(t, k) /\ k.pc = at[t].pc /\ k.pc \in {"store", "add", "fill", "up"}
    BY <1>1, ReloadPlace
  <2>2. UNCHANGED <<hp, max_hp, healing, heals>>
    BY <1>1 DEF Reload, stats
  <2>3. Chains' = Chains
    <3>1. at'[t] # Idle /\ at[t] # Idle /\ \A u \in Threads \ {t} : at'[u] = at[u]
      BY <2>1, GotoStep, IdleIsPlace
    <3>2. at'["timer"] = Idle <=> at["timer"] = Idle
      BY <3>1 DEF Threads
    <3>3. QED
      BY <2>2, <3>2, Values DEF Chains
  <2>4. QED
    BY <2>1, <2>2, <2>3, HealQuiet
<1>2. CASE UNCHANGED vars
  BY <1>2 DEF AllInv, HealInv, Heals, Uncrossed, Chains, vars, stats
<1>3. QED
  BY <1>1, <1>2, HitHeal, TimerHeal, OwnHeal DEF Next

LEMMA AllInvHolds == Spec => []AllInv
<1>1. Init => AllInv
  BY InitTypes, InitHp, InitCalm, InitHeal DEF AllInv
<1>2. AllInv /\ [Next]_vars => AllInv'
  BY NextTypes, NextHp, NextCalm, NextHeal DEF AllInv
<1>3. QED
  BY <1>1, <1>2, PTL DEF Spec

\* WoundedHeals: however many monsters there are, a wounded user whom nobody
\* is striking has an EV_HEAL event on its way, unless two threads worked on
\* hp or on healing at the same time.
THEOREM WoundedHealsHolds == Spec => []WoundedHeals
<1>1. ASSUME AllInv, hp < max_hp, ~Struck, at["own"] = Idle, crossed \cap {"hp", "calm"} = {}
      PROVE  Chains > 0
  <2>1. Uncrossed
    BY <1>1 DEF Uncrossed
  <2>2. Heals
    BY <1>1, <2>1 DEF AllInv, HealInv
  <2>3. \A m \in Monsters : at[m].pc # "arm"
    BY <1>1, IdleIsPlace DEF Struck
  <2>4. at["own"].pc = "idle"
    BY <1>1, IdleIsPlace
  <2>5. QED
    BY <1>1, <2>2, <2>3, <2>4 DEF Heals
<1>2. AllInv => WoundedHeals
  BY <1>1 DEF WoundedHeals
<1>3. QED
  BY <1>2, AllInvHolds, PTL

-----------------------------------------------------------------------------
(* Experience.  Where no two threads have crossed on exp, what a thread is  *)
(* about to write is computed from what exp still is.  A death only lowers  *)
(* exp, and between two packets it is within what the level asks for.       *)

(* 2^n counts the subsets of 1..n, which is how the provers know that it is *)
(* a natural number.                                                        *)
LEMMA PowerIsNat == ASSUME NEW n \in Nat PROVE 2 ^ n \in Nat
<1>1. IsFiniteSet(1..n) /\ Cardinality(1..n) = n
  BY FS_Interval
<1>2. IsFiniteSet(SUBSET (1..n)) /\ Cardinality(SUBSET (1..n)) = 2 ^ n
  BY <1>1, FS_SUBSET
<1>3. QED
  BY <1>2, FS_CardinalityType

LEMMA ThresholdIsNat == ASSUME NEW l \in Nat \ {0} PROVE Thr(l) \in Nat
<1>1. 2 ^ (l - 1) \in Nat
  BY PowerIsNat
<1>2. QED
  BY <1>1 DEF Thr

LEMMA HalfIsLess == ASSUME NEW n \in Nat PROVE Half(n) \in 0..n
BY DEF Half

LEMMA WhoHoldsExp ==
  ASSUME NEW pc
  PROVE  "exp" \in Holds(pc) <=> pc \in {"halve", "gain", "test", "up", "load"}
BY DEF Holds

Reads(k, e) == k.pc \in {"gain", "up", "halve"} => k.seen = e

Pays(k, e, l) ==
  /\ k.pc = "gain" => k.amount \in Nat
  /\ k.pc = "up" => e > Thr(l)
  /\ k.pc \notin {"test", "up", "full"} => e <= Thr(l)

PaidInv ==
  "exp" \notin crossed =>
    /\ Apart("exp") /\ exp \in Nat
    /\ \A t \in Threads : Reads(at[t], exp)
    /\ Pays(at["own"], exp, level)

(* A step of thread t to k.  One that changes exp or the level comes from a *)
(* place that holds exp, so that no other thread reads what it changes.     *)
LEMMA PaidStep ==
  ASSUME TypeOK, PaidInv, NEW t \in Threads, NEW k \in Places, Goto(t, k),
         level' \in Nat \ {0},
         (exp' = exp /\ level' = level) \/ "exp" \in Holds(at[t].pc),
         "exp" \notin crossed' =>
            /\ exp' \in Nat /\ Reads(k, exp')
            /\ t = "own" => Pays(k, exp', level')
            /\ t # "own" => exp' <= exp /\ level' = level
  PROVE  PaidInv'
<1> "own" \in Threads
  BY DEF Threads
<1> SUFFICES ASSUME "exp" \notin crossed'
             PROVE  /\ Apart("exp")' /\ exp' \in Nat
                    /\ \A u \in Threads : Reads(at'[u], exp')
                    /\ Pays(at'["own"], exp', level')
  BY DEF PaidInv, Reads, Pays
<1>1. at'[t] = k /\ (\A u \in Threads \ {t} : at'[u] = at[u]) /\ crossed \subseteq crossed'
  BY GotoStep
<1>2. /\ Apart("exp") /\ exp \in Nat /\ \A u \in Threads : Reads(at[u], exp)
      /\ Pays(at["own"], exp, level)
  BY <1>1 DEF PaidInv
<1>3. Apart("exp")'
  BY <1>2, GotoApart
<1>4. ASSUME NEW u \in Threads \ {t}
      PROVE  (exp' = exp /\ level' = level) \/ at[u].pc \notin {"halve", "gain", "test", "up", "load"}
  <2>1. CASE "exp" \in Holds(at[t].pc)
    BY <1>2, <2>1, WhoHoldsExp DEF Apart
  <2>2. QED
    BY <2>1
<1>5. ASSUME NEW u \in Threads PROVE Reads(at'[u], exp')
  <2>1. CASE u = t
    BY <1>1, <2>1
  <2>2. CASE u # t
    BY <1>1, <1>2, <1>4, <2>2 DEF Reads
  <2>3. QED
    BY <2>1, <2>2
<1>6. Pays(at'["own"], exp', level')
  <2>1. CASE t = "own"
    BY <1>1, <2>1
  <2>2. CASE t # "own"
    <3>1. at'["own"] = at["own"] /\ exp' <= exp /\ level' = level /\ exp' \in Nat
      BY <1>1, <2>2
    <3>2. level \in Nat \ {0} /\ Thr(level) \in Nat
      BY Values, ThresholdIsNat
    <3>3. exp' = exp \/ at["own"].pc \notin {"gain", "up"}
      BY <1>4, <2>2
    <3>4. QED
      BY <1>2, <3>1, <3>2, <3>3 DEF Pays
  <2>3. QED
    BY <2>1, <2>2
<1>7. QED
  BY <1>3, <1>5, <1>6

(* A step that leaves exp and the level as they are. *)
LEMMA PaidQuiet ==
  ASSUME TypeOK, PaidInv, NEW t \in Threads, NEW k \in Places, Goto(t, k),
         exp' = exp, level' = level, Reads(k, exp),
         t = "own" /\ "exp" \notin crossed' => Pays(k, exp, level)
  PROVE  PaidInv'
<1>1. "exp" \notin crossed' => exp \in Nat
  BY GotoStep DEF PaidInv
<1>2. level' \in Nat \ {0} /\ exp \in Int
  BY Values
<1>3. QED
  BY <1>1, <1>2, PaidStep

LEMMA InitPaid == Init => PaidInv
<1> SUFFICES ASSUME Init PROVE PaidInv
  OBVIOUS
<1> "own" \in Threads
  BY DEF Threads
<1>1. \A t \in Threads : at[t].pc = "idle"
  BY IdleIsPlace DEF Init
<1>2. exp = 0 /\ level = 1 /\ Thr(1) \in Nat
  BY ThresholdIsNat DEF Init
<1>3. Apart("exp") /\ \A t \in Threads : Reads(at[t], exp)
  BY <1>1, WhoHoldsExp DEF Apart, Reads
<1>4. Pays(at["own"], exp, level)
  BY <1>1, <1>2 DEF Pays
<1>5. QED
  BY <1>2, <1>3, <1>4 DEF PaidInv

LEMMA HitPaid == ASSUME TypeOK, PaidInv, NEW m \in Monsters, Hit(m) PROVE PaidInv'
<1> m \in Threads /\ m # "own"
  BY ThreadAssumption DEF Threads
<1> USE Values
<1>1. ASSUME NEW k \in Places, Goto(m, k), k.pc \notin {"gain", "up", "halve"},
             exp' = exp, level' = level
      PROVE  PaidInv'
  <2>1. Reads(k, exp)
    BY <1>1 DEF Reads
  <2>2. QED
    BY <1>1, <2>1, PaidQuiet
<1>2. CASE HitTest(m)
  <2>1. PICK a \in Strength : Goto(m, Place(IF hp - a > 0 THEN "store" ELSE "die", hp, a))
    BY <1>2 DEF HitTest
  <2>2. PICK pc \in {"store", "die"} : Goto(m, Place(pc, hp, a))
    BY <2>1, Zenon
  <2>3. Place(pc, hp, a) \in Places /\ Place(pc, hp, a).pc = pc
    BY HeldNames, OtherNames, PlaceTypes, PlaceFields DEF Others
  <2>4. QED
    BY <1>1, <1>2, <2>2, <2>3 DEF HitTest, stats
<1>3. CASE HitStore(m)
  BY <1>1, <1>3, FitsElsewhere, OtherNames DEF HitStore
<1>4. CASE HitArm(m)
  BY <1>1, <1>4, FitsElsewhere, OtherNames DEF HitArm, stats
<1>5. CASE HitFlag(m)
  BY <1>1, <1>5, IdleIsPlace DEF HitFlag, stats
<1>6. CASE DieLoad(m)
  <2>1. Place("revive", max_hp, 0) \in Places /\ Place("revive", max_hp, 0).pc = "revive"
    BY HeldNames, PlaceTypes, PlaceFields
  <2>2. QED
    BY <1>1, <1>6, <2>1 DEF DieLoad, stats
<1>7. CASE DieHp(m)
  <2>1. Place("halve", exp, 0) \in Places
    BY FitsElsewhere, OtherNames
  <2>2. Reads(Place("halve", exp, 0), exp)
    BY PlaceFields DEF Reads
  <2>3. QED
    BY <1>7, <2>1, <2>2, PaidQuiet DEF DieHp
<1>8. CASE DieExp(m)
  <2> DEFINE k == Place("calm", 0, 0)
  <2>1. k \in Places /\ k.pc = "calm"
    BY FitsElsewhere, OtherNames, LoginNames, Zenon
  <2>2. Goto(m, k) /\ "exp" \in Holds(at[m].pc) /\ level' = level /\ exp' = Half(at[m].seen)
    BY <1>8, WhoHoldsExp DEF DieExp
  <2> HIDE DEF k
  <2>3. ASSUME "exp" \notin crossed' PROVE exp' \in Nat /\ Reads(k, exp') /\ exp' <= exp
    <3>1. exp \in Nat /\ Reads(at[m], exp)
      BY <2>1, <2>2, <2>3, GotoStep DEF PaidInv
    <3>2. exp' = Half(exp)
      BY <1>8, <2>2, <3>1 DEF DieExp, Reads
    <3>3. exp' \in 0..exp
      BY <3>1, <3>2, HalfIsLess
    <3>4. QED
      BY <2>1, <3>1, <3>3 DEF Reads
  <2>4. QED
    BY <2>1, <2>2, <2>3, PaidStep
<1>9. CASE DieCalm(m)
  <2>1. Goto(m, Idle) /\ exp' = exp /\ level' = level
    BY <1>9, Zenon DEF DieCalm, stats
  <2>2. QED
    BY <1>1, <2>1, IdleIsPlace
<1>10. QED
  BY <1>2, <1>3, <1>4, <1>5, <1>6, <1>7, <1>8, <1>9 DEF Hit

LEMMA TimerPaid == ASSUME TypeOK, PaidInv, Timer PROVE PaidInv'
<1> "timer" \in Threads
  BY DEF Threads
<1> USE Values
<1>1. ASSUME NEW k \in Places, Goto("timer", k), k.pc \notin {"gain", "up", "halve"},
             exp' = exp, level' = level
      PROVE  PaidInv'
  <2>1. Reads(k, exp)
    BY <1>1 DEF Reads
  <2>2. QED
    BY <1>1, <2>1, PaidQuiet
<1>2. CASE TimerTest
  <2>1. PICK pc \in {"add", "fill"}, s \in Int : Goto("timer", Place(pc, s, max_hp))
    <3>1. Goto("timer", Place("add", hp, max_hp)) \/ Goto("timer", Place("fill", 0, max_hp))
      BY <1>2, Zenon DEF TimerTest
    <3>2. QED
      BY <3>1
  <2>2. Place(pc, s, max_hp) \in Places /\ Place(pc, s, max_hp).pc = pc
    BY HeldNames, PlaceTypes, PlaceFields
  <2>3. QED
    BY <1>1, <1>2, <2>1, <2>2 DEF TimerTest, stats
<1>3. CASE TimerAdd
  BY <1>1, <1>3, FitsElsewhere, OtherNames DEF TimerAdd
<1>4. CASE TimerAgain
  BY <1>1, <1>4, IdleIsPlace DEF TimerAgain, stats
<1>5. CASE TimerFill
  BY <1>1, <1>5, FitsElsewhere, OtherNames DEF TimerFill
<1>6. CASE TimerCalm
  BY <1>1, <1>6, IdleIsPlace DEF TimerCalm, stats
<1>7. QED
  BY <1>2, <1>3, <1>4, <1>5, <1>6 DEF Timer

LEMMA OwnPaid == ASSUME TypeOK, PaidInv, Own PROVE PaidInv'
<1> "own" \in Threads
  BY DEF Threads
<1> USE Values
<1> Thr(level) \in Nat
  BY ThresholdIsNat
(* From a place where exp is within the threshold to another such place. *)
<1>1. ASSUME NEW k \in Places, Goto("own", k), k.pc \notin {"gain", "up", "halve"},
             at["own"].pc \notin {"test", "up", "full"} \/ k.pc \in {"test", "full"},
             exp' = exp, level' = level
      PROVE  PaidInv'
  <2>1. Reads(k, exp)
    BY <1>1 DEF Reads
  <2>2. "exp" \notin crossed' => Pays(k, exp, level)
    BY <1>1, GotoStep DEF PaidInv, Pays
  <2>3. QED
    BY <1>1, <2>1, <2>2, PaidQuiet
<1>2. CASE Kill
  <2>1. PICK r \in Rewards : Goto("own", Place("gain", exp, r * level))
    BY <1>2 DEF Kill
  <2>2. r * level \in Nat
    <3>1. r \in Nat /\ level \in Nat
      BY NumberAssumption, Values
    <3>2. QED
      BY <3>1
  <2> DEFINE k == Place("gain", exp, r * level)
  <2>3. k \in Places
    BY <2>2, FitsElsewhere, OtherNames
  <2>4. k.pc = "gain" /\ k.seen = exp /\ k.amount = r * level
    BY PlaceFields
  <2>5. Goto("own", k) /\ exp' = exp /\ level' = level /\ at["own"].pc = "idle"
    BY <1>2, <2>1, IdleIsPlace DEF Kill, stats
  <2> HIDE DEF k
  <2>6. Reads(k, exp)
    BY <2>4 DEF Reads
  <2>7. "exp" \notin crossed' => Pays(k, exp, level)
    BY <2>2, <2>3, <2>4, <2>5, GotoStep DEF PaidInv, Pays
  <2>8. QED
    BY <2>3, <2>5, <2>6, <2>7, PaidQuiet
<1>3. CASE Gain
  <2> DEFINE k == Place("test", 0, 0)
  <2>1. k \in Places /\ k.pc = "test"
    BY FitsElsewhere, OtherNames
  <2>2. /\ Goto("own", k) /\ "exp" \in Holds(at["own"].pc) /\ level' = level
        /\ at["own"].pc = "gain" /\ exp' = at["own"].seen + at["own"].amount
    BY <1>3, WhoHoldsExp DEF Gain
  <2> HIDE DEF k
  <2>3. Reads(k, exp') /\ Pays(k, exp', level')
    BY <2>1 DEF Reads, Pays
  <2>4. ASSUME "exp" \notin crossed' PROVE exp' \in Nat
    BY <2>1, <2>2, <2>4, GotoStep DEF PaidInv, Reads, Pays
  <2>5. QED
    BY <2>1, <2>2, <2>3, <2>4, PaidStep
<1>4. CASE LevelTest
  <2>1. exp' = exp /\ level' = level /\ at["own"].pc = "test"
    BY <1>4 DEF LevelTest, stats
  <2>2. CASE exp > Thr(level)
    <3>1. Goto("own", Place("up", exp, 0))
      BY <1>4, <2>2, Zenon DEF LevelTest
    <3>2. Place("up", exp, 0) \in Places
      BY FitsElsewhere, OtherNames, LoginNames, Values, Zenon
    <3>3. Reads(Place("up", exp, 0), exp) /\ Pays(Place("up", exp, 0), exp, level)
      BY <2>2, PlaceFields DEF Reads, Pays
    <3>4. QED
      BY <2>1, <3>1, <3>2, <3>3, PaidQuiet
  <2>3. CASE ~(exp > Thr(level))
    <3>1. Goto("own", Idle)
      BY <1>4, <2>3, Zenon DEF LevelTest
    <3>2. Reads(Idle, exp) /\ Pays(Idle, exp, level)
      BY <2>3, IdleIsPlace DEF Reads, Pays
    <3>3. QED
      BY <2>1, <3>1, <3>2, IdleIsPlace, PaidQuiet
  <2>4. QED
    BY <2>2, <2>3
<1>5. CASE LevelUp
  <2> DEFINE k == Place("full", 0, 0)
  <2>1. k \in Places /\ k.pc = "full"
    BY FitsElsewhere, OtherNames
  <2>2. /\ Goto("own", k) /\ "exp" \in Holds(at["own"].pc) /\ level' \in Nat \ {0}
        /\ at["own"].pc = "up" /\ exp' = at["own"].seen - Thr(level)
    BY <1>5, WhoHoldsExp DEF LevelUp
  <2> HIDE DEF k
  <2>3. Reads(k, exp') /\ Pays(k, exp', level')
    BY <2>1 DEF Reads, Pays
  <2>4. ASSUME "exp" \notin crossed' PROVE exp' \in Nat
    <3>1. exp \in Nat /\ exp > Thr(level) /\ at["own"].seen = exp
      BY <2>1, <2>2, <2>4, GotoStep DEF PaidInv, Reads, Pays
    <3>2. QED
      BY <2>2, <3>1
  <2>5. QED
    BY <2>1, <2>2, <2>3, <2>4, PaidStep
<1>6. CASE LevelHp
  <2>1. Goto("own", Place("test", 0, 0)) /\ exp' = exp /\ level' = level
    BY <1>6 DEF LevelHp
  <2>2. QED
    BY <1>1, <2>1, FitsElsewhere, OtherNames
<1>7. CASE Login
  <2>1. Goto("own", Place("load", 0, 0)) /\ exp' = exp /\ level' = level /\ at["own"].pc = "idle"
    BY <1>7, IdleIsPlace DEF Login, stats
  <2>2. QED
    BY <1>1, <2>1, FitsElsewhere, OtherNames
<1>8. CASE LoginLoad
  <2> DEFINE k == Place("clear", 0, 0)
  <2>1. k \in Places /\ k.pc = "clear"
    BY FitsElsewhere, OtherNames, LoginNames, Zenon
  <2>2. Goto("own", k) /\ "exp" \in Holds(at["own"].pc) /\ exp' = 0
    BY <1>8, WhoHoldsExp DEF LoginLoad
  <2>3. level' \in Nat \ {0}
    BY <1>8 DEF LoginLoad
  <2> HIDE DEF k
  <2>4. Thr(level') \in Nat
    BY <2>3, ThresholdIsNat
  <2>5. Reads(k, exp') /\ Pays(k, exp', level')
    BY <2>1, <2>2, <2>4 DEF Reads, Pays
  <2>6. QED
    BY <2>1, <2>2, <2>3, <2>5, PaidStep
<1>9. CASE LoginClear
  <2>1. Goto("own", Place("check", 0, 0)) /\ exp' = exp /\ level' = level /\ at["own"].pc = "clear"
    BY <1>9, Zenon DEF LoginClear, stats
  <2>2. QED
    BY <1>1, <2>1, FitsElsewhere, OtherNames
<1>10. CASE LoginCheck
  <2>1. exp' = exp /\ level' = level /\ at["own"].pc = "check"
    BY <1>10 DEF LoginCheck, stats
  <2>2. Goto("own", Place("push", 0, 0)) \/ Goto("own", Idle)
    BY <1>10, Zenon DEF LoginCheck
  <2>3. QED
    BY <1>1, <2>1, <2>2, FitsElsewhere, OtherNames, IdleIsPlace
<1>11. CASE LoginPush
  BY <1>1, <1>11, FitsElsewhere, OtherNames DEF LoginPush, stats
<1>12. CASE LoginMark
  <2>1. Goto("own", Idle) /\ exp' = exp /\ level' = level /\ at["own"].pc = "mark"
    BY <1>12, Zenon DEF LoginMark, stats
  <2>2. QED
    BY <1>1, <2>1, IdleIsPlace
<1>13. QED
  BY <1>2, <1>3, <1>4, <1>5, <1>6, <1>7, <1>8, <1>9, <1>10, <1>11, <1>12 DEF Own

LEMMA ReloadPaid == ASSUME TypeOK, PaidInv, NEW t \in Threads, Reload(t) PROVE PaidInv'
<1> USE Values
<1>1. PICK k \in Places :
        Goto(t, k) /\ k.pc = at[t].pc /\ k.pc \in {"store", "add", "fill", "up"}
        /\ (k.pc = "up" => k.seen = exp)
  BY ReloadPlace
<1>2. exp' = exp /\ level' = level
  BY DEF Reload, stats
<1>3. Reads(k, exp)
  BY <1>1 DEF Reads
<1>4. t = "own" /\ "exp" \notin crossed' => Pays(k, exp, level)
  BY <1>1, GotoStep DEF PaidInv, Pays
<1>5. QED
  BY <1>1, <1>2, <1>3, <1>4, PaidQuiet

LEMMA NextPaid == ASSUME TypeOK, PaidInv, [Next]_vars PROVE PaidInv'
<1>1. CASE UNCHANGED vars
  BY <1>1 DEF PaidInv, Apart, vars, stats
<1>2. QED
  BY <1>1, HitPaid, TimerPaid, OwnPaid, ReloadPaid DEF Next

\* LevelPaid: whatever monsters are worth and whatever they take, between two
\* packets a user's experience is between nothing and what its level asks for,
\* unless two threads worked on exp at the same time.
THEOREM LevelPaidHolds == Spec => []LevelPaid
<1>1. ASSUME TypeOK, PaidInv, "exp" \notin crossed, at["own"] = Idle PROVE exp \in 0..Thr(level)
  <2>1. exp \in Nat /\ Pays(at["own"], exp, level) /\ at["own"].pc = "idle"
    BY <1>1, IdleIsPlace DEF PaidInv
  <2>2. Thr(level) \in Nat
    BY <1>1, Values, ThresholdIsNat
  <2>3. QED
    BY <2>1, <2>2 DEF Pays
<1>2. TypeOK /\ PaidInv => LevelPaid
  BY <1>1 DEF LevelPaid
<1>3. Init => TypeOK /\ PaidInv
  BY InitTypes, InitPaid
<1>4. TypeOK /\ PaidInv /\ [Next]_vars => (TypeOK /\ PaidInv)'
  BY NextTypes, NextPaid
<1>5. QED
  BY <1>2, <1>3, <1>4, PTL DEF Spec
=============================================================================
