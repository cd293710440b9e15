------------------------------- MODULE Combat -------------------------------
(***************************************************************************)
(* Health, healing and experience of one session slot: API_ChangeStat, the *)
(* reward part of CS_ATTACK, the EV_HEAL branch of do_timer and the stat   *)
(* part of CS_LOGIN in multi_iocp_server.cpp.                              *)
(*                                                                         *)
(* Three kinds of threads write the same fields without a lock: a worker   *)
(* per monster that runs its script, the worker that handles the user's    *)
(* own packets, and the timer.  A read-modify-write is two steps here: the *)
(* value a thread computes from is read at the test or at any moment until *)
(* the store (Reload), which is what a build can make of the data race.    *)
(* The fields belong to the slot and not to the user: a script, and the    *)
(* EV_HEAL events, only hold the slot's number and outlive a session.      *)
(***************************************************************************)
EXTENDS Integers

CONSTANTS
  Monsters,    \* monsters that may strike the user
  Strength,    \* their atk values
  HpPerLevel,  \* 10: max_hp of a level
  HealShare,   \* 10: a heal event gives max_hp / HealShare
  ExpBase,     \* 100: experience that level 1 asks for
  Rewards,     \* pl->level * pl->exp * 2 of the monsters that can be killed
  MaxDeeds,    \* bound: logins, strikes and kills together
  TopLevel     \* bound: level of a saved user

Threads == Monsters \cup {"own", "timer"}

ASSUME ThreadAssumption == {"own", "timer"} \cap Monsters = {}
ASSUME NumberAssumption ==
  /\ Strength \subseteq Nat \ {0} /\ Rewards \subseteq Nat
  /\ HealShare \in Nat \ {0} /\ HpPerLevel \in Nat /\ HealShare <= HpPerLevel
  /\ ExpBase \in Nat /\ MaxDeeds \in Nat
  /\ TopLevel \in Nat \ {0}

VARIABLES
  hp, max_hp, level, exp,
  healing,                  \* the slot believes that a heal event is queued
  heals,                    \* EV_HEAL events of the slot in g_event_queue
  at,                       \* where each thread is, and the values it holds
  known,                    \* monsters have been told of the slot
  deeds,                    \* logins, strikes and kills so far
  resets,                   \* history: healing cleared while a chain goes on
  crossed                   \* history: the fields two threads worked on at once

stats == <<hp, max_hp, level, exp>>
count == <<known, deeds>>
vars  == <<stats, healing, heals, at, count, resets, crossed>>

-----------------------------------------------------------------------------
Thr(l)  == ExpBase * 2 ^ (l - 1)
Half(n) == IF n >= 0 THEN n \div 2 ELSE -((-n) \div 2)

\* seen: the value read last; amount: atk, reward or max_hp read with it.
Place(pc, seen, amount) == [pc |-> pc, seen |-> seen, amount |-> amount]
Idle == Place("idle", 0, 0)

\* The places where a thread has read a field, or is about to write one that
\* goes with it, and has not written it yet.
Holds(pc) ==
     {f \in {"hp"} : pc \in {"store", "revive", "add", "fill", "full", "load"}}
\cup {f \in {"exp"} : pc \in {"halve", "gain", "test", "up", "load"}}
\cup {f \in {"calm"} : pc \in {"arm", "flag", "fill", "done", "check", "push", "mark"}}

\* Two hits that arm at the same time share "calm" too.
Goto(t, k) ==
  /\ at' = [at EXCEPT ![t] = k]
  /\ crossed' = crossed \cup {f \in Holds(k.pc) : \E u \in Threads \ {t} : f \in Holds(at[u].pc)}

\* A chain of heal events: one is queued, or the timer is at work on it.
Chains  == heals + (IF at["timer"] = Idle THEN 0 ELSE 1)
Cleared == resets' = IF Chains > 0 THEN resets + 1 ELSE resets

\* Until it stores, a thread may read again what it computes from.
Reload(t) ==
  LET k == at[t] IN
  /\ \/ k.pc = "store" /\ Goto(t, [k EXCEPT !.seen = hp])
     \/ k.pc = "add" /\ Goto(t, [k EXCEPT !.seen = hp, !.amount = max_hp])
     \/ k.pc = "fill" /\ Goto(t, [k EXCEPT !.amount = max_hp])
     \/ k.pc = "up" /\ Goto(t, [k EXCEPT !.seen = exp])
  /\ UNCHANGED <<stats, healing, heals, count, resets>>

-----------------------------------------------------------------------------
(* API_ChangeStat: a monster strikes. *)

\* Mutation of HitTest: a hit that leaves nothing does not kill.
HitTestKind(m) ==
  /\ at[m] = Idle /\ known /\ deeds < MaxDeeds
  /\ \E a \in Strength : Goto(m, Place(IF hp - a >= 0 THEN "store" ELSE "die", hp, a))
  /\ deeds' = deeds + 1
  /\ UNCHANGED <<stats, healing, heals, known, resets>>

\* The test hp - atk > 0.  Whoever had the slot once can be struck, gone or
\* not; the first user is known to the monsters when CS_LOGIN scans for them.
HitTest(m) ==
  /\ at[m] = Idle /\ known /\ deeds < MaxDeeds
  /\ \E a \in Strength : Goto(m, Place(IF hp - a > 0 THEN "store" ELSE "die", hp, a))
  /\ deeds' = deeds + 1
  /\ UNCHANGED <<stats, healing, heals, known, resets>>

HitStore(m) ==
  /\ at[m].pc = "store"
  /\ hp' = at[m].seen - at[m].amount
  /\ Goto(m, Place("arm", 0, 0))
  /\ UNCHANGED <<max_hp, level, exp, healing, heals, count, resets>>

\* Mutation of HitArm: every hit queues an event.
HitArmAlways(m) ==
  /\ at[m].pc = "arm"
  /\ heals' = heals + 1
  /\ Goto(m, Place("flag", 0, 0))
  /\ UNCHANGED <<stats, healing, count, resets>>

\* Messages go out, then: unless it is healing already, queue a heal event ...
HitArm(m) ==
  /\ at[m].pc = "arm"
  /\ heals' = IF healing THEN heals ELSE heals + 1
  /\ Goto(m, Place("flag", 0, 0))
  /\ UNCHANGED <<stats, healing, count, resets>>

\* ... and say so.
HitFlag(m) ==
  /\ at[m].pc = "flag"
  /\ healing' = TRUE
  /\ Goto(m, Idle)
  /\ UNCHANGED <<stats, heals, count, resets>>

\* The fatal branch reads max_hp, stores it as hp, halves exp and clears
\* healing; the queued event stays in the queue.
DieLoad(m) ==
  /\ at[m].pc = "die"
  /\ Goto(m, Place("revive", max_hp, 0))
  /\ UNCHANGED <<stats, healing, heals, count, resets>>

DieHp(m) ==
  /\ at[m].pc = "revive"
  /\ hp' = at[m].seen
  /\ Goto(m, Place("halve", exp, 0))
  /\ UNCHANGED <<max_hp, level, exp, healing, heals, count, resets>>

DieExp(m) ==
  /\ at[m].pc = "halve"
  /\ exp' = Half(at[m].seen)
  /\ Goto(m, Place("calm", 0, 0))
  /\ UNCHANGED <<hp, max_hp, level, healing, heals, count, resets>>

DieCalm(m) ==
  /\ at[m].pc = "calm"
  /\ healing' = FALSE
  /\ Cleared
  /\ Goto(m, Idle)
  /\ UNCHANGED <<stats, heals, count>>

-----------------------------------------------------------------------------
(* do_timer, EV_HEAL. *)

\* Mutation of TimerTest: the event always adds.
TimerTestNoCap ==
  /\ at["timer"] = Idle /\ heals > 0
  /\ heals' = heals - 1
  /\ Goto("timer", Place("add", hp, max_hp))
  /\ UNCHANGED <<stats, healing, count, resets>>

\* try_pop of a due event: is there room for another share?
TimerTest ==
  /\ at["timer"] = Idle /\ heals > 0
  /\ heals' = heals - 1
  /\ Goto("timer", IF hp + max_hp \div HealShare < max_hp THEN Place("add", hp, max_hp)
                                                         ELSE Place("fill", 0, max_hp))
  /\ UNCHANGED <<stats, healing, count, resets>>

TimerAdd ==
  /\ at["timer"].pc = "add"
  /\ hp' = at["timer"].seen + at["timer"].amount \div HealShare
  /\ Goto("timer", Place("again", 0, 0))
  /\ UNCHANGED <<max_hp, level, exp, healing, heals, count, resets>>

\* Mutation of TimerAgain: the next event is not queued.
TimerAgainOnce ==
  /\ at["timer"].pc = "again"
  /\ Goto("timer", Idle)
  /\ UNCHANGED <<stats, healing, heals, count, resets>>

TimerAgain ==
  /\ at["timer"].pc = "again"
  /\ heals' = heals + 1
  /\ Goto("timer", Idle)
  /\ UNCHANGED <<stats, healing, count, resets>>

TimerFill ==
  /\ at["timer"].pc = "fill"
  /\ hp' = at["timer"].amount
  /\ Goto("timer", Place("done", 0, 0))
  /\ UNCHANGED <<max_hp, level, exp, healing, heals, count, resets>>

TimerCalm ==
  /\ at["timer"].pc = "done"
  /\ healing' = FALSE
  /\ Goto("timer", Idle)
  /\ UNCHANGED <<stats, heals, count, resets>>

-----------------------------------------------------------------------------
(* The user's own packets. *)

\* CS_ATTACK kills a monster: the reward grows with the user's level ...
Kill ==
  /\ at["own"] = Idle /\ known /\ deeds < MaxDeeds
  /\ \E r \in Rewards : Goto("own", Place("gain", exp, r * level))
  /\ deeds' = deeds + 1
  /\ UNCHANGED <<stats, healing, heals, known, resets>>

Gain ==
  /\ at["own"].pc = "gain"
  /\ exp' = at["own"].seen + at["own"].amount
  /\ Goto("own", Place("test", 0, 0))
  /\ UNCHANGED <<hp, max_hp, level, healing, heals, count, resets>>

\* ... and is worth as many levels as it pays for.
LevelTest ==
  /\ at["own"].pc = "test"
  /\ Goto("own", IF exp > Thr(level) THEN Place("up", exp, 0) ELSE Idle)
  /\ UNCHANGED <<stats, healing, heals, count, resets>>

LevelUp ==
  /\ at["own"].pc = "up"
  /\ exp'    = at["own"].seen - Thr(level)
  /\ level'  = level + 1
  /\ max_hp' = HpPerLevel * level'
  /\ Goto("own", Place("full", 0, 0))
  /\ UNCHANGED <<hp, healing, heals, count, resets>>

\* Mutation of LevelHp: one level per kill.
LevelHpOnce ==
  /\ at["own"].pc = "full"
  /\ hp' = max_hp
  /\ Goto("own", Idle)
  /\ UNCHANGED <<max_hp, level, exp, healing, heals, count, resets>>

LevelHp ==
  /\ at["own"].pc = "full"
  /\ hp' = max_hp
  /\ Goto("own", Place("test", 0, 0))
  /\ UNCHANGED <<max_hp, level, exp, healing, heals, count, resets>>

\* CS_LOGIN in the slot, which its last user, if any, has left: disconnect
\* leaves stats, healing and the queued events as they are.
Login ==
  /\ at["own"] = Idle /\ deeds < MaxDeeds
  /\ deeds' = deeds + 1
  /\ Goto("own", Place("load", 0, 0))
  /\ UNCHANGED <<stats, healing, heals, known, resets>>

\* The row of the account, new or as an earlier session left it: with all
\* its health or the last point of it, and no experience.
LoginLoad ==
  /\ at["own"].pc = "load"
  /\ \E l \in 1..TopLevel :
       /\ level' = l /\ max_hp' = HpPerLevel * l
       /\ hp' \in {1, max_hp'} /\ exp' = 0
  /\ Goto("own", Place("clear", 0, 0))
  /\ UNCHANGED <<healing, heals, count, resets>>

LoginClear ==
  /\ at["own"].pc = "clear"
  /\ healing' = FALSE
  /\ Cleared
  /\ Goto("own", Place("check", 0, 0))
  /\ UNCHANGED <<stats, heals, count>>

\* A wounded user gets an event at once.
LoginCheck ==
  /\ at["own"].pc = "check"
  /\ Goto("own", IF hp < max_hp THEN Place("push", 0, 0) ELSE Idle)
  /\ known' = (known \/ hp >= max_hp)
  /\ UNCHANGED <<stats, healing, heals, deeds, resets>>

LoginPush ==
  /\ at["own"].pc = "push"
  /\ heals' = heals + 1
  /\ Goto("own", Place("mark", 0, 0))
  /\ UNCHANGED <<stats, healing, count, resets>>

LoginMark ==
  /\ at["own"].pc = "mark"
  /\ healing' = TRUE /\ known' = TRUE
  /\ Goto("own", Idle)
  /\ UNCHANGED <<stats, heals, deeds, resets>>

-----------------------------------------------------------------------------
\* The constructor's values.
Init ==
  /\ hp = HpPerLevel /\ max_hp = HpPerLevel /\ level = 1 /\ exp = 0
  /\ healing = FALSE /\ heals = 0
  /\ at = [t \in Threads |-> Idle]
  /\ known = FALSE /\ deeds = 0 /\ resets = 0 /\ crossed = {}

Hit(m) == \/ HitTest(m) \/ HitStore(m) \/ HitArm(m) \/ HitFlag(m)
          \/ DieLoad(m) \/ DieHp(m) \/ DieExp(m) \/ DieCalm(m)
Timer  == TimerTest \/ TimerAdd \/ TimerAgain \/ TimerFill \/ TimerCalm
Own    == \/ Kill \/ Gain \/ LevelTest \/ LevelUp \/ LevelHp
          \/ Login \/ LoginLoad \/ LoginClear \/ LoginCheck \/ LoginPush \/ LoginMark

Next == \/ \E m \in Monsters : Hit(m)
        \/ Timer \/ Own
        \/ \E t \in Threads : Reload(t)

\* Every thread goes on with what it began, and the timer takes what is due.
Fairness ==
  /\ \A m \in Monsters : WF_vars(at[m] # Idle /\ Hit(m))
  /\ WF_vars(at["own"] # Idle /\ Own)
  /\ WF_vars(Timer)

Spec     == Init /\ [][Next]_vars
FairSpec == Spec /\ Fairness

-----------------------------------------------------------------------------
Pcs == {"idle", "store", "arm", "flag", "die", "revive", "halve", "calm",
        "add", "again", "fill", "done",
        "gain", "test", "up", "full", "load", "clear", "check", "push", "mark"}

\* Types of the variables.
TypeOK ==
  /\ healing \in BOOLEAN /\ known \in BOOLEAN
  /\ hp \in Int /\ max_hp \in Int /\ level \in Nat \ {0} /\ exp \in Int
  /\ heals \in Nat /\ resets \in Nat
  /\ deeds \in Nat
  /\ at \in [Threads -> [pc : Pcs, seen : Int, amount : Int]]
  /\ crossed \subseteq {"hp", "exp", "calm"}

Struck == \E m \in Monsters : at[m] # Idle

\* A wounded user whom nobody is striking has a heal event on its way, unless
\* two threads worked on hp or on healing at the same time (a hit between the
\* timer's last heal and its healing = false).
WoundedHeals ==
  hp < max_hp /\ ~Struck /\ at["own"] = Idle /\ crossed \cap {"hp", "calm"} = {} => Chains > 0

\* At most one chain of heal events runs for a slot, and one more for every
\* death or login that cleared healing and left the event in the queue.
ChainsCounted == "calm" \notin crossed => Chains <= 1 + resets

\* Nobody is left alive without health: the hit that takes the last point
\* kills, unless two threads worked on hp at the same time.
LifeLeft == "hp" \notin crossed => hp >= 1

\* Healing stops at max_hp, unless two threads worked on hp at the same time.
NoOverheal == "hp" \notin crossed => hp <= max_hp

\* Between two packets the experience is one the level has not paid out yet,
\* however many levels a kill was worth, unless a death came in between.
LevelPaid == "exp" \notin crossed /\ at["own"] = Idle => exp \in 0..Thr(level)

\* Left in peace (deeds are bounded), a wounded user comes back to
\* full health, unless threads crossed on hp or healing.
PeaceHeals == hp < max_hp ~> hp >= max_hp \/ crossed \cap {"hp", "calm"} # {}
=============================================================================
