------------------------------- MODULE Combat -------------------------------
(***************************************************************************)
(* Fighting: hit points, the combat system's actions and the events they   *)
(* publish, and the two requests of the game server that hurt somebody.    *)
(*                                                                         *)
(* Handlers run one at a time, on the server's thread.  What a hit does is *)
(* any of Hits, which stands for stats, dodge and critical rolls; whether  *)
(* a skill may be used is CharacterSkills' business, and its level here is *)
(* any of SkillLevels.  Events and results carry more than is kept here.   *)
(***************************************************************************)
EXTENDS Integers, Sequences

CONSTANTS
  Fighter,      \* actors, each with a connection that plays it
  MaxHp,        \* derivedStats_.maxHp, of all of them
  Hits,         \* finalDamage of a hit; never below 1
  SkillLevels,  \* levels that skills in use have
  Heals         \* amounts Actor::heal is called with

\* handleSkillRequest: "Simplified".
DamagePerLevel == 20

ASSUME CombatAssumption ==
  /\ MaxHp \in Nat \ {0}
  /\ Hits \subseteq Nat \ {0}
  /\ SkillLevels \subseteq Nat \ {0}
  /\ Heals \subseteq Int

VARIABLES
  actors,     \* who is registered with the ActorManager
  hp,         \* runtimeStats_.currentHp
  published,  \* the events of the last step, in order
  obits,      \* history: how many DeathEvents named it in this life, 2 for "many"
  fatal       \* history: what brought its hit points to zero in this life

vars == <<actors, hp, published, obits, fatal>>

Event == [type : {"damage", "death", "skillUsed"}, from : Fighter, to : Fighter \cup {"none"}]

Damage(a, t) == [type |-> "damage", from |-> a, to |-> t]
Death(t, a) == [type |-> "death", from |-> a, to |-> t]
SkillUsed(a, t) == [type |-> "skillUsed", from |-> a, to |-> t]

Init ==
  /\ actors = Fighter
  /\ hp = [a \in Fighter |-> MaxHp]
  /\ published = <<>>
  /\ obits = [a \in Fighter |-> 0]
  /\ fatal = [a \in Fighter |-> "nothing"]

IsAlive(a) == hp[a] > 0

-----------------------------------------------------------------------------
(* Actor::takeDamage and heal. *)

\* Faulty: the damage is not cut off at what is left.
HpAfterUncut(h, n) == IF n > 0 /\ h > 0 THEN h - n ELSE h

HpAfter(h, n) ==
  IF n > 0 /\ h > 0 THEN (IF n < h THEN h - n ELSE 0) ELSE h

\* Faulty: the dead are healed too.
HpHealedAlways(h, n) ==
  IF n > 0 THEN (IF n < MaxHp - h THEN h + n ELSE MaxHp) ELSE h

HpHealed(h, n) ==
  IF n > 0 /\ h > 0 THEN (IF n < MaxHp - h THEN h + n ELSE MaxHp) ELSE h

\* Damage n to t, by a cause.
Hurt(t, n, cause) ==
  /\ hp' = [hp EXCEPT ![t] = HpAfter(@, n)]
  /\ fatal' = [fatal EXCEPT ![t] = IF IsAlive(t) /\ hp'[t] = 0 THEN cause ELSE @]

Counted(S) == [a \in Fighter |-> IF a \in S /\ obits[a] < 2 THEN obits[a] + 1 ELSE obits[a]]

\* Faulty: looks before the damage is applied.
IsDeadBefore(t) == hp[t] <= 0

\* Whether a hit on t is followed by a DeathEvent: t is not alive after it, be it
\* that it was not before either.
IsDeadAfter(t) == hp'[t] <= 0

\* A hit on t by a: damage, the events in first, a DamageEvent, and a DeathEvent
\* if t is dead.
Hit(a, t, first) ==
  \E n \in Hits :
    /\ Hurt(t, n, "attack")
    /\ published' = first \o <<Damage(a, t)>> \o (IF IsDeadAfter(t) THEN <<Death(t, a)>> ELSE <<>>)
    /\ obits' = Counted(IF IsDeadAfter(t) THEN {t} ELSE {})

Dodged ==
  /\ published' = <<>>
  /\ UNCHANGED <<hp, obits, fatal>>

-----------------------------------------------------------------------------
(* CombatSystem.  The handlers check that the actors exist, processAction  *)
(* that they are alive.                                                    *)

HandleBasicAttack(a, t) ==
  /\ {a, t} \subseteq actors
  /\ Dodged \/ Hit(a, t, <<>>)
  /\ UNCHANGED actors

HandleSkillAttack(a, t) ==
  /\ {a, t} \subseteq actors
  /\ Dodged \/ Hit(a, t, <<SkillUsed(a, t)>>)
  /\ UNCHANGED actors

\* Announces the skill and does nothing else.
HandleAreaSkill(a) ==
  /\ published' = <<SkillUsed(a, "none")>>
  /\ UNCHANGED <<actors, hp, obits, fatal>>

HandleSelfSkill(a) ==
  /\ a \in actors
  /\ published' = <<SkillUsed(a, a)>>
  /\ UNCHANGED <<actors, hp, obits, fatal>>

\* Faulty: the target is not looked at.
MayAttackAnyone(a, t) == a \in actors /\ IsAlive(a)

\* canPerformAction, for attacks and for skills without a target.
MayAttack(a, t) == {a, t} \subseteq actors /\ IsAlive(a) /\ IsAlive(t)
MayUse(a) == a \in actors /\ IsAlive(a)

ProcessAttack(a, t) == MayAttack(a, t) /\ (HandleBasicAttack(a, t) \/ HandleSkillAttack(a, t))
ProcessSkill(a) == MayUse(a) /\ (HandleAreaSkill(a) \/ HandleSelfSkill(a))

-----------------------------------------------------------------------------
(* GameServer. *)

\* handleAttack goes past processAction.
HandleAttack(a, t) ==
  /\ a \in actors
  /\ t \in actors
  /\ HandleBasicAttack(a, t)

\* handleSkillRequest, once useSkill has agreed: whatever the skill is (Heal is
\* one), a target that exists takes damage, and no event is published.
HandleSkillRequest(a, t) ==
  /\ a \in actors
  /\ \E l \in SkillLevels :
       IF t \in actors THEN Hurt(t, l * DamagePerLevel, "skill") ELSE UNCHANGED <<hp, fatal>>
  /\ published' = <<>>
  /\ UNCHANGED <<actors, obits>>

\* Actor::takeDamage and heal, as the API they are.
TakeDamage(t, n) ==
  /\ Hurt(t, n, "other")
  /\ published' = <<>>
  /\ UNCHANGED <<actors, obits>>

Heal(t, n) ==
  /\ hp' = [hp EXCEPT ![t] = HpHealed(@, n)]
  /\ published' = <<>>
  /\ UNCHANGED <<actors, obits, fatal>>

\* Actor::onLevelUp fills the hit points up, whether or not there are any left;
\* with that a life begins, and its history.
OnLevelUp(a) ==
  /\ hp' = [hp EXCEPT ![a] = MaxHp]
  /\ obits' = [obits EXCEPT ![a] = 0]
  /\ fatal' = [fatal EXCEPT ![a] = "nothing"]
  /\ published' = <<>>
  /\ UNCHANGED actors

\* The player logs out: removeActor.
Leave(a) ==
  /\ a \in actors
  /\ actors' = actors \ {a}
  /\ published' = <<>>
  /\ UNCHANGED <<hp, obits, fatal>>

Next ==
  \E a \in Fighter :
    \/ ProcessSkill(a)
    \/ OnLevelUp(a)
    \/ Leave(a)
    \/ \E n \in Hits : TakeDamage(a, n)
    \/ \E n \in Heals : Heal(a, n)
    \/ \E t \in Fighter :
         \/ ProcessAttack(a, t)
         \/ HandleAttack(a, t)
         \/ HandleSkillRequest(a, t)

Spec == Init /\ [][Next]_vars

-----------------------------------------------------------------------------
(* Properties. *)

\* Hit points stay between zero and the maximum.
TypeOK ==
  /\ actors \subseteq Fighter
  /\ hp \in [Fighter -> 0 .. MaxHp]
  /\ published \in Seq(Event)
  /\ obits \in [Fighter -> 0 .. 2]
  /\ fatal \in [Fighter -> {"nothing", "attack", "skill", "other"}]

\* Nothing that happens in a fight brings the dead back, but a level gained does.
DeathIsFinal == [][\A a \in Fighter : hp[a] = 0 => hp'[a] = 0 \/ OnLevelUp(a)]_vars

\* Only the dead are announced dead; whoever fell to an attack is; and fatal
\* tells the dead from the living.
DeathsAnnounced ==
  \A a \in Fighter :
    /\ obits[a] > 0 => hp[a] = 0
    /\ fatal[a] = "attack" => obits[a] > 0
    /\ hp[a] = 0 <=> fatal[a] # "nothing"

\* An action that processAction lets through announces no death a second time,
\* and its events are between the living.
ValidatedActionsSound ==
  [][\A a, t \in Fighter :
       ProcessAttack(a, t) =>
         /\ \A x \in Fighter : obits'[x] > obits[x] => obits[x] = 0 /\ x = t
         /\ \A i \in 1 .. Len(published') : published'[i].type = "damage" => hp[t] > 0 /\ hp[a] > 0]_vars

\* Every DamageEvent is between two actors that were alive.
AttacksAreValid ==
  [][\A i \in 1 .. Len(published') :
       published'[i].type = "damage" =>
         hp[published'[i].from] > 0 /\ hp[published'[i].to] > 0]_vars
=============================================================================
