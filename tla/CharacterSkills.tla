--------------------------- MODULE CharacterSkills ---------------------------
(***************************************************************************)
(* One character: the actor of Vitals, and on top of it skill points, the  *)
(* skill tree, what skills cost in mana, and their cooldowns against the   *)
(* server's tick.                                                          *)
(*                                                                         *)
(* A character's clock is lastUpdateTick_, set by the tick that updates    *)
(* it.  It is 0 when the character is made, which for a character made at  *)
(* login is between two ticks, StartTick after the server came up.         *)
(*                                                                         *)
(* learnedSkills_ and skillLevels_ change together, so one function stands *)
(* for both, 0 being not learned.  A request the code refuses changes      *)
(* nothing and is no action here.  All calls are made by one thread: while *)
(* a gain of experience is in its loop, nothing else happens.              *)
(***************************************************************************)
EXTENDS Vitals, FiniteSets

CONSTANTS
  Skills,         \* the skills of the tree that are looked at
  Values,         \* what a primary stat is set to
  Changing,       \* bound: the primary stats that are set
  MaxChanges,     \* bound: how often one is
  Hurts,          \* what takeDamage and heal are called with
  Restored,       \* what restoreMana is called with
  Gains,          \* amounts of experience that can be gained at once
  MaxExperience,  \* bound: experience gained altogether
  StartTick,      \* the server's tick when the character is made
  Jumps,          \* by how many ticks time may pass at once
  MaxTicks        \* bound: how many ticks pass altogether

Skill == 1 .. 9

\* SkillRequirement of the default database: the skill needed, its level, and
\* the level of the character.  None is needed for the first tier.
NoSkill == 0

Requirement(s) ==
  IF s \in 1 .. 3 THEN [prerequisiteSkill |-> NoSkill, prerequisiteLevel |-> 0, requiredCharLevel |-> 1]
  ELSE IF s \in 4 .. 6
  THEN [prerequisiteSkill |-> s - 3, prerequisiteLevel |-> 2, requiredCharLevel |-> 5]
  ELSE [prerequisiteSkill |-> s - 3, prerequisiteLevel |-> 3, requiredCharLevel |-> 10]

\* The prerequisites in the tree GameServer builds, which say it once more.
Prerequisites(s) == IF s \in 1 .. 3 THEN {} ELSE {s - 3}

ManaCost == <<10, 25, 30, 25, 40, 35, 50, 100, 60>>
Cooldown == <<2, 3, 5, 5, 6, 10, 30, 60, 45>>
MaxLevel(s) == IF s \in 7 .. 9 THEN 3 ELSE 5

ASSUME SkillsAssumption ==
  /\ Skills \subseteq Skill
  /\ \A s \in Skills : Prerequisites(s) \subseteq Skills
  /\ \A v \in Values : v \in Nat /\ v <= 1000
  /\ Changing \subseteq PrimaryStat \cup {"other"}
  /\ MaxChanges \in Nat
  /\ Hurts \subseteq Nat
  /\ Restored \subseteq Nat
  /\ Gains \subseteq Nat
  /\ MaxExperience \in Nat /\ MaxExperience < 100000000
  /\ StartTick \in Nat
  /\ Jumps \subseteq Nat \ {0}
  /\ MaxTicks \in Nat

VARIABLES
  skillPoints,     \* skillPoints_
  skillLevels,     \* skillLevels_ and learnedSkills_
  skillCooldowns,  \* skillCooldowns_: the tick from which a skill is usable, 0 if never used
  lastUpdateTick,  \* lastUpdateTick_
  currentTick,     \* GameServer::currentTick_
  lastUse,         \* history: when each skill was last used, and at which level
  changes          \* history: how often a primary stat was set

points == <<skillPoints, skillLevels>>
cooldowns == <<skillCooldowns, lastUse>>
clocks == <<lastUpdateTick, currentTick>>
vars == <<actorVars, points, cooldowns, clocks, changes>>

-----------------------------------------------------------------------------
\* base * (1 + (l - 1) / 10), cut off.
ScaledManaCost(s, l) == (ManaCost[s] * (9 + l)) \div 10

\* base * (1 - (l - 1) * 0.075) * 1000, cut off: in single precision the product
\* of skills 2 and 5 at level 4 is the float below the whole number.
CooldownTicks(s, l) ==
  Cooldown[s] * (1000 - 75 * (l - 1)) - (IF s \in {2, 5} /\ l = 4 THEN 1 ELSE 0)

Learned == {s \in Skills : skillLevels[s] > 0}

-----------------------------------------------------------------------------
Init ==
  /\ ActorInit
  /\ skillPoints = 3
  /\ skillLevels = [s \in Skills |-> 0]
  /\ skillCooldowns = [s \in Skills |-> 0]
  /\ lastUpdateTick = 0
  /\ currentTick = StartTick
  /\ lastUse = [s \in Skills |-> [at |-> 0, level |-> 0]]
  /\ changes = 0

-----------------------------------------------------------------------------
(* The skill tree. *)

\* Faulty: only the character's level is looked up in the database.
CanLearnAnyLevel(s) ==
  /\ Prerequisites(s) \subseteq Learned
  /\ level >= Requirement(s).requiredCharLevel

\* SkillTree::canLearn.
CanLearn(s) ==
  /\ Prerequisites(s) \subseteq Learned
  /\ level >= Requirement(s).requiredCharLevel
  /\ Requirement(s).prerequisiteSkill # NoSkill =>
       skillLevels[Requirement(s).prerequisiteSkill] >= Requirement(s).prerequisiteLevel

\* Character::canLearnSkill and canUpgradeSkill.
CanLearnSkill(s) == skillPoints > 0 /\ s \notin Learned /\ CanLearn(s)
CanUpgradeSkill(s) == skillPoints > 0 /\ s \in Learned /\ skillLevels[s] < MaxLevel(s)

\* Faulty: the point is not spent.
LearnSkillFree(s) ==
  /\ CanLearnSkill(s)
  /\ skillLevels' = [skillLevels EXCEPT ![s] = 1]
  /\ UNCHANGED <<actorVars, skillPoints, cooldowns, clocks, changes>>

LearnSkill(s) ==
  /\ CanLearnSkill(s)
  /\ skillPoints' = skillPoints - 1
  /\ skillLevels' = [skillLevels EXCEPT ![s] = 1]
  /\ UNCHANGED <<actorVars, cooldowns, clocks, changes>>

\* Faulty: the highest level is one too high.
UpgradeSkillBeyond(s) ==
  /\ skillPoints > 0 /\ s \in Learned /\ skillLevels[s] <= MaxLevel(s)
  /\ skillPoints' = skillPoints - 1
  /\ skillLevels' = [skillLevels EXCEPT ![s] = @ + 1]
  /\ UNCHANGED <<actorVars, cooldowns, clocks, changes>>

UpgradeSkill(s) ==
  /\ CanUpgradeSkill(s)
  /\ skillPoints' = skillPoints - 1
  /\ skillLevels' = [skillLevels EXCEPT ![s] = @ + 1]
  /\ UNCHANGED <<actorVars, cooldowns, clocks, changes>>

-----------------------------------------------------------------------------
(* Using skills. *)

\* Faulty: the cooldown starts only when the last one is over.
UseSkillLate(s) ==
  /\ s \in Learned
  /\ skillCooldowns[s] <= lastUpdateTick
  /\ UseMana(ScaledManaCost(s, skillLevels[s]))
  /\ skillCooldowns' = [skillCooldowns EXCEPT ![s] = @ + CooldownTicks(s, skillLevels[s])]
  /\ lastUse' = [lastUse EXCEPT ![s] = [at |-> currentTick, level |-> skillLevels[s]]]
  /\ UNCHANGED <<points, clocks, changes>>

\* Both the check and the new cooldown go by the character's own clock.
UseSkill(s) ==
  /\ s \in Learned
  /\ skillCooldowns[s] <= lastUpdateTick
  /\ UseMana(ScaledManaCost(s, skillLevels[s]))
  /\ skillCooldowns' = [skillCooldowns EXCEPT ![s] = lastUpdateTick + CooldownTicks(s, skillLevels[s])]
  /\ lastUse' = [lastUse EXCEPT ![s] = [at |-> currentTick, level |-> skillLevels[s]]]
  /\ UNCHANGED <<points, clocks, changes>>

\* n times GameServer::tick, which updates every character.
Update(n) ==
  /\ currentTick + n <= StartTick + MaxTicks
  /\ currentTick' = currentTick + n
  /\ lastUpdateTick' = currentTick'
  /\ UNCHANGED <<actorVars, points, cooldowns, changes>>

-----------------------------------------------------------------------------
(* The actor of the character. *)

\* Character::onLevelUp: each turn of the loop brings a point, too.
LevelUpWithPoint ==
  /\ LevelUp
  /\ skillPoints' = skillPoints + 1
  /\ UNCHANGED <<skillLevels, cooldowns, clocks, changes>>

ChangeStat ==
  /\ changes < MaxChanges
  /\ changes' = changes + 1
  /\ \E s \in Changing, v \in Values : SetPrimaryStat(s, v)
  /\ UNCHANGED <<points, cooldowns, clocks>>

ActorCall ==
  /\ \/ \E n \in Hurts : TakeDamage(n) \/ Heal(n)
     \/ \E n \in Restored : RestoreMana(n)
     \/ \E n \in Gains : experience + n <= MaxExperience /\ GainExperience(n)
  /\ UNCHANGED <<points, cooldowns, clocks, changes>>

SkillCall == \E s \in Skills : LearnSkill(s) \/ UpgradeSkill(s) \/ UseSkill(s)

Next ==
  \/ LevelUpWithPoint
  \/ LevelingEnds /\ UNCHANGED <<points, cooldowns, clocks, changes>>
  \/ ~leveling /\ (ChangeStat \/ ActorCall \/ SkillCall \/ \E n \in Jumps : Update(n))

Spec == Init /\ [][Next]_vars

-----------------------------------------------------------------------------
(* Properties. *)

\* Nothing runs below zero or over its limit.
TypeOK ==
  /\ experience <= MaxExperience
  /\ skillPoints \in Nat
  /\ skillLevels \in [Skills -> Nat]
  /\ \A s \in Skills : skillLevels[s] <= MaxLevel(s)
  /\ skillCooldowns \in [Skills -> Nat]
  /\ currentTick \in StartTick .. (StartTick + MaxTicks)
  /\ lastUpdateTick \in 0 .. currentTick
  /\ lastUse \in [Skills -> [at : Nat, level : 0 .. 5]]
  /\ changes \in 0 .. MaxChanges

\* The levels of skills that are paid for, one point each.
Bought == UNION {{s} \X (1 .. skillLevels[s]) : s \in Skills}

\* Every point ever granted is either left or in the level of some skill.
PointsConserved == skillPoints + Cardinality(Bought) = 3 + (level - 1)

\* Who has a skill meets what the database asks for it, now and not only when
\* it was learned, and has what the tree puts before it.
RequirementsMet ==
  \A s \in Learned :
    /\ Prerequisites(s) \subseteq Learned
    /\ level >= Requirement(s).requiredCharLevel
    /\ Requirement(s).prerequisiteSkill # NoSkill =>
         skillLevels[Requirement(s).prerequisiteSkill] >= Requirement(s).prerequisiteLevel

\* Since the last use of s, as many ticks have passed as its cooldown counts at
\* the level it had then.
CooldownOver(s) ==
  lastUse[s].level > 0 => currentTick >= lastUse[s].at + CooldownTicks(s, lastUse[s].level)

\* A skill is not used again before the cooldown of its last use is over,
\* whatever level it had then, if that use came after the first tick.
CooldownRespected ==
  [][\A s \in Skills : UseSkill(s) /\ lastUse[s].at > StartTick => CooldownOver(s)]_vars

\* No use of a skill comes before the cooldown of its last use is over.
CooldownAlwaysRespected ==
  [][\A s \in Skills : UseSkill(s) => CooldownOver(s)]_vars

\* The ticks in a second of a server that is not configured otherwise
\* (GameServer::Config::tickRate).
TickRate == 20

\* A skill is not held back for more seconds than its cooldown has, which are
\* 'Seconds' where the skill declares it, whatever its level takes off.
CooldownInSeconds ==
  \A s \in Skills :
    currentTick > StartTick /\ currentTick >= lastUse[s].at + TickRate * Cooldown[s]
      => skillCooldowns[s] <= lastUpdateTick
=============================================================================
