------------------------ MODULE CharacterSkillsProofs ------------------------
(***************************************************************************)
(* Proofs about CharacterSkills, for every tree over the nine skills, every *)
(* way of gaining experience and every way time passes, stats up to 1000    *)
(* and experience below that of level 1000, so that no maximum reaches     *)
(* 2^14.                                                                   *)
(***************************************************************************)
EXTENDS CharacterSkills, VitalsProofs, FiniteSetTheorems

\* What the proofs need of the constants but for how large they are.
LEMMA Parameters ==
  /\ Skills \subseteq Skill
  /\ \A s \in Skills : Prerequisites(s) \subseteq Skills
  /\ Values \subseteq Nat
  /\ Changing \subseteq PrimaryStat \cup {"other"}
  /\ MaxChanges \in Nat
  /\ Hurts \subseteq Nat
  /\ Restored \subseteq Nat
  /\ Gains \subseteq Nat
  /\ MaxExperience \in Nat
  /\ StartTick \in Nat
  /\ Jumps \subseteq Nat \ {0}
  /\ MaxTicks \in Nat
  BY SkillsAssumption, SMT

\* The database's numbers are natural numbers, and so is what they scale to at
\* any level a skill can have.
LEMMA DatabaseTypes ==
  ASSUME NEW s \in Skill
  PROVE  /\ ManaCost[s] \in Nat
         /\ Cooldown[s] \in 2 .. 60
         /\ MaxLevel(s) \in 1 .. 5
  BY DEF Skill, ManaCost, Cooldown, MaxLevel

LEMMA ProductIsNat == \A a, b \in Nat : a * b \in Nat
  OBVIOUS

LEMMA ScaledTypes ==
  ASSUME NEW s \in Skill, NEW l \in Nat, l > 0, l <= MaxLevel(s)
  PROVE  /\ ScaledManaCost(s, l) \in Nat
         /\ CooldownTicks(s, l) \in Nat
  <1>1. ManaCost[s] \in Nat /\ Cooldown[s] \in Nat /\ Cooldown[s] > 1 /\ l \in 1 .. 5
    BY DatabaseTypes
  <1>2. ManaCost[s] * (9 + l) \in Nat
    BY <1>1, ProductIsNat
  <1>3. \A a \in Nat : a \div 10 \in Nat
    OBVIOUS
  <1>4. 1000 - 75 * (l - 1) \in Nat /\ 1000 - 75 * (l - 1) > 0
    BY <1>1
  <1>5. \A a, b \in Nat \ {0} : a * b \in Nat \ {0}
    OBVIOUS
  <1>6. Cooldown[s] * (1000 - 75 * (l - 1)) \in Nat \ {0}
    BY <1>1, <1>4, <1>5
  <1>7. QED
    BY <1>2, <1>3, <1>6 DEF ScaledManaCost, CooldownTicks

-----------------------------------------------------------------------------
(* Types and limits. *)

LEMMA TypedInit == Init => TypeOK
  <1> SUFFICES ASSUME Init
               PROVE  TypeOK
    OBVIOUS
  <1>1. \A s \in Skills : MaxLevel(s) \in 1 .. 5
    BY Parameters, DatabaseTypes
  <1>2. experience <= MaxExperience
    BY Parameters DEF Init, ActorInit
  <1>3. QED
    BY <1>1, <1>2, Parameters DEF Init, TypeOK

LEMMA TypedNext ==
  ASSUME TypeOK, [Next]_vars
  PROVE  TypeOK'
  <1> USE DEF points, cooldowns, clocks, actorVars, growth
  <1>1. ASSUME NEW s \in Skills, LearnSkill(s)
        PROVE  TypeOK'
    <2>1. MaxLevel(s) \in 1 .. 5
      BY Parameters, DatabaseTypes
    <2>2. QED
      BY <1>1, <2>1 DEF LearnSkill, CanLearnSkill, TypeOK
  <1>2. ASSUME NEW s \in Skills, UpgradeSkill(s)
        PROVE  TypeOK'
    <2>1. MaxLevel(s) \in 1 .. 5
      BY Parameters, DatabaseTypes
    <2>2. QED
      BY <1>2, <2>1 DEF UpgradeSkill, CanUpgradeSkill, TypeOK
  <1>3. ASSUME NEW s \in Skills, UseSkill(s)
        PROVE  TypeOK'
    <2>1. skillLevels[s] \in 0 .. 5 /\ skillLevels[s] > 0 /\ skillLevels[s] <= MaxLevel(s) /\ s \in Skill
      <3>1. s \in Skill /\ MaxLevel(s) \in 1 .. 5
        BY Parameters, DatabaseTypes
      <3>2. skillLevels[s] \in Nat /\ skillLevels[s] > 0 /\ skillLevels[s] <= MaxLevel(s)
        BY <1>3 DEF UseSkill, Learned, TypeOK
      <3>3. QED
        BY <3>1, <3>2
    <2> DEFINE ticks == CooldownTicks(s, skillLevels[s])
    <2>2. ticks \in Nat
      BY <2>1, ScaledTypes
    <2>3. /\ skillCooldowns' = [skillCooldowns EXCEPT ![s] = lastUpdateTick + ticks]
          /\ lastUse' = [lastUse EXCEPT ![s] = [at |-> currentTick, level |-> skillLevels[s]]]
          /\ experience' = experience
          /\ UNCHANGED <<points, clocks, changes>>
      BY <1>3 DEF UseSkill, UseMana
    <2> HIDE DEF ticks
    <2>4. skillCooldowns' \in [Skills -> Nat]
      BY <2>2, <2>3 DEF TypeOK
    <2>5. lastUse' \in [Skills -> [at : Nat, level : 0 .. 5]]
      BY <2>1, <2>3, Parameters DEF TypeOK
    <2>6. QED
      BY <2>3, <2>4, <2>5 DEF TypeOK
  <1>4. CASE ActorCall
    <2>1. experience' <= MaxExperience
      BY <1>4 DEF ActorCall, TakeDamage, Heal, RestoreMana, GainExperience, TypeOK
    <2>2. QED
      BY <1>4, <2>1 DEF ActorCall, TypeOK
  <1>5. ASSUME NEW n \in Jumps, Update(n)
        PROVE  TypeOK'
    BY <1>5, Parameters DEF Update, TypeOK
  <1>6. CASE ChangeStat
    BY <1>6, Parameters DEF ChangeStat, SetPrimaryStat, TypeOK
  <1>7. CASE LevelUpWithPoint
    BY <1>7 DEF LevelUpWithPoint, LevelUp, TypeOK
  <1>8. CASE LevelingEnds /\ UNCHANGED <<points, cooldowns, clocks, changes>>
    BY <1>8 DEF LevelingEnds, TypeOK
  <1>9. CASE UNCHANGED vars
    BY <1>9 DEF vars, TypeOK
  <1>10. QED
    BY <1>1, <1>2, <1>3, <1>4, <1>5, <1>6, <1>7, <1>8, <1>9 DEF Next, SkillCall

\* Points and skill levels never run below zero or over their limits.
THEOREM TypeCorrect == Spec => []TypeOK
  BY TypedInit, TypedNext, PTL DEF Spec

-----------------------------------------------------------------------------
(* The actor. *)

\* No stat and no level is so large that the float arithmetic leaves the range
\* it is exact in.
ActorInv ==
  /\ VitalsOK
  /\ UntouchedIsFull
  /\ LevelEarned
  /\ \A s \in PrimaryStat : primary[s] <= 1000

LEMMA ActorStart == Init => ActorInv
  <1> SUFFICES ASSUME Init
               PROVE  ActorInv
    OBVIOUS
  <1>1. primary = [s \in PrimaryStat |-> 10] /\ level = 1 /\ experience = 0 /\ leveling = FALSE
    BY DEF Init, ActorInit
  <1>2. primary \in [PrimaryStat -> Nat] /\ level \in Nat \ {0}
    BY <1>1
  <1>3. /\ maxHp = MaxHpFor(primary, level) /\ maxMp = MaxMpFor(primary, level)
        /\ hp = maxHp /\ mp = maxMp
    BY Zenon DEF Init, ActorInit
  <1>4. maxHp \in Nat /\ maxMp \in Nat
    BY <1>2, <1>3, MaximaPositive
  <1>5. hp \in 0 .. maxHp /\ mp \in 0 .. maxMp /\ experience \in Nat /\ leveling \in BOOLEAN
    <2>1. hp \in 0 .. maxHp /\ mp \in 0 .. maxMp
      BY <1>3, <1>4, SMT
    <2>2. experience \in Nat /\ leveling \in BOOLEAN
      BY <1>1, Zenon
    <2>3. QED
      BY <2>1, <2>2
  <1>6. /\ base = [hp |-> hp, maxHp |-> maxHp, mp |-> mp, maxMp |-> maxMp]
        /\ base \in [hp : Nat, maxHp : Nat, mp : Nat, maxMp : Nat]
    <2>1. base = [hp |-> hp, maxHp |-> maxHp, mp |-> mp, maxMp |-> maxMp]
      BY Zenon DEF Init, ActorInit
    <2>2. QED
      BY <1>4, <1>5, <2>1
  <1>7. VitalsOK
    BY <1>2, <1>3, <1>5, <1>6, Zenon DEF VitalsOK
  <1>8. UntouchedIsFull
    BY <1>3, <1>6 DEF UntouchedIsFull
  <1>9. LevelEarned
    BY <1>1, SMT DEF LevelEarned, ExperienceForLevel
  <1>10. QED
    BY <1>1, <1>7, <1>8, <1>9 DEF ActorInv

\* The maxima are small, and stay so when a stat is set.
LEMMA MaximaFit ==
  ASSUME TypeOK, ActorInv
  PROVE  /\ level \in Nat /\ level <= 999
         /\ Small(maxHp) /\ Small(maxMp)
  <1>1. level \in Nat \ {0} /\ experience \in Nat
    BY DEF ActorInv, VitalsOK
  <1>2. experience < 100000000
    BY <1>1, SkillsAssumption, SMT DEF TypeOK
  <1>3. ExperienceForLevel(level) \in Nat
    BY <1>1 DEF ExperienceForLevel
  <1>4. level <= 999
    <2>1. CASE level = 1
      BY <2>1, SMT
    <2>2. CASE level # 1
      <3>1. ExperienceForLevel(level) <= experience
        BY <1>1, <1>3, <2>2 DEF ActorInv, LevelEarned
      <3>2. ExperienceForLevel(level) < 100000000
        BY <1>1, <1>2, <1>3, <3>1, SMT
      <3>3. QED
        BY <1>1, <3>2, LevelBound, SMT
    <2>3. QED
      BY <2>1, <2>2
  <1>5. QED
    BY <1>1, <1>4, MaximaSmall, SMT DEF ActorInv, VitalsOK

LEMMA ChangeStatKeeps ==
  ASSUME TypeOK, ActorInv, ChangeStat
  PROVE  ActorInv'
  <1>1. PICK s \in Changing, v \in Values : SetPrimaryStat(s, v)
    BY DEF ChangeStat
  <1>2. s \in PrimaryStat \cup {"other"} /\ v \in Nat /\ v <= 1000
    BY SkillsAssumption, SMT
  <1>3. /\ primary' = IF s = "other" THEN primary ELSE [primary EXCEPT ![s] = v]
        /\ UNCHANGED <<level, experience, leveling>>
        /\ maxHp' = MaxHpFor(primary', level') /\ maxMp' = MaxMpFor(primary', level')
    BY <1>1 DEF SetPrimaryStat, growth, RecalculateDerivedStats
  <1>4. primary \in [PrimaryStat -> Nat] /\ \A t \in PrimaryStat : primary[t] <= 1000
    BY DEF ActorInv, VitalsOK
  <1>5. primary' \in [PrimaryStat -> Nat] /\ \A t \in PrimaryStat : primary'[t] <= 1000
    BY <1>2, <1>3, <1>4, SMT
  <1>6. Small(maxHp') /\ Small(maxMp')
    BY <1>3, <1>5, MaximaFit, MaximaSmall, SMT
  <1>7. VitalsOK' /\ UntouchedIsFull'
    <2>1. VitalsOK /\ UntouchedIsFull
      BY DEF ActorInv
    <2>2. QED
      BY <1>1, <1>2, <1>6, <2>1, MaximaFit, SetPrimaryStatKeeps
  <1>8. LevelEarned'
    BY <1>3 DEF ActorInv, LevelEarned, ExperienceForLevel
  <1>9. QED
    BY <1>5, <1>7, <1>8 DEF ActorInv

LEMMA ActorNext ==
  ASSUME TypeOK, ActorInv, [Next]_vars
  PROVE  ActorInv'
  <1>1. VitalsOK /\ UntouchedIsFull /\ LevelEarned /\ \A s \in PrimaryStat : primary[s] <= 1000
    BY DEF ActorInv
  <1>2. ASSUME NEW n \in Nat, TakeDamage(n) \/ Heal(n) \/ UseMana(n) \/ RestoreMana(n)
        PROVE  ActorInv'
    <2>1. UNCHANGED <<primary, level, experience, leveling>>
      BY <1>2 DEF TakeDamage, Heal, UseMana, RestoreMana, growth
    <2>2. VitalsOK' /\ UntouchedIsFull'
      BY <1>1, <1>2, ValuesKeep
    <2>3. LevelEarned'
      BY <1>1, <2>1 DEF LevelEarned, ExperienceForLevel
    <2>4. QED
      BY <1>1, <2>1, <2>2, <2>3 DEF ActorInv
  <1>3. ASSUME NEW n \in Nat, GainExperience(n) \/ LevelingEnds \/ LevelUp
        PROVE  ActorInv'
    <2>1. primary' = primary
      BY <1>3 DEF GainExperience, LevelingEnds, LevelUp
    <2>2. VitalsOK' /\ UntouchedIsFull'
      BY <1>1, <1>3, GrowthKeeps, LevelUpKeeps
    <2>3. LevelEarned'
      BY <1>1, <1>3, LoopKeeps
    <2>4. QED
      BY <1>1, <2>1, <2>2, <2>3 DEF ActorInv
  <1>4. ASSUME NEW s \in Skills, UseSkill(s)
        PROVE  ActorInv'
    <2>1. skillLevels[s] \in Nat /\ skillLevels[s] > 0 /\ skillLevels[s] <= MaxLevel(s) /\ s \in Skill
      BY <1>4, Parameters DEF UseSkill, Learned, TypeOK
    <2>2. PICK n \in Nat : UseMana(n)
      BY <1>4, <2>1, ScaledTypes DEF UseSkill
    <2>3. QED
      BY <1>2, <2>2
  <1>5. CASE ActorCall
    BY <1>2, <1>3, <1>5, Parameters DEF ActorCall
  <1>6. CASE ChangeStat
    BY <1>6, ChangeStatKeeps
  <1>7. CASE LevelUpWithPoint \/ LevelingEnds
    <2>1. 0 \in Nat
      OBVIOUS
    <2>2. QED
      BY <1>3, <1>7, <2>1 DEF LevelUpWithPoint
  <1>8. CASE UNCHANGED actorVars
    <2>1. UNCHANGED <<primary, level, experience, leveling, maxHp, maxMp, hp, mp, base>>
      BY <1>8 DEF actorVars, growth, maxima
    <2>2. MaxHpFor(primary', level') = MaxHpFor(primary, level)
          /\ MaxMpFor(primary', level') = MaxMpFor(primary, level)
      BY <2>1 DEF MaxHpFor, MaxMpFor
    <2>3. VitalsOK'
      BY <1>1, <2>1, <2>2, Zenon DEF VitalsOK
    <2>4. QED
      BY <1>1, <2>1, <2>3 DEF ActorInv, UntouchedIsFull, LevelEarned, ExperienceForLevel
  <1>9. QED
    BY <1>4, <1>5, <1>6, <1>7, <1>8 DEF Next, SkillCall, LearnSkill, UpgradeSkill, Update, vars

LEMMA ActorKept == Spec => []ActorInv
  BY ActorStart, ActorNext, TypeCorrect, PTL DEF Spec

\* Hit points and mana stay between zero and maxima that are never out of date.
THEOREM VitalsCorrect == Spec => []VitalsOK
  <1>1. ActorInv => VitalsOK
    BY DEF ActorInv
  <1>2. QED
    BY <1>1, ActorKept, PTL

\* Who was full is full after any changes of stats, in the float arithmetic of
\* the code.
THEOREM UntouchedStaysFull == Spec => []UntouchedIsFull
  <1>1. ActorInv => UntouchedIsFull
    BY DEF ActorInv
  <1>2. QED
    BY <1>1, ActorKept, PTL

\* The loop of checkLevelUp goes up to the level that is paid for and stops there.
THEOREM LevelsEarned == Spec => []LevelEarned
  <1>1. ActorInv => LevelEarned
    BY DEF ActorInv
  <1>2. QED
    BY <1>1, ActorKept, PTL

-----------------------------------------------------------------------------
(* Skill points. *)

\* Only so many levels can be bought.
LEMMA BoughtIsFinite == TypeOK => IsFiniteSet(Bought)
  <1> SUFFICES ASSUME TypeOK
               PROVE  IsFiniteSet(Bought)
    OBVIOUS
  <1>1. \A s \in Skills : s \in 1 .. 9 /\ skillLevels[s] \in 0 .. 5
    BY Parameters, DatabaseTypes DEF Skill, TypeOK
  <1>2. Bought \subseteq (1 .. 9) \X (1 .. 5)
    BY <1>1 DEF Bought
  <1>3. IsFiniteSet(1 .. 9) /\ IsFiniteSet(1 .. 5)
    <2>1. ASSUME NEW n \in Int
          PROVE  IsFiniteSet(1 .. n)
      <3>1. 1 \in Int
        OBVIOUS
      <3>2. QED
        BY ONLY <3>1, n \in Int, FS_Interval
    <2>2. 5 \in Int /\ 9 \in Int
      OBVIOUS
    <2>3. QED
      BY <2>1, <2>2, Zenon
  <1>4. IsFiniteSet((1 .. 9) \X (1 .. 5))
    BY <1>3, FS_Product
  <1>5. QED
    BY <1>2, <1>4, FS_Subset

\* One level more of one skill is one pair more.
LEMMA OneMoreLevel ==
  ASSUME TypeOK, NEW s \in Skills,
         skillLevels' = [skillLevels EXCEPT ![s] = skillLevels[s] + 1]
  PROVE  Cardinality(Bought') = Cardinality(Bought) + 1
  <1> DEFINE l == skillLevels[s] + 1
  <1>1. \A t \in Skills : skillLevels[t] \in Nat /\ skillLevels'[t] = IF t = s THEN l ELSE skillLevels[t]
    BY DEF TypeOK
  <1>2. Bought' = Bought \cup {<<s, l>>}
    <2>1. 1 .. l = (1 .. skillLevels[s]) \cup {l}
      BY <1>1
    <2> HIDE DEF l
    <2>2. QED
      BY <1>1, <2>1 DEF Bought
  <1>3. <<s, l>> \notin Bought
    BY <1>1 DEF Bought
  <1> HIDE DEF l
  <1>4. QED
    BY <1>2, <1>3, BoughtIsFinite, FS_AddElement

LEMMA PointsNext ==
  ASSUME TypeOK, ActorInv, PointsConserved, [Next]_vars
  PROVE  PointsConserved'
  <1> USE DEF points, cooldowns, clocks, actorVars, growth
  <1>1. Cardinality(Bought) \in Nat /\ skillPoints \in Nat /\ level \in Nat
    BY BoughtIsFinite, FS_CardinalityType DEF TypeOK, ActorInv, VitalsOK
  <1>2. ASSUME NEW s \in Skills, LearnSkill(s) \/ UpgradeSkill(s)
        PROVE  PointsConserved'
    <2>1. skillLevels' = [skillLevels EXCEPT ![s] = skillLevels[s] + 1]
      BY <1>2 DEF LearnSkill, CanLearnSkill, Learned, UpgradeSkill, TypeOK
    <2>2. skillPoints' = skillPoints - 1 /\ level' = level
      BY <1>2 DEF LearnSkill, UpgradeSkill
    <2>3. Cardinality(Bought') = Cardinality(Bought) + 1
      BY <2>1, OneMoreLevel
    <2>4. QED
      BY <1>1, <2>2, <2>3 DEF PointsConserved
  <1>3. CASE LevelUpWithPoint
    <2>1. Bought' = Bought
      BY <1>3 DEF LevelUpWithPoint, Bought
    <2>2. level' = level + 1 /\ skillPoints' = skillPoints + 1
      BY <1>3 DEF LevelUpWithPoint, LevelUp
    <2>3. QED
      BY <1>1, <2>1, <2>2 DEF PointsConserved
  <1>4. CASE UNCHANGED <<level, points>>
    BY <1>4 DEF PointsConserved, Bought
  <1>5. ActorCall \/ ChangeStat \/ LevelingEnds \/ (\E s \in Skills : UseSkill(s))
          => UNCHANGED level
    BY DEF ActorCall, ChangeStat, LevelingEnds, UseSkill, SetPrimaryStat, TakeDamage, Heal,
           UseMana, RestoreMana, GainExperience
  <1>6. QED
    BY <1>2, <1>3, <1>4, <1>5
    DEF Next, SkillCall, ActorCall, ChangeStat, UseSkill, Update, vars

\* No point is lost, and none is spent twice: what was granted is left or bought
\* a level.
THEOREM PointsAreConserved == Spec => []PointsConserved
  <1>1. Init => PointsConserved
    <2> SUFFICES ASSUME Init
                 PROVE  PointsConserved
      OBVIOUS
    <2>1. Bought = {}
      BY DEF Init, Bought
    <2>2. skillPoints = 3 /\ level = 1
      BY DEF Init, ActorInit
    <2>3. QED
      BY <2>1, <2>2, FS_EmptySet DEF PointsConserved
  <1>2. QED
    BY <1>1, TypeCorrect, ActorKept, PointsNext, PTL DEF Spec

-----------------------------------------------------------------------------
(* Requirements. *)

\* Levels are never taken back, so what was asked for once still holds.
LEMMA RequirementsNext ==
  ASSUME TypeOK, ActorInv, RequirementsMet, [Next]_vars
  PROVE  RequirementsMet'
  <1> USE DEF points, cooldowns, clocks, actorVars, growth
  <1>0. \A s \in Skills : s \in Skill /\ Prerequisites(s) \subseteq Skills
    BY Parameters
  <1>1. \A s \in Skills : Requirement(s).prerequisiteSkill # NoSkill
                            => Requirement(s).prerequisiteSkill \in Prerequisites(s)
    BY <1>0 DEF Skill, Requirement, Prerequisites, NoSkill
  <1>2. \A s \in Skills : /\ Requirement(s).requiredCharLevel \in Nat
                          /\ Requirement(s).prerequisiteLevel \in Nat
    BY <1>0 DEF Skill, Requirement
  <1>3. level' \in Nat /\ level \in Nat /\ skillLevels \in [Skills -> Nat] /\ skillLevels' \in [Skills -> Nat]
    BY TypedNext, ActorNext DEF TypeOK, ActorInv, VitalsOK
  <1> DEFINE Grows == level' >= level /\ \A s \in Skills : skillLevels'[s] >= skillLevels[s]
  <1>4. Grows
    <2>1. ASSUME NEW s \in Skills, LearnSkill(s)
          PROVE  Grows
      BY <1>3, <2>1 DEF LearnSkill, CanLearnSkill, Learned
    <2>2. ASSUME NEW s \in Skills, UpgradeSkill(s)
          PROVE  Grows
      BY <1>3, <2>2 DEF UpgradeSkill
    <2>3. ASSUME NEW s \in Skills, UseSkill(s)
          PROVE  Grows
      BY <1>3, <2>3 DEF UseSkill, UseMana
    <2>4. CASE LevelUpWithPoint
      BY <1>3, <2>4 DEF LevelUpWithPoint, LevelUp
    <2>5. CASE ActorCall \/ ChangeStat \/ (LevelingEnds /\ UNCHANGED <<points, cooldowns, clocks, changes>>)
      BY <1>3, <2>5 DEF ActorCall, ChangeStat, LevelingEnds, SetPrimaryStat, TakeDamage, Heal,
                        RestoreMana, GainExperience
    <2>6. ASSUME NEW n \in Jumps, Update(n)
          PROVE  Grows
      BY <1>3, <2>6 DEF Update
    <2>7. CASE UNCHANGED vars
      BY <1>3, <2>7 DEF vars
    <2>8. QED
      BY <2>1, <2>2, <2>3, <2>4, <2>5, <2>6, <2>7 DEF Next, SkillCall
  <1>5. Learned \subseteq Learned'
    BY <1>3, <1>4 DEF Learned
  <1>6. \A s \in Learned' \ Learned : CanLearn(s)
    <2> SUFFICES ASSUME NEW s \in Skills, skillLevels[s] = 0, skillLevels'[s] > 0
                 PROVE  CanLearn(s)
      BY <1>3 DEF Learned
    <2>1. ASSUME NEW t \in Skills, LearnSkill(t)
          PROVE  CanLearn(s)
      BY <1>3, <2>1 DEF LearnSkill, CanLearnSkill
    <2>2. ASSUME NEW t \in Skills, UpgradeSkill(t)
          PROVE  CanLearn(s)
      BY <1>3, <2>2 DEF UpgradeSkill, CanUpgradeSkill, Learned
    <2>3. QED
      BY <2>1, <2>2 DEF Next, SkillCall, UseSkill, LevelUpWithPoint, ActorCall, ChangeStat, Update, vars
  <1>7. ASSUME NEW s \in Learned'
        PROVE  /\ Prerequisites(s) \subseteq Learned
               /\ level >= Requirement(s).requiredCharLevel
               /\ Requirement(s).prerequisiteSkill # NoSkill =>
                    skillLevels[Requirement(s).prerequisiteSkill] >= Requirement(s).prerequisiteLevel
    BY <1>6, <1>7 DEF RequirementsMet, CanLearn
  <1>8. ASSUME NEW s \in Learned', Requirement(s).prerequisiteSkill # NoSkill
        PROVE  skillLevels'[Requirement(s).prerequisiteSkill] >= Requirement(s).prerequisiteLevel
    <2>1. s \in Skills
      BY <1>8 DEF Learned
    <2> DEFINE p == Requirement(s).prerequisiteSkill
    <2>2. p \in Skills
      BY <1>0, <1>1, <1>8, <2>1
    <2>3. skillLevels[p] >= Requirement(s).prerequisiteLevel
      BY <1>7, <1>8
    <2>4. skillLevels'[p] >= skillLevels[p] /\ skillLevels'[p] \in Nat /\ skillLevels[p] \in Nat
      BY <1>3, <1>4, <2>2
    <2> HIDE DEF p
    <2>5. skillLevels'[p] >= Requirement(s).prerequisiteLevel
      BY <1>2, <2>1, <2>3, <2>4
    <2>6. QED
      BY <2>5 DEF p
  <1>9. \A s \in Learned' : level' >= Requirement(s).requiredCharLevel
    <2> SUFFICES ASSUME NEW s \in Learned'
                 PROVE  level' >= Requirement(s).requiredCharLevel
      OBVIOUS
    <2>1. s \in Skills
      BY DEF Learned
    <2>2. QED
      BY <1>2, <1>3, <1>4, <1>7, <2>1
  <1>10. QED
    BY <1>5, <1>7, <1>8, <1>9 DEF RequirementsMet

\* Whoever has a skill still meets what the database and the tree ask for it.
THEOREM RequirementsKept == Spec => []RequirementsMet
  <1>1. Init => RequirementsMet
    BY DEF Init, RequirementsMet, Learned
  <1>2. QED
    BY <1>1, TypeCorrect, ActorKept, RequirementsNext, PTL DEF Spec

-----------------------------------------------------------------------------
(* Cooldowns. *)

\* The character's clock is the server's from the first tick on, and what
\* skillCooldowns_ holds is, for a use after that, when its cooldown is over;
\* for one before it, the cooldown alone.
CooldownInv ==
  /\ lastUpdateTick = IF currentTick = StartTick THEN 0 ELSE currentTick
  /\ \A s \in Skills :
       lastUse[s].level > 0 =>
         skillCooldowns[s] = (IF lastUse[s].at > StartTick THEN lastUse[s].at ELSE 0)
                               + CooldownTicks(s, lastUse[s].level)

LEMMA CooldownNext ==
  ASSUME TypeOK, CooldownInv, [Next]_vars
  PROVE  CooldownInv'
  <1> USE DEF points, cooldowns, clocks, actorVars, growth
  <1>1. ASSUME NEW s \in Skills, UseSkill(s)
        PROVE  CooldownInv'
    <2>1. /\ skillCooldowns' = [skillCooldowns EXCEPT ![s] = lastUpdateTick + CooldownTicks(s, skillLevels[s])]
          /\ lastUse' = [lastUse EXCEPT ![s] = [at |-> currentTick, level |-> skillLevels[s]]]
          /\ UNCHANGED clocks
      BY <1>1 DEF UseSkill
    <2>2. currentTick \in Nat /\ currentTick >= StartTick /\ StartTick \in Nat
      BY Parameters DEF TypeOK
    <2>3. ASSUME NEW t \in Skills, lastUse'[t].level > 0
          PROVE  skillCooldowns'[t] = (IF lastUse'[t].at > StartTick THEN lastUse'[t].at ELSE 0)
                                        + CooldownTicks(t, lastUse'[t].level)
      <3>1. CASE t = s
        <4>1. lastUse'[t].at = currentTick /\ lastUse'[t].level = skillLevels[s]
          BY <2>1, <3>1 DEF TypeOK
        <4>2. lastUpdateTick = IF currentTick > StartTick THEN currentTick ELSE 0
          BY <2>2 DEF CooldownInv
        <4>3. skillCooldowns'[t] = lastUpdateTick + CooldownTicks(s, skillLevels[s])
          BY <2>1, <3>1 DEF TypeOK
        <4>4. QED
          BY <3>1, <4>1, <4>2, <4>3
      <3>2. CASE t # s
        BY <2>1, <2>3, <3>2 DEF TypeOK, CooldownInv
      <3>3. QED
        BY <3>1, <3>2
    <2>4. QED
      BY <2>1, <2>3 DEF CooldownInv
  <1>2. ASSUME NEW n \in Jumps, Update(n)
        PROVE  CooldownInv'
    <2>1. currentTick' # StartTick /\ lastUpdateTick' = currentTick'
      BY <1>2, Parameters DEF Update, TypeOK
    <2>2. QED
      BY <1>2, <2>1 DEF Update, CooldownInv
  <1>3. CASE UNCHANGED <<cooldowns, clocks>>
    BY <1>3 DEF CooldownInv
  <1>4. QED
    BY <1>1, <1>2, <1>3
    DEF Next, SkillCall, LearnSkill, UpgradeSkill, LevelUpWithPoint, ActorCall, ChangeStat, vars

LEMMA CooldownsKept == Spec => []CooldownInv
  <1>1. Init => CooldownInv
    BY Parameters DEF Init, CooldownInv
  <1>2. QED
    BY <1>1, TypeCorrect, CooldownNext, PTL DEF Spec

\* Two uses of a skill are a cooldown apart, if the first came after the
\* character's first tick.
THEOREM CooldownsRespected == Spec => CooldownRespected
  <1>1. TypeOK /\ CooldownInv /\ [Next]_vars =>
          [\A s \in Skills : UseSkill(s) /\ lastUse[s].at > StartTick => CooldownOver(s)]_vars
    <2> SUFFICES ASSUME TypeOK, CooldownInv,
                        NEW s \in Skills, UseSkill(s), lastUse[s].at > StartTick, lastUse[s].level > 0
                 PROVE  currentTick >= lastUse[s].at + CooldownTicks(s, lastUse[s].level)
      BY DEF CooldownOver
    <2> DEFINE ticks == CooldownTicks(s, lastUse[s].level)
    <2>1. skillCooldowns[s] = lastUse[s].at + ticks /\ skillCooldowns[s] <= lastUpdateTick
      BY DEF CooldownInv, UseSkill
    <2> HIDE DEF ticks
    <2>2. lastUpdateTick <= currentTick /\ lastUpdateTick \in Int /\ currentTick \in Int
      BY Parameters DEF TypeOK
    <2>3. skillCooldowns[s] \in Int
      BY DEF TypeOK
    <2>4. currentTick >= lastUse[s].at + ticks
      BY <2>1, <2>2, <2>3
    <2>5. QED
      BY <2>4 DEF ticks
  <1>2. QED
    BY <1>1, TypeCorrect, CooldownsKept, PTL DEF Spec, CooldownRespected
=============================================================================
