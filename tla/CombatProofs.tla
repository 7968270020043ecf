---------------------------- MODULE CombatProofs ----------------------------
(***************************************************************************)
(* The properties of Combat, for any fighters, hits, skill levels and      *)
(* heals.                                                                  *)
(*                                                                         *)
(* Every action but a gained level leaves hit points alone, hurts one, or  *)
(* heals one.  So the proof is about Hurt and Hit, once each; the actions  *)
(* are then cases of the two.                                              *)
(***************************************************************************)
EXTENDS Combat, TLAPS

Inv == TypeOK /\ DeathsAnnounced

LEMMA InitInv == Init => Inv
  BY CombatAssumption DEF Init, Inv, TypeOK, DeathsAnnounced

-----------------------------------------------------------------------------
\* takeDamage keeps hit points between zero and the maximum, and moves no dead.
LEMMA DamageBounded ==
  ASSUME NEW h \in 0 .. MaxHp, NEW n \in Int
  PROVE  /\ HpAfter(h, n) \in 0 .. MaxHp
         /\ HpAfter(h, n) <= h
         /\ h = 0 => HpAfter(h, n) = 0
  BY CombatAssumption DEF HpAfter

\* So does heal.
LEMMA HealingBounded ==
  ASSUME NEW h \in 0 .. MaxHp, NEW n \in Int
  PROVE  /\ HpHealed(h, n) \in 0 .. MaxHp
         /\ h = 0 <=> HpHealed(h, n) = 0
  BY CombatAssumption DEF HpHealed

\* What Hurt does to the type, and to those who were and were not dead.
LEMMA HurtEffect ==
  ASSUME Inv, NEW t \in Fighter, NEW n \in Int,
         NEW cause \in {"attack", "skill", "other"}, Hurt(t, n, cause)
  PROVE  /\ hp' \in [Fighter -> 0 .. MaxHp]
         /\ fatal' \in [Fighter -> {"nothing", "attack", "skill", "other"}]
         /\ \A a \in Fighter : hp[a] = 0 => hp'[a] = 0
         /\ \A a \in Fighter : hp'[a] = 0 <=> fatal'[a] # "nothing"
         /\ \A a \in Fighter :
              fatal'[a] = "attack" =>
                fatal[a] = "attack" \/ (a = t /\ cause = "attack" /\ hp'[t] = 0)
  <1>1. hp \in [Fighter -> 0 .. MaxHp] /\ fatal \in [Fighter -> {"nothing", "attack", "skill", "other"}]
    BY DEF Inv, TypeOK
  <1>2. \A a \in Fighter : hp[a] = 0 <=> fatal[a] # "nothing"
    BY DEF Inv, DeathsAnnounced
  <1>3. hp' = [hp EXCEPT ![t] = HpAfter(hp[t], n)]
    BY DEF Hurt
  <1>4. /\ HpAfter(hp[t], n) \in 0 .. MaxHp
        /\ hp[t] = 0 => HpAfter(hp[t], n) = 0
    BY <1>1, DamageBounded
  <1>5. hp'[t] = HpAfter(hp[t], n) /\ \A a \in Fighter \ {t} : hp'[a] = hp[a]
    BY <1>1, <1>3
  <1>6. fatal' = [fatal EXCEPT ![t] = IF hp[t] > 0 /\ hp'[t] = 0 THEN cause ELSE fatal[t]]
    BY DEF Hurt, IsAlive
  <1>7. hp' \in [Fighter -> 0 .. MaxHp]
    BY <1>1, <1>3, <1>4
  <1>8. /\ fatal'[t] = IF hp[t] > 0 /\ hp'[t] = 0 THEN cause ELSE fatal[t]
        /\ \A a \in Fighter \ {t} : fatal'[a] = fatal[a]
        /\ fatal' \in [Fighter -> {"nothing", "attack", "skill", "other"}]
    BY <1>1, <1>6
  <1>9. hp[t] \in 0 .. MaxHp /\ hp'[t] \in 0 .. MaxHp
    BY <1>1, <1>7
  <1>10. hp'[t] = 0 <=> fatal'[t] # "nothing"
    BY <1>2, <1>4, <1>5, <1>8, <1>9, CombatAssumption
  <1> QED
    BY <1>2, <1>4, <1>5, <1>7, <1>8, <1>10

\* What the obituaries count.
LEMMA CountedEffect ==
  ASSUME NEW S \in SUBSET Fighter, obits \in [Fighter -> 0 .. 2]
  PROVE  /\ Counted(S) \in [Fighter -> 0 .. 2]
         /\ \A a \in Fighter : Counted(S)[a] > 0 <=> (a \in S \/ obits[a] > 0)
         /\ \A a \in Fighter : Counted(S)[a] > obits[a] => a \in S
  BY DEF Counted

\* A hit keeps the invariant: the DeathEvent goes out with the last hit point.
LEMMA HitInv ==
  ASSUME Inv, NEW a \in Fighter, NEW t \in Fighter,
         NEW first \in Seq(Event), Hit(a, t, first), UNCHANGED actors
  PROVE  /\ Inv'
         /\ \A x \in Fighter : hp[x] = 0 => hp'[x] = 0
         /\ \A x \in Fighter : obits'[x] > obits[x] => x = t
  <1>1. PICK n \in Hits :
          /\ Hurt(t, n, "attack")
          /\ published' = first \o <<Damage(a, t)>> \o (IF IsDeadAfter(t) THEN <<Death(t, a)>> ELSE <<>>)
          /\ obits' = Counted(IF IsDeadAfter(t) THEN {t} ELSE {})
    BY DEF Hit
  <1>2. n \in Int
    BY CombatAssumption
  <1>3. /\ hp' \in [Fighter -> 0 .. MaxHp]
        /\ fatal' \in [Fighter -> {"nothing", "attack", "skill", "other"}]
        /\ \A x \in Fighter : hp[x] = 0 => hp'[x] = 0
        /\ \A x \in Fighter : hp'[x] = 0 <=> fatal'[x] # "nothing"
        /\ \A x \in Fighter : fatal'[x] = "attack" => fatal[x] = "attack" \/ (x = t /\ hp'[t] = 0)
    BY <1>1, <1>2, HurtEffect
  <1>4. IsDeadAfter(t) <=> hp'[t] = 0
    BY <1>3, CombatAssumption DEF IsDeadAfter
  <1>5. obits \in [Fighter -> 0 .. 2]
    BY DEF Inv, TypeOK
  <1>6. PICK S \in SUBSET Fighter : obits' = Counted(S) /\ S = (IF hp'[t] = 0 THEN {t} ELSE {})
    BY <1>1, <1>4
  <1>7. /\ obits' \in [Fighter -> 0 .. 2]
        /\ \A x \in Fighter : obits'[x] > 0 <=> (x \in S \/ obits[x] > 0)
        /\ \A x \in Fighter : obits'[x] > obits[x] => x \in S
    BY <1>5, <1>6, CountedEffect
  <1>8. published' \in Seq(Event)
    <2>1. Damage(a, t) \in Event /\ Death(t, a) \in Event
      BY DEF Damage, Death, Event
    <2> QED
      BY <1>1, <2>1
  <1>9. TypeOK'
    BY <1>3, <1>7, <1>8 DEF Inv, TypeOK
  <1>10. DeathsAnnounced'
    BY <1>3, <1>6, <1>7 DEF Inv, DeathsAnnounced
  <1> QED
    BY <1>3, <1>6, <1>7, <1>9, <1>10 DEF Inv

\* Hurting somebody without an event keeps the invariant, if it is no attack.
LEMMA SilentHurtInv ==
  ASSUME Inv, NEW t \in Fighter, NEW n \in Int, NEW cause \in {"skill", "other"},
         Hurt(t, n, cause), published' = <<>>, UNCHANGED <<actors, obits>>
  PROVE  Inv' /\ \A a \in Fighter : hp[a] = 0 => hp'[a] = 0
  <1>1. /\ hp' \in [Fighter -> 0 .. MaxHp]
        /\ fatal' \in [Fighter -> {"nothing", "attack", "skill", "other"}]
        /\ \A a \in Fighter : hp[a] = 0 => hp'[a] = 0
        /\ \A a \in Fighter : hp'[a] = 0 <=> fatal'[a] # "nothing"
        /\ \A a \in Fighter : fatal'[a] = "attack" => fatal[a] = "attack"
    BY HurtEffect
  <1>2. published' \in Seq(Event)
    OBVIOUS
  <1>3. TypeOK'
    BY <1>1, <1>2 DEF Inv, TypeOK
  <1>4. DeathsAnnounced'
    BY <1>1 DEF Inv, DeathsAnnounced
  <1> QED
    BY <1>1, <1>3, <1>4 DEF Inv

\* A step that only publishes keeps it too.
LEMMA QuietInv ==
  ASSUME Inv, published' \in Seq(Event), actors' \subseteq actors, UNCHANGED <<hp, obits, fatal>>
  PROVE  Inv' /\ \A a \in Fighter : hp[a] = 0 => hp'[a] = 0
  BY DEF Inv, TypeOK, DeathsAnnounced

-----------------------------------------------------------------------------
\* An attack by either handler.
LEMMA AttackInv ==
  ASSUME Inv, NEW a \in Fighter, NEW t \in Fighter,
         HandleBasicAttack(a, t) \/ HandleSkillAttack(a, t)
  PROVE  /\ Inv'
         /\ \A x \in Fighter : hp[x] = 0 => hp'[x] = 0
         /\ \A x \in Fighter : obits'[x] > obits[x] => x = t
  <1>1. <<>> \in Seq(Event) /\ <<SkillUsed(a, t)>> \in Seq(Event)
    <2>1. SkillUsed(a, t) \in Event
      BY DEF SkillUsed, Event
    <2> QED
      BY <2>1
  <1>2. UNCHANGED actors
    BY DEF HandleBasicAttack, HandleSkillAttack
  <1>3. CASE Dodged
    <2>1. published' \in Seq(Event) /\ UNCHANGED <<hp, obits, fatal>>
      BY <1>3 DEF Dodged
    <2>2. Inv' /\ \A x \in Fighter : hp[x] = 0 => hp'[x] = 0
      BY <1>2, <2>1, QuietInv
    <2>3. \A x \in Fighter : ~(obits'[x] > obits[x])
      BY <2>1 DEF Inv, TypeOK
    <2> QED
      BY <2>2, <2>3
  <1>4. CASE Hit(a, t, <<>>)
    BY <1>1, <1>2, <1>4, HitInv
  <1>5. CASE Hit(a, t, <<SkillUsed(a, t)>>)
    BY <1>1, <1>2, <1>5, HitInv
  <1> QED
    BY <1>3, <1>4, <1>5 DEF HandleBasicAttack, HandleSkillAttack

\* Every step keeps the invariant, and only a level gained brings anybody back.
LEMMA NextInv ==
  ASSUME Inv, [Next]_vars
  PROVE  Inv' /\ \A x \in Fighter : hp[x] = 0 => hp'[x] = 0 \/ OnLevelUp(x)
  <1>1. ASSUME NEW a \in Fighter, ProcessSkill(a)
        PROVE  Inv' /\ \A x \in Fighter : hp[x] = 0 => hp'[x] = 0
    <2>1. SkillUsed(a, "none") \in Event /\ SkillUsed(a, a) \in Event
      BY DEF SkillUsed, Event
    <2>2. UNCHANGED <<actors, hp, obits, fatal>>
      BY <1>1, <2>1, SMT DEF ProcessSkill, HandleAreaSkill, HandleSelfSkill
    <2>3. published' = <<SkillUsed(a, "none")>> \/ published' = <<SkillUsed(a, a)>>
      BY <1>1 DEF ProcessSkill, HandleAreaSkill, HandleSelfSkill
    <2>4. published' \in Seq(Event)
      <3>1. \A e \in Event : <<e>> \in Seq(Event)
        OBVIOUS
      <3> QED
        BY <2>1, <2>3, <3>1
    <2> QED
      BY <2>2, <2>4, QuietInv
  <1>2. ASSUME NEW a \in Fighter, Leave(a)
        PROVE  Inv' /\ \A x \in Fighter : hp[x] = 0 => hp'[x] = 0
    BY <1>2, QuietInv DEF Leave
  <1>3. ASSUME NEW a \in Fighter, NEW n \in Hits, TakeDamage(a, n)
        PROVE  Inv' /\ \A x \in Fighter : hp[x] = 0 => hp'[x] = 0
    BY <1>3, SilentHurtInv, CombatAssumption DEF TakeDamage
  <1>4. ASSUME NEW a \in Fighter, NEW n \in Heals, Heal(a, n)
        PROVE  Inv' /\ \A x \in Fighter : hp[x] = 0 => hp'[x] = 0
    <2>1. hp \in [Fighter -> 0 .. MaxHp] /\ n \in Int
      BY CombatAssumption DEF Inv, TypeOK
    <2>2. /\ HpHealed(hp[a], n) \in 0 .. MaxHp
          /\ hp[a] = 0 <=> HpHealed(hp[a], n) = 0
      BY <2>1, HealingBounded
    <2>3. /\ hp' = [hp EXCEPT ![a] = HpHealed(hp[a], n)]
          /\ published' \in Seq(Event)
          /\ UNCHANGED <<actors, obits, fatal>>
      BY <1>4 DEF Heal
    <2>4. hp' \in [Fighter -> 0 .. MaxHp] /\ \A x \in Fighter : hp[x] = 0 <=> hp'[x] = 0
      BY <2>1, <2>2, <2>3
    <2> QED
      BY <2>3, <2>4 DEF Inv, TypeOK, DeathsAnnounced
  <1>5. ASSUME NEW a \in Fighter, NEW t \in Fighter, ProcessAttack(a, t) \/ HandleAttack(a, t)
        PROVE  Inv' /\ \A x \in Fighter : hp[x] = 0 => hp'[x] = 0
    BY <1>5, AttackInv DEF ProcessAttack, HandleAttack
  <1>6. ASSUME NEW a \in Fighter, NEW t \in Fighter, HandleSkillRequest(a, t)
        PROVE  Inv' /\ \A x \in Fighter : hp[x] = 0 => hp'[x] = 0
    <2>1. PICK l \in SkillLevels :
            IF t \in actors THEN Hurt(t, l * DamagePerLevel, "skill") ELSE UNCHANGED <<hp, fatal>>
      BY <1>6 DEF HandleSkillRequest
    <2>2. published' = <<>> /\ UNCHANGED <<actors, obits>>
      BY <1>6 DEF HandleSkillRequest
    <2>3. l * DamagePerLevel \in Int
      BY CombatAssumption DEF DamagePerLevel
    <2>4. CASE t \in actors
      BY <2>1, <2>2, <2>3, <2>4, SilentHurtInv
    <2>5. CASE t \notin actors
      BY <2>1, <2>2, <2>5, QuietInv
    <2> QED
      BY <2>4, <2>5
  <1>7. CASE UNCHANGED vars
    BY <1>7 DEF vars, Inv, TypeOK, DeathsAnnounced
  <1>8. ASSUME NEW a \in Fighter, OnLevelUp(a)
        PROVE  Inv' /\ \A x \in Fighter : hp[x] = 0 => hp'[x] = 0 \/ OnLevelUp(x)
    <2>1. Inv'
      BY <1>8, CombatAssumption DEF OnLevelUp, Inv, TypeOK, DeathsAnnounced
    <2>2. \A x \in Fighter \ {a} : hp'[x] = hp[x]
      BY <1>8 DEF OnLevelUp, Inv, TypeOK
    <2> QED
      BY <1>8, <2>1, <2>2
  <1> QED
    BY <1>1, <1>2, <1>3, <1>4, <1>5, <1>6, <1>7, <1>8 DEF Next

-----------------------------------------------------------------------------
\* Hit points stay within bounds whatever Actor::takeDamage and heal are given.
THEOREM TypeCorrect == Spec => []TypeOK
  <1>1. Inv /\ [Next]_vars => Inv'
    BY NextInv
  <1>2. Inv => TypeOK
    BY DEF Inv
  <1> QED
    BY InitInv, <1>1, <1>2, PTL DEF Spec

\* CombatSystem announces the death of whoever its attacks kill, and of nobody
\* that is alive.
THEOREM DeathsAreAnnounced == Spec => []DeathsAnnounced
  <1>1. Inv /\ [Next]_vars => Inv'
    BY NextInv
  <1>2. Inv => DeathsAnnounced
    BY DEF Inv
  <1> QED
    BY InitInv, <1>1, <1>2, PTL DEF Spec

\* No attack, skill, damage or heal brings the dead back; gaining a level does.
THEOREM DeathFinal == Spec => DeathIsFinal
  <1>1. Inv /\ [Next]_vars => Inv'
    BY NextInv
  <1>2. Inv /\ [Next]_vars => [\A a \in Fighter : hp[a] = 0 => hp'[a] = 0 \/ OnLevelUp(a)]_vars
    BY NextInv
  <1> QED
    BY InitInv, <1>1, <1>2, PTL DEF Spec, DeathIsFinal

\* What processAction lets through, wherever it comes from.
LEMMA ProcessAttackSound ==
  ASSUME Inv, NEW a \in Fighter, NEW t \in Fighter, ProcessAttack(a, t)
  PROVE  /\ \A x \in Fighter : obits'[x] > obits[x] => obits[x] = 0 /\ x = t
         /\ hp[t] > 0 /\ hp[a] > 0
  <1>1. hp[t] > 0 /\ hp[a] > 0
    BY DEF ProcessAttack, MayAttack, IsAlive
  <1>2. \A x \in Fighter : obits'[x] > obits[x] => x = t
    BY AttackInv DEF ProcessAttack
  <1>3. obits[t] \in 0 .. 2 /\ ~(obits[t] > 0)
    BY <1>1 DEF Inv, TypeOK, DeathsAnnounced
  <1> QED
    BY <1>1, <1>2, <1>3

\* What CombatSystem::processAction lets through is a fight between the living,
\* and kills nobody twice.
THEOREM ValidatedActionsAreSound == Spec => ValidatedActionsSound
  <1> DEFINE A == \A a, t \in Fighter :
       ProcessAttack(a, t) =>
         /\ \A x \in Fighter : obits'[x] > obits[x] => obits[x] = 0 /\ x = t
         /\ \A i \in 1 .. Len(published') : published'[i].type = "damage" => hp[t] > 0 /\ hp[a] > 0
  <1>1. Inv /\ [Next]_vars => Inv'
    BY NextInv
  <1>2. Inv /\ [Next]_vars => [A]_vars
    BY ProcessAttackSound
  <1> QED
    BY InitInv, <1>1, <1>2, PTL DEF Spec, ValidatedActionsSound
=============================================================================
