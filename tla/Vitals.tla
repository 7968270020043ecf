------------------------------- MODULE Vitals -------------------------------
(***************************************************************************)
(* An actor: its level and experience, its hit points and mana, and the    *)
(* maxima they are kept against.  Derived stats are computed from primary  *)
(* stats and the level, and the current values are carried over to a new   *)
(* maximum through a float ratio.                                          *)
(*                                                                         *)
(* CharacterSkills makes a character of it.  Stats are not negative, which *)
(* nothing in the code enforces: the server sets three, to 10 and more.    *)
(***************************************************************************)
EXTENDS Integers

VARIABLES
  primary,     \* primaryStats_
  level,       \* level_
  experience,  \* experience_
  leveling,    \* gainExperience is in the loop of checkLevelUp
  maxHp,       \* derivedStats_.maxHp
  maxMp,       \* derivedStats_.maxMp
  hp,          \* runtimeStats_.currentHp
  mp,          \* runtimeStats_.currentMp
  base         \* history: hp, mp and maxima as whatever but a change of stats last left them

maxima == <<maxHp, maxMp>>
growth == <<level, experience, leveling>>
actorVars == <<primary, growth, maxima, hp, mp, base>>

\* The primary stats a maximum depends on.  "other" is any name besides: of one
\* of the other three, or of none.
PrimaryStat == {"vitality", "intelligence", "wisdom"}

-----------------------------------------------------------------------------
(* StatCalculator. *)

MaxHpFor(p, l) == 100 + p["vitality"] * 10 + l * 5
MaxMpFor(p, l) == 50 + p["intelligence"] * 5 + p["wisdom"] * 3 + l * 2

ExperienceForLevel(l) == 100 * l * l

-----------------------------------------------------------------------------
(* static_cast<int32_t>((float) cur / old * new), in the arithmetic of     *)
(* IEEE single precision: the quotient and the product are each rounded to *)
(* the nearest number of 24 bits, a tie to the even one.  Numbers of more  *)
(* than 31 bits are kept as a * 4096 + b.  cur <= old, and neither maximum *)
(* reaches 2^14.                                                           *)

Power == {1, 2, 4, 8, 16, 32, 64, 128, 256, 512, 1024, 2048, 4096, 8192, 16384}

\* (a * 4096 + b) / d, rounded.
Nearest(a, b, d) ==
  LET q == (a \div d) * 4096 + ((a % d) * 4096 + b) \div d
      r == ((a % d) * 4096 + b) % d
  IN  IF 2 * r > d \/ (2 * r = d /\ q % 2 = 1) THEN q + 1 ELSE q

\* The ratio is Ratio(cur, old) / (2^23 * Scale(cur, old)).
Scale(cur, old) == CHOOSE s \in Power : old <= cur * s /\ cur * s < 2 * old
Ratio(cur, old) == Nearest(cur * Scale(cur, old) * 2048, 0, old)

\* The product of m and new is High * 4096 + Low, and 2^23 to 2^24 units.
High(m, new) == (m \div 4096) * new + ((m % 4096) * new) \div 4096
Low(m, new) == ((m % 4096) * new) % 4096
Unit(m, new) == CHOOSE u \in Power : 2048 * u <= High(m, new) /\ High(m, new) < 4096 * u
Product(m, new) == Nearest(High(m, new), Low(m, new), Unit(m, new))

\* Faulty: the product is rounded where it should be cut off.
RescaledToNearest(cur, old, new) == (2 * cur * new + old) \div (2 * old)

Rescaled(cur, old, new) ==
  IF cur = 0 THEN 0
  ELSE LET m == Ratio(cur, old)
       IN  Product(m, new) \div ((8388608 \div Unit(m, new)) * Scale(cur, old))

-----------------------------------------------------------------------------
(* Actor. *)

\* The values are as damage, healing, mana or a level leave them.
Settled == base' = [hp |-> hp', maxHp |-> maxHp', mp |-> mp', maxMp |-> maxMp']

\* They should be full.
SettledFull == base' = [hp |-> maxHp', maxHp |-> maxHp', mp |-> maxMp', maxMp |-> maxMp']

\* The constructor, with the default stats.
ActorInit ==
  /\ primary = [s \in PrimaryStat |-> 10]
  /\ level = 1
  /\ experience = 0
  /\ leveling = FALSE
  /\ maxHp = MaxHpFor(primary, level)
  /\ maxMp = MaxMpFor(primary, level)
  /\ hp = maxHp
  /\ mp = maxMp
  /\ base = [hp |-> hp, maxHp |-> maxHp, mp |-> mp, maxMp |-> maxMp]

\* Faulty: the old maximum is read after it has been replaced.
RecalculateLate ==
  /\ maxHp' = MaxHpFor(primary', level')
  /\ maxMp' = MaxMpFor(primary', level')
  /\ hp' = Rescaled(hp, maxHp', maxHp')
  /\ mp' = Rescaled(mp, maxMp', maxMp')

\* recalculateDerivedStats, whether or not a maximum changes.
RecalculateDerivedStats ==
  /\ maxHp' = MaxHpFor(primary', level')
  /\ maxMp' = MaxMpFor(primary', level')
  /\ hp' = Rescaled(hp, maxHp, maxHp')
  /\ mp' = Rescaled(mp, maxMp, maxMp')

\* setPrimaryStat, and modifyPrimaryStat, which differs in how v is given.
SetPrimaryStat(s, v) ==
  /\ primary' = IF s = "other" THEN primary ELSE [primary EXCEPT ![s] = v]
  /\ UNCHANGED <<growth, base>>
  /\ RecalculateDerivedStats

TakeDamage(n) ==
  /\ n > 0 /\ hp > 0
  /\ hp' = IF n < hp THEN hp - n ELSE 0
  /\ UNCHANGED <<primary, growth, maxima, mp>>
  /\ Settled

Heal(n) ==
  /\ n > 0 /\ hp > 0
  /\ hp' = IF n < maxHp - hp THEN hp + n ELSE maxHp
  /\ UNCHANGED <<primary, growth, maxima, mp>>
  /\ Settled

UseMana(n) ==
  /\ n > 0 /\ mp >= n
  /\ mp' = mp - n
  /\ UNCHANGED <<primary, growth, maxima, hp>>
  /\ Settled

RestoreMana(n) ==
  /\ n > 0
  /\ mp' = IF n < maxMp - mp THEN mp + n ELSE maxMp
  /\ UNCHANGED <<primary, growth, maxima, hp>>
  /\ Settled

\* gainExperience, up to the loop of checkLevelUp.
GainExperience(n) ==
  /\ n > 0
  /\ experience' = experience + n
  /\ leveling' = TRUE
  /\ UNCHANGED <<primary, level, maxima, hp, mp, base>>

\* Faulty: mana is not filled up.
OnLevelUpHpOnly ==
  /\ maxHp' = MaxHpFor(primary', level')
  /\ maxMp' = MaxMpFor(primary', level')
  /\ hp' = maxHp'
  /\ mp' = Rescaled(mp, maxMp, maxMp')
  /\ SettledFull

\* onLevelUp: stats are recalculated and then both values filled up.
OnLevelUp ==
  /\ maxHp' = MaxHpFor(primary', level')
  /\ maxMp' = MaxMpFor(primary', level')
  /\ hp' = maxHp'
  /\ mp' = maxMp'
  /\ SettledFull

\* Faulty: the loop asks what the level it has already reached costs.
NextLevelPaidBehind == experience >= ExperienceForLevel(level)

\* The condition of the loop.
NextLevelPaid == experience >= ExperienceForLevel(level + 1)

\* One turn of the loop.
LevelUp ==
  /\ leveling /\ NextLevelPaid
  /\ level' = level + 1
  /\ UNCHANGED <<primary, experience, leveling>>
  /\ OnLevelUp

LevelingEnds ==
  /\ leveling /\ ~NextLevelPaid
  /\ leveling' = FALSE
  /\ UNCHANGED <<primary, level, experience, maxima, hp, mp, base>>

-----------------------------------------------------------------------------
(* Properties. *)

\* The maxima are those of the present stats and level, and the current values
\* between zero and them.
VitalsOK ==
  /\ primary \in [PrimaryStat -> Nat]
  /\ level \in Nat \ {0}
  /\ experience \in Nat
  /\ leveling \in BOOLEAN
  /\ maxHp = MaxHpFor(primary, level)
  /\ maxMp = MaxMpFor(primary, level)
  /\ hp \in 0 .. maxHp
  /\ mp \in 0 .. maxMp
  /\ base \in [hp : Nat, maxHp : Nat, mp : Nat, maxMp : Nat]

\* Who was full, as one is made or after a level, is full whatever was done to
\* the stats since: handleLogin relies on it, which sets three of a new
\* character's.
UntouchedIsFull ==
  /\ base.hp = base.maxHp => hp = maxHp
  /\ base.mp = base.maxMp => mp = maxMp

\* Setting stats up and down, however often, never gives anybody a larger share
\* of the maximum than damage, healing, mana and levels had left.
ShareKept ==
  /\ hp * base.maxHp <= base.hp * maxHp
  /\ mp * base.maxMp <= base.mp * maxMp

\* Outside checkLevelUp, the level is the one the experience pays for: reached,
\* and the next is not.  (Level 1 is free.)
LevelEarned ==
  /\ level > 1 => experience >= ExperienceForLevel(level)
  /\ ~leveling => experience < ExperienceForLevel(level + 1)
=============================================================================
