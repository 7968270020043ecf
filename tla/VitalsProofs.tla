---------------------------- MODULE VitalsProofs ----------------------------
(***************************************************************************)
(* What the float arithmetic of Vitals keeps, for every maximum below      *)
(* 2^14, and what each action of an actor does.  CharacterSkillsProofs     *)
(* puts them together.                                                     *)
(***************************************************************************)
EXTENDS Vitals, TLAPS

\* Division leaves a remainder below the divisor.
LEMMA DivMod ==
  ASSUME NEW a \in Nat, NEW d \in Nat \ {0}
  PROVE  /\ a \div d \in Nat
         /\ a % d \in 0 .. (d - 1)
         /\ a = (a \div d) * d + (a % d)
  OBVIOUS

\* Products of naturals grow with their factors.
LEMMA ProductGrows ==
  ASSUME NEW a \in Nat, NEW b \in Nat, NEW c \in Nat, a <= b
  PROVE  a * c <= b * c
  OBVIOUS

\* A common factor can be left out of both sides.
LEMMA FactorSmaller ==
  ASSUME NEW a \in Int, NEW b \in Int, NEW c \in Nat \ {0}, a * c <= b * c
  PROVE  a <= b
  OBVIOUS

\* A quotient is bounded by any whole number the exact one is bounded by.
LEMMA DivBounded ==
  ASSUME NEW a \in Nat, NEW d \in Nat \ {0}, NEW k \in Nat
  PROVE  /\ a \div d \in Nat
         /\ a <= k * d => a \div d <= k
         /\ a = k * d => a \div d = k
  <1> DEFINE q == a \div d
  <1>1. q \in Nat /\ q * d <= a /\ a <= q * d + d - 1
    BY DivMod
  <1> HIDE DEF q
  <1>2. q * d <= k * d => q <= k
    BY <1>1, FactorSmaller
  <1>3. k * d <= q * d + d - 1 => k <= q
    <2> SUFFICES ASSUME k * d <= q * d + d - 1, q + 1 <= k
                 PROVE  FALSE
      BY <1>1
    <2>1. (q + 1) * d <= k * d
      BY <1>1, ProductGrows
    <2>2. QED
      BY <1>1, <2>1
  <1>4. a <= k * d => q <= k
    BY <1>1, <1>2
  <1>5. a = k * d => q = k
    BY <1>1, <1>2, <1>3
  <1>6. QED
    BY <1>1, <1>4, <1>5 DEF q

-----------------------------------------------------------------------------
(* Rounding. *)

\* Rounding never passes a whole number.
LEMMA NearestBounds ==
  ASSUME NEW a \in Nat, NEW b \in Nat, NEW d \in Nat \ {0}, NEW k \in Nat
  PROVE  /\ Nearest(a, b, d) \in Nat
         /\ a * 4096 + b <= k * d => Nearest(a, b, d) <= k
         /\ k * d <= a * 4096 + b => k <= Nearest(a, b, d)
  <1> DEFINE x == a \div d
             y == a % d
             n == y * 4096 + b
             z == n \div d
             r == n % d
             q == x * 4096 + z
  <1>1. Nearest(a, b, d) = IF 2 * r > d \/ (2 * r = d /\ q % 2 = 1) THEN q + 1 ELSE q
    BY DEF Nearest
  <1>2. x \in Nat /\ y \in Nat /\ a = x * d + y
    BY DivMod, SMT
  <1> HIDE DEF x, y
  <1>3. n = y * 4096 + b
    OBVIOUS
  <1>4. n \in Nat
    BY <1>2, SMT
  <1> HIDE DEF n
  <1>5. z \in Nat /\ r \in 0 .. (d - 1) /\ n = z * d + r
    BY <1>4, DivMod, Zenon
  <1> HIDE DEF z, r
  <1>6. q \in Nat
    BY <1>2, <1>5, SMT
  <1>7. a * 4096 + b = q * d + r
    <2>1. a * 4096 + b = x * d * 4096 + z * d + r
      BY <1>2, <1>3, <1>5, SMT
    <2>2. (x * 4096 + z) * d = x * d * 4096 + z * d
      BY <1>2, <1>5, SMT
    <2>3. QED
      BY <1>2, <1>5, <2>1, <2>2, SMT
  <1> HIDE DEF q
  <1>8. /\ Nearest(a, b, d) \in {q, q + 1}
        /\ r = 0 => Nearest(a, b, d) = q
    BY <1>1, <1>5, <1>6, SMT
  <1>9. a * 4096 + b <= k * d => q <= k /\ (r # 0 => q + 1 <= k)
    <2> SUFFICES ASSUME q * d + r <= k * d
                 PROVE  q <= k /\ (r # 0 => q + 1 <= k)
      BY <1>5, <1>6, <1>7, SMT
    <2>1. q * d <= k * d
      BY <1>5, <1>6, <1>7, SMT
    <2>2. q <= k
      BY <1>6, <2>1, FactorSmaller, SMT
    <2>3. q = k => r = 0
      BY <1>5, <1>6, <1>7, SMT
    <2>4. QED
      BY <1>5, <1>6, <2>2, <2>3, SMT
  <1>10. k * d <= a * 4096 + b => k <= q
    <2> SUFFICES ASSUME k * d <= q * d + r, q + 1 <= k
                 PROVE  FALSE
      BY <1>5, <1>6, <1>7, SMT
    <2>1. (q + 1) * d <= k * d
      BY <1>6, ProductGrows, SMT
    <2>2. QED
      BY <1>5, <1>6, <2>1, SMT
  <1>11. QED
    BY <1>6, <1>8, <1>9, <1>10, SMT

-----------------------------------------------------------------------------
(* The ratio and the product. *)

\* A power of two divides 2^23.
LEMMA PowerFacts ==
  ASSUME NEW u \in Power
  PROVE  /\ u \in Nat \ {0}
         /\ 8388608 \div u \in Nat \ {0}
         /\ (8388608 \div u) * u = 8388608
  BY SMT DEF Power

\* The scale brings the quotient between 1 and 2.
LEMMA ScaleFacts ==
  ASSUME NEW old \in Nat, old < 16384, NEW cur \in Nat, 0 < cur, cur <= old
  PROVE  /\ Scale(cur, old) \in Power
         /\ old <= cur * Scale(cur, old)
         /\ cur * Scale(cur, old) < 2 * old
  <1>1. \E s \in Power : old <= cur * s /\ cur * s < 2 * old
    BY SMT DEF Power
  <1>2. QED
    BY <1>1, SMT DEF Scale

\* The ratio has 24 bits, is at most 1, and is 1 when full.
LEMMA RatioFacts ==
  ASSUME NEW old \in Nat, old < 16384, NEW cur \in Nat, 0 < cur, cur <= old
  PROVE  /\ Ratio(cur, old) \in Nat
         /\ 8388608 <= Ratio(cur, old) /\ Ratio(cur, old) < 16777216
         /\ Ratio(cur, old) <= 8388608 * Scale(cur, old)
         /\ cur = old => Scale(cur, old) = 1 /\ Ratio(cur, old) = 8388608
  <1>1. PICK s \in Nat \ {0} : s = Scale(cur, old) /\ old <= cur * s /\ cur * s < 2 * old
    BY ScaleFacts, PowerFacts, SMT
  <1> DEFINE a == cur * s * 2048
             n == Nearest(a, 0, old)
  <1>2. Ratio(cur, old) = n
    BY <1>1, SMT DEF Ratio
  <1>3. a \in Nat /\ a * 4096 + 0 = cur * s * 8388608
    BY <1>1, SMT
  <1> HIDE DEF a
  <1>4. /\ n \in Nat
        /\ \A k \in Nat : /\ a * 4096 + 0 <= k * old => n <= k
                          /\ k * old <= a * 4096 + 0 => k <= n
    BY <1>3, NearestBounds, SMT
  <1> HIDE DEF n
  <1>5. n \in Nat /\ 8388608 <= n
    <2>1. 8388608 * old <= a * 4096 + 0
      BY <1>1, <1>3, SMT
    <2>2. QED
      BY <1>4, <2>1, SMT
  <1>6. n <= 16777215
    <2>1. a * 4096 + 0 <= 16777215 * old
      BY <1>1, <1>3, SMT
    <2>2. QED
      BY <1>4, <2>1, SMT
  <1>7. n <= 8388608 * s
    <2>1. cur * s <= old * s
      BY <1>1, ProductGrows, SMT
    <2>2. cur * s * 8388608 <= old * s * 8388608
      BY <1>1, <2>1, SMT
    <2>3. PICK k \in Nat : k = 8388608 * s
      BY <1>1, SMT
    <2>4. a * 4096 + 0 <= k * old
      BY <1>1, <1>3, <2>2, <2>3, SMT
    <2>5. n <= k
      BY <1>4, <2>4, SMT
    <2>6. QED
      BY <2>3, <2>5, SMT
  <1>8. cur = old => s = 1
    <2> SUFFICES ASSUME cur = old, 2 <= s
                 PROVE  FALSE
      BY <1>1, SMT
    <2>1. 2 * old <= s * old
      BY <1>1, ProductGrows, SMT
    <2>2. QED
      BY <1>1, <2>1, SMT
  <1>9. QED
    BY <1>1, <1>2, <1>5, <1>6, <1>7, <1>8, SMT

\* High and Low are the exact product.
LEMMA ProductSplit ==
  ASSUME NEW m \in Nat, 8388608 <= m, m < 16777216,
         NEW new \in Nat, 0 < new, new < 16384
  PROVE  /\ High(m, new) \in Nat /\ 2048 <= High(m, new) /\ High(m, new) < 67108864
         /\ Low(m, new) \in Nat
         /\ High(m, new) * 4096 + Low(m, new) = m * new
  <1>1. PICK x \in Nat, y \in Nat :
           /\ x = m \div 4096 /\ y = m % 4096 /\ m = x * 4096 + y
           /\ 2048 <= x /\ x < 4096 /\ y < 4096
    BY SMT
  <1>2. y * new \in Nat /\ y * new <= 4095 * new
    BY <1>1, ProductGrows, SMT
  <1>3. PICK z \in Nat, l \in Nat :
           z = (y * new) \div 4096 /\ l = (y * new) % 4096 /\ y * new = z * 4096 + l
    BY <1>2, SMT
  <1>4. z <= new
    BY <1>2, <1>3, SMT
  <1>5. 2048 * new <= x * new /\ x * new <= 4095 * new
    BY <1>1, ProductGrows, SMT
  <1>6. m * new = x * new * 4096 + y * new
    BY <1>1, SMT
  <1>7. High(m, new) = x * new + z /\ Low(m, new) = l
    BY <1>1, <1>3, SMT DEF High, Low
  <1>8. x * new \in Nat
    BY <1>1, SMT
  <1>9. QED
    BY <1>3, <1>4, <1>5, <1>6, <1>7, <1>8, SMT

\* There is a unit for the product.
LEMMA UnitFacts ==
  ASSUME NEW m \in Nat, 8388608 <= m, m < 16777216,
         NEW new \in Nat, 0 < new, new < 16384
  PROVE  Unit(m, new) \in Power
  <1>1. PICK h \in Nat : h = High(m, new) /\ 2048 <= h /\ h < 67108864
    BY ProductSplit, SMT
  <1>2. PICK u \in Power : 2048 * u <= h /\ h < 4096 * u
    BY <1>1, SMT DEF Power
  <1>3. 2048 * u <= High(m, new) /\ High(m, new) < 4096 * u
    BY <1>1, <1>2, SMT
  <1>4. QED
    BY <1>3 DEF Unit

\* A maximum the arithmetic is exact for.
Small(n) == n \in Nat /\ 0 < n /\ n < 16384

\* A value carried over to a new maximum stays between zero and it, and a full
\* one stays full.
LEMMA RescaledBounds ==
  ASSUME NEW old, Small(old), NEW cur \in 0 .. old, NEW new, Small(new)
  PROVE  /\ Rescaled(cur, old, new) \in 0 .. new
         /\ cur = old => Rescaled(cur, old, new) = new
  <1>1. CASE cur = 0
    BY <1>1, SMT DEF Rescaled, Small
  <1>2. CASE cur # 0
    <2>1. /\ old \in Nat /\ old < 16384 /\ cur \in Nat /\ 0 < cur /\ cur <= old
          /\ new \in Nat /\ 0 < new /\ new < 16384
      BY <1>2, SMT DEF Small
    <2>2. PICK s \in Nat \ {0} : s = Scale(cur, old)
      BY <2>1, ScaleFacts, PowerFacts, SMT
    <2>3. PICK m \in Nat :
             /\ m = Ratio(cur, old) /\ 8388608 <= m /\ m < 16777216 /\ m <= 8388608 * s
             /\ cur = old => s = 1 /\ m = 8388608
      BY <2>1, <2>2, RatioFacts, SMT
    <2> DEFINE h == High(m, new)
               l == Low(m, new)
               u == Unit(m, new)
               v == 8388608 \div u
               p == Nearest(h, l, u)
    <2>4. u \in Nat \ {0} /\ v \in Nat \ {0} /\ v * u = 8388608
      BY <2>1, <2>3, UnitFacts, PowerFacts, SMT
    <2>5. s \in Nat /\ u \in Nat /\ v \in Nat
      BY <2>2, <2>4, SMT
    <2>6. h \in Nat /\ l \in Nat /\ h * 4096 + l = m * new
      BY <2>1, <2>3, ProductSplit, SMT
    <2>7. Rescaled(cur, old, new) = p \div (v * s)
      BY <1>2, <2>2, <2>3, SMT DEF Rescaled, Product
    <2> HIDE DEF h, l, u, v
    <2>8. v * s \in Nat \ {0} /\ new * (v * s) \in Nat
      BY <2>1, <2>2, <2>4, SMT
    <2>9. (new * (v * s)) * u = new * (8388608 * s)
      <3>1. PICK t \in Nat : t = 8388608
        BY SMT
      <3>2. (new * (v * s)) * u = new * (t * s)
        <4>1. v * u = t
          BY <2>4, <3>1, SMT
        <4>2. new \in Nat /\ t \in Nat
          BY <2>1, <3>1
        <4>3. (new * (v * s)) * u = new * ((v * u) * s)
          BY <2>5, <4>2, SMT
        <4>4. QED
          BY <4>1, <4>3, Zenon
      <3>3. QED
        BY <3>1, <3>2, SMT
    <2>10. m * new <= new * (8388608 * s) /\ (cur = old => m * new = new * (8388608 * s))
      <3>1. m * new <= (8388608 * s) * new
        BY <2>1, <2>2, <2>3, ProductGrows, SMT
      <3>2. QED
        BY <2>1, <2>2, <2>3, <3>1, SMT
    <2>11. p \in Nat /\ p <= new * (v * s) /\ (cur = old => p >= new * (v * s))
      <3>1. PICK k \in Nat : k = new * (v * s)
        BY <2>8
      <3>2. h * 4096 + l <= k * u /\ (cur = old => k * u <= h * 4096 + l)
        BY <2>9, <2>10, <2>6, <3>1, SMT
      <3>3. p \in Nat /\ p <= k /\ (cur = old => k <= p)
        BY <2>4, <2>6, <3>2, NearestBounds, SMT
      <3>4. QED
        BY <3>1, <3>3, SMT
    <2> HIDE DEF p
    <2>12. p \div (v * s) \in Nat /\ p \div (v * s) <= new /\ (cur = old => p \div (v * s) = new)
      <3>1. cur = old => p = new * (v * s)
        BY <2>8, <2>11, SMT
      <3>2. QED
        BY <2>1, <2>8, <2>11, <3>1, DivBounded, SMT
    <2>13. QED
      BY <2>1, <2>7, <2>12, SMT
  <1>3. QED
    BY <1>1, <1>2, SMT

-----------------------------------------------------------------------------
(* The actions of an actor. *)

\* The maxima are positive.
LEMMA MaximaPositive ==
  ASSUME NEW p \in [PrimaryStat -> Nat], NEW l \in Nat
  PROVE  MaxHpFor(p, l) \in Nat \ {0} /\ MaxMpFor(p, l) \in Nat \ {0}
  BY DEF MaxHpFor, MaxMpFor, PrimaryStat

\* With stats up to 1000 and levels up to 999 the arithmetic is exact.
LEMMA MaximaSmall ==
  ASSUME NEW p \in [PrimaryStat -> Nat], \A s \in PrimaryStat : p[s] <= 1000,
         NEW l \in Nat, l <= 999
  PROVE  Small(MaxHpFor(p, l)) /\ Small(MaxMpFor(p, l))
  BY SMT DEF MaxHpFor, MaxMpFor, PrimaryStat, Small

\* Level 1000 takes 100,000,000 experience.
LEMMA LevelBound ==
  ASSUME NEW l \in Nat, ExperienceForLevel(l) < 100000000
  PROVE  l <= 999
  <1> SUFFICES ASSUME 1000 <= l
               PROVE  FALSE
    BY SMT
  <1>1. 1000 * 1000 <= l * 1000 /\ 1000 * l <= l * l
    BY ProductGrows, SMT
  <1>2. QED
    BY <1>1, SMT DEF ExperienceForLevel

LEMMA SetPrimaryStatKeeps ==
  ASSUME VitalsOK, UntouchedIsFull, Small(maxHp), Small(maxMp), Small(maxHp'), Small(maxMp'),
         NEW s \in PrimaryStat \cup {"other"}, NEW v \in Nat, SetPrimaryStat(s, v)
  PROVE  VitalsOK' /\ UntouchedIsFull'
  <1>1. /\ primary' \in [PrimaryStat -> Nat]
        /\ UNCHANGED <<level, experience, leveling, base>>
    BY DEF SetPrimaryStat, growth, VitalsOK, PrimaryStat
  <1>2. /\ maxHp' = MaxHpFor(primary', level') /\ maxMp' = MaxMpFor(primary', level')
        /\ hp' = Rescaled(hp, maxHp, maxHp') /\ mp' = Rescaled(mp, maxMp, maxMp')
    BY DEF SetPrimaryStat, RecalculateDerivedStats
  <1>3. hp' \in 0 .. maxHp' /\ (hp = maxHp => hp' = maxHp')
    BY <1>2, RescaledBounds DEF VitalsOK
  <1>4. mp' \in 0 .. maxMp' /\ (mp = maxMp => mp' = maxMp')
    BY <1>2, RescaledBounds DEF VitalsOK
  <1>5. VitalsOK'
    BY <1>1, <1>2, <1>3, <1>4, Zenon DEF VitalsOK
  <1>6. UntouchedIsFull'
    BY <1>1, <1>3, <1>4 DEF UntouchedIsFull
  <1>7. QED
    BY <1>5, <1>6

\* Damage, healing and mana.
LEMMA ValuesKeep ==
  ASSUME VitalsOK, UntouchedIsFull, NEW n \in Nat,
         TakeDamage(n) \/ Heal(n) \/ UseMana(n) \/ RestoreMana(n)
  PROVE  VitalsOK' /\ UntouchedIsFull'
  <1>1. UNCHANGED <<primary, level, experience, leveling, maxHp, maxMp>>
    BY DEF TakeDamage, Heal, UseMana, RestoreMana, growth, maxima
  <1>2. maxHp \in Nat /\ maxMp \in Nat
    BY MaximaPositive DEF VitalsOK
  <1>3. hp' \in 0 .. maxHp' /\ mp' \in 0 .. maxMp'
    BY <1>1, <1>2 DEF TakeDamage, Heal, UseMana, RestoreMana, VitalsOK
  <1>4. base' = [hp |-> hp', maxHp |-> maxHp', mp |-> mp', maxMp |-> maxMp']
    BY DEF TakeDamage, Heal, UseMana, RestoreMana, Settled
  <1>5. base' \in [hp : Nat, maxHp : Nat, mp : Nat, maxMp : Nat]
    BY <1>1, <1>2, <1>3, <1>4
  <1>6. maxHp' = MaxHpFor(primary', level') /\ maxMp' = MaxMpFor(primary', level')
    BY <1>1 DEF VitalsOK, MaxHpFor, MaxMpFor
  <1>7. VitalsOK'
    BY <1>1, <1>3, <1>5, <1>6, Zenon DEF VitalsOK
  <1>8. UntouchedIsFull'
    BY <1>4 DEF UntouchedIsFull
  <1>9. QED
    BY <1>7, <1>8

\* Gaining experience, up to the loop and at its end.
LEMMA GrowthKeeps ==
  ASSUME VitalsOK, UntouchedIsFull, NEW n \in Nat, GainExperience(n) \/ LevelingEnds
  PROVE  VitalsOK' /\ UntouchedIsFull'
  <1>1. UNCHANGED <<primary, level, maxHp, maxMp, hp, mp, base>>
    BY DEF GainExperience, LevelingEnds, maxima
  <1>2. experience' \in Nat /\ leveling' \in BOOLEAN
    <2>1. experience' \in Nat
      BY DEF GainExperience, LevelingEnds, VitalsOK
    <2>2. leveling' \in BOOLEAN
      BY Zenon DEF GainExperience, LevelingEnds
    <2>3. QED
      BY <2>1, <2>2
  <1>3. maxHp' = MaxHpFor(primary', level') /\ maxMp' = MaxMpFor(primary', level')
    BY <1>1 DEF VitalsOK, MaxHpFor, MaxMpFor
  <1>4. VitalsOK'
    BY <1>1, <1>2, <1>3, Zenon DEF VitalsOK
  <1>5. UntouchedIsFull'
    BY <1>1 DEF UntouchedIsFull
  <1>6. QED
    BY <1>4, <1>5

LEMMA LevelUpKeeps ==
  ASSUME VitalsOK, LevelUp
  PROVE  VitalsOK' /\ UntouchedIsFull'
  <1>1. /\ UNCHANGED <<primary, experience, leveling>>
        /\ level' = level + 1 /\ level' \in Nat \ {0}
    BY DEF LevelUp, VitalsOK
  <1>2. /\ maxHp' = MaxHpFor(primary', level') /\ maxMp' = MaxMpFor(primary', level')
        /\ hp' = maxHp' /\ mp' = maxMp'
        /\ base' = [hp |-> maxHp', maxHp |-> maxHp', mp |-> maxMp', maxMp |-> maxMp']
    BY DEF LevelUp, OnLevelUp, SettledFull
  <1>3. primary' \in [PrimaryStat -> Nat]
    BY <1>1 DEF VitalsOK
  <1>4. maxHp' \in Nat /\ maxMp' \in Nat
    BY <1>1, <1>2, <1>3, MaximaPositive
  <1>5. hp' \in 0 .. maxHp' /\ mp' \in 0 .. maxMp'
    BY <1>2, <1>4
  <1>6. base' \in [hp : Nat, maxHp : Nat, mp : Nat, maxMp : Nat]
    BY <1>2, <1>4
  <1>7. experience' \in Nat /\ leveling' \in BOOLEAN
    BY <1>1 DEF VitalsOK
  <1>8. VitalsOK'
    BY <1>1, <1>2, <1>3, <1>5, <1>6, <1>7, Zenon DEF VitalsOK
  <1>9. QED
    BY <1>2, <1>8 DEF UntouchedIsFull

\* The loop goes on to the level that is paid for, and not beyond.
LEMMA LoopKeeps ==
  ASSUME VitalsOK, LevelEarned, NEW n \in Nat, GainExperience(n) \/ LevelUp \/ LevelingEnds
  PROVE  LevelEarned'
  <1>1. level \in Nat \ {0} /\ experience \in Nat
    BY DEF VitalsOK
  <1>2. \A l \in Nat : ExperienceForLevel(l) \in Nat
    BY DEF ExperienceForLevel
  <1>3. CASE GainExperience(n)
    <2>1. level' = level /\ leveling' /\ experience' = experience + n
      BY <1>3 DEF GainExperience
    <2>2. QED
      BY <1>1, <1>2, <2>1 DEF LevelEarned
  <1>4. CASE LevelUp
    <2>1. /\ leveling' = leveling /\ leveling /\ experience' = experience
          /\ level' = level + 1 /\ experience >= ExperienceForLevel(level + 1)
      BY <1>4 DEF LevelUp, NextLevelPaid
    <2>2. QED
      BY <2>1 DEF LevelEarned
  <1>5. CASE LevelingEnds
    <2>1. /\ level' = level /\ experience' = experience
          /\ ~(experience >= ExperienceForLevel(level + 1))
      BY <1>5 DEF LevelingEnds, NextLevelPaid
    <2>2. ExperienceForLevel(level + 1) \in Nat
      BY <1>1, <1>2
    <2>3. experience < ExperienceForLevel(level + 1)
      BY <1>1, <2>1, <2>2
    <2>4. QED
      BY <2>1, <2>3 DEF LevelEarned
  <1>6. QED
    BY <1>3, <1>4, <1>5
=============================================================================
