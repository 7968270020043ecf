CONSTANTS
  Skills = {1, 4}
  Values = {0, 10}
  Changing = {"vitality", "intelligence"}
  MaxChanges = 2
  Hurts = {150}
  Restored = {100}
  Gains = {400, 2100}
  MaxExperience = 2500
  StartTick = 5000
  Jumps = {1850}
  MaxTicks = 3700
SPECIFICATION Spec
INVARIANTS TypeOK VitalsOK PointsConserved RequirementsMet LevelEarned UntouchedIsFull ShareKept
PROPERTY CooldownRespected
CHECK_DEADLOCK FALSE
