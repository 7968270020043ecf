CONSTANTS
  Skills = {1}
  Values = {}
  Changing = {}
  MaxChanges = 0
  Hurts = {}
  Restored = {}
  Gains = {}
  MaxExperience = 0
  StartTick = 5000
  Jumps = {1, 1850}
  MaxTicks = 3
SPECIFICATION Spec
PROPERTY CooldownAlwaysRespected
