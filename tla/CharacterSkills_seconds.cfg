CONSTANTS
  Skills = {1}
  Values = {}
  Changing = {}
  MaxChanges = 0
  Hurts = {}
  Restored = {}
  Gains = {}
  MaxExperience = 0
  StartTick = 5000
  Jumps = {1, 40}
  MaxTicks = 41
SPECIFICATION Spec
INVARIANT CooldownInSeconds
