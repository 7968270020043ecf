CONSTANTS
  Fighter = {f1, f2}
  MaxHp = 50
  Hits = {10, 25}
  SkillLevels = {1}
  Heals = {15}
SPECIFICATION Spec
PROPERTY AttacksAreValid
