CONSTANTS
  Fighter = {f1, f2}
  MaxHp = 20
  Hits = {15}
  SkillLevels = {1}
  Heals = {5}
  Conn = {c1, c2}
  NoActor = NoActor
  MaxBlows = 3
SPECIFICATION ArenaSpec
INVARIANTS ArenaTypeOK DeathsAnnounced FightersKnown OwnHpRight
PROPERTIES DeathIsFinal ValidatedActionsSound
SYMMETRY Symmetry
CHECK_DEADLOCK FALSE
