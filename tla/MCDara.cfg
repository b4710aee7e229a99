CONSTANTS
  Node = {"e1", "e2", "e3", "e4", "e5", "s1", "s2"}
  Configs <- AgreeingConfigs
  NoLinks = NoLinks
  Skew = 5
  MaxCrashes = 1
  MaxLosses = 0
  MaxMistakes = 0
CHECK_DEADLOCK FALSE
SPECIFICATION Spec
INVARIANTS
  NoTwoAtOnePlace
  MoverIsBestLiving
