CONSTANTS
  Node = {"h", "a", "b", "c", "d", "f"}
  Configs <- HubLast
  NoLinks = NoLinks
  Skew = 1
  MaxCrashes = 2
  MaxLosses = 1
  MaxMistakes = 1
CHECK_DEADLOCK FALSE
SPECIFICATION Spec
INVARIANTS
  TypeOK
  FewAtOnePlace
  ListedWhereTheyStand
  NobodyRaises
PROPERTIES
  ImplementsSuccession
  RecoveriesEnd
  CutVerticesAreReplaced
