CONSTANTS
  NoLinks = NoLinks
  Moves <- ToE1AndLong
CHECK_DEADLOCK FALSE
SPECIFICATION Spec
INVARIANTS
  ArrivesLookingEast
  WaitOutlastsDrive
