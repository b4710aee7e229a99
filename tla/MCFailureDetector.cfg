CONSTANTS
  Links <- MCLinks
  CutVertex = {"h"}
  Interval = 5
  failureThreshold = 10
  Pause = 5
  Day = 86400
  Recovery = 4
  Lag = 1
  MaxAge = 27
  MaxLosses = 1
SPECIFICATION Spec
INVARIANTS
  TypeOK
  SuspicionIsExplained
  SilenceIsNoticed
