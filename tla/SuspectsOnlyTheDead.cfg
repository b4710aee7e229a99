CONSTANTS
  Links <- MCLinks
  CutVertex = {}
  Interval = 5
  failureThreshold = 10
  Pause = 5
  Day = 86400
  Recovery = 0
  Lag = 1
  MaxAge = 17
  MaxLosses = 0
SPECIFICATION Spec
INVARIANT SuspectsOnlyTheDead
