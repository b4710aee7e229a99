CONSTANTS
  Script <- Examples
  FreeCall <- SomeCalls
  MaxCalls = 6
  MaxTime = 100000
CHECK_DEADLOCK FALSE
SPECIFICATION Spec
INVARIANTS
  PrintsAreComplete
  StreamsAreSeparate
  OnlyLateStartersPing
