CONSTANTS
  a1 = a1
  a2 = a2
  m1 = m1
  m2 = m2
  d1 = d1
  d2 = d2
  Address = {a1, a2}
  Manager = {m1, m2}
  Device = {d1, d2}
  FirstDevice = d1
  NullCallback = NullCallback
  NoParameters = NoParameters
  NoEntry = NoEntry
  CounterMod = 3
  LifeTime = 0
  MaxTime = 1
CHECK_DEADLOCK FALSE
SPECIFICATION Spec
SYMMETRY Symmetry
INVARIANTS
  TypeOK
  TableAgreesWithParameters
  DevicesShareOneListener
  OnlyStartedManagersListen
  StoppedManagersRateNobody
PROPERTY RatingsFollowConduct
