CONSTANTS
  a1 = a1
  a2 = a2
  a3 = a3
  Address = {a1, a2, a3}
  NoEntry = NoEntry
  Idle = Idle
  End = End
  LifeTime = 1
  MaxTime = 3
  Value <- MCValue
SPECIFICATION Spec
INVARIANTS
  StampedInThePast
  IteratorCoversRecords
  PurgeEndsEmpty
PROPERTIES
  PurgeTakesOnlyOutdated
  PurgeOfOutdatedReturns
  ImplementsStore
