CONSTANTS
  b = b
  c = c
  d = d
  o = o
  m1 = m1
  w1 = w1
  Address = {b, c, d, o}
  LifeTime = 0
  NoEntry = NoEntry
  Manager = {m1}
  Device = {w1}
  FirstDevice = w1
  NullCallback = NullCallback
  NoParameters = NoParameters
  CounterMod = 4
  MaxTime = 1
  Self = Self
  NoRoute = NoRoute
  Nowhere = Nowhere
  SeqnoMod = 8
  HopMod = 8
  Neighbor = {b, c}
  Dst = {d}
  RemoteOrigin = {d, o}
  Seqno = {0}
  Hop = {0}
  Ttl = {1}
  HelloSeqno = {0}
  RreqSeqno = {0}
  RreqHop = {0}
SPECIFICATION Spec
SYMMETRY Symmetry
CONSTRAINT Bound
PROPERTIES
  ImplementsAodvNode
  PlainWithoutManagers
  DecisionsFollowConduct
