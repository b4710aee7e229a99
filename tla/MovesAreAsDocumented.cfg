CONSTANTS
  b = b
  c = c
  d = d
  m1 = m1
  m2 = m2
  Protocol = {"trust"}
  Address = {b, c, d}
  Manager = {m1, m2}
  Neighbor = {b, c}
  Dst = {d}
  RemoteOrigin = {d}
  Self = Self
  Nowhere = Nowhere
  NoRoute = NoRoute
  NoEntry = NoEntry
  LifeTime = 0
  SeqnoMod = 8
  HopMod = 8
  Seqno = {7, 0}
  Hop = {0, 1}
  RreqSeqno = {0}
  RreqHop = {0}
  Ttl = {2}
  HelloSeqno = {0}
  Rating <- MCRating
SPECIFICATION Spec
SYMMETRY Symmetry
CONSTRAINT Bound
PROPERTY MovesAreAsDocumented
