CONSTANTS
  b = b
  c = c
  d = d
  o = o
  m1 = m1
  m2 = m2
  Protocol = {"trust", "selfish", "malicious"}
  Address = {b, c, d, o}
  Manager = {m1, m2}
  Neighbor = {b, c}
  Dst = {d}
  RemoteOrigin = {d, o}
  Self = Self
  Nowhere = Nowhere
  NoRoute = NoRoute
  NoEntry = NoEntry
  LifeTime = 0
  SeqnoMod = 8
  HopMod = 8
  Seqno = {7, 0}
  Hop = {0, 2}
  RreqSeqno = {0}
  RreqHop = {0}
  Ttl = {2}
  HelloSeqno = {0}
  Rating <- MCRating
SPECIFICATION Spec
SYMMETRY Symmetry
CONSTRAINT Bound
INVARIANTS
  TypeOK
  SearchesHaveTimers
  NeverAdvertisesShorter
PROPERTIES
  RoutesMoveToTrust
  RepliesKeepRoutes
  HellosRenewUnlessDistrusted
  SeqnosGoForward
  RepliesLeaveBetterRoute
