CONSTANTS
  c1 = c1
  c2 = c2
  c3 = c3
  Conns = {c1, c2, c3}
  Endless = {c3}
  MaxServes = 2
SPECIFICATION FairSpec
INVARIANTS
  NothingLost
PROPERTIES
  RoutesOnlyWhenIdle
  EachIsAccepted
  ShutdownReturns
