CONSTANTS
  c1 = c1
  c2 = c2
  c3 = c3
  PoolSize = 2
  Jobs = {c1, c2, c3}
  MayPanic = {c1, c2}
  Endless = {c3}
  Terminate = Terminate
  NoJob = NoJob
  MaxStops = 2
SPECIFICATION SyncFairSpec
INVARIANTS
  GracefulShutdown
  OneAcceptAfterSignal
  FirstComeFirstServed
PROPERTIES
  ShutdownReturns
