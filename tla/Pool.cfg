CONSTANTS
  j1 = j1
  j2 = j2
  j3 = j3
  j4 = j4
  PoolSize = 3
  Jobs = {j1, j2, j3, j4}
  MayPanic = {j1, j2, j3}
  Endless = {j4}
  Terminate = Terminate
  NoJob = NoJob
  MaxStops = 2
SPECIFICATION FairSpec
INVARIANTS
  LostOnlyIfAllPanicked
  StoppedMeansDrained
PROPERTIES
  ImplementsExecutor
  EveryJobServed
  StopReturns
