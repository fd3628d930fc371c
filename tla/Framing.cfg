CONSTANTS
  HeaderLimit = 11
  BodyLimit = 3
  UsizeMax = 60
  IdleTimeout = 1
  ReqTimeout = 1
  MaxRequests = 3
  Setups <- FramingSetups
  Outcomes = {"ok"}
SPECIFICATION Spec
INVARIANTS
  RefusedAsDue
  WaitsWithNothingDue
  LimitsKept
