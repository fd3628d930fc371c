CONSTANTS
  HeaderLimit = 11
  BodyLimit = 3
  UsizeMax = 60
  IdleTimeout = 2
  ReqTimeout = 3
  MaxRequests = 3
  Setups <- OneUnframed
  Outcomes = {"ok", "close", "switch", "badheader", "panic"}
SPECIFICATION Spec
PROPERTY
  DispatchesOnlyComplete
