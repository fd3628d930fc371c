CONSTANTS
  HeaderLimit = 11
  BodyLimit = 3
  UsizeMax = 60
  IdleTimeout = 2
  ReqTimeout = 3
  MaxRequests = 3
  Setups <- AllSetups
  Outcomes = {"ok", "close", "switch", "badheader", "panic"}
SPECIFICATION FairSpec
INVARIANTS
  NoSilentDrop
  DeadlineHolds
  AnswersMatchRequests
  NothingAfterClose
  HandoverLosesNothing
PROPERTIES
  ImplementsSession
  JobEnds
