CONSTANTS
  Scripts <- MCScripts
  Modes = {"waits", "streams", "sendsFirst", "deaf"}
  InRoom = 2
  OutRoom = 2
  BodyCells = 1
  MaxRequests = 3
SPECIFICATION FairSpec
INVARIANTS
  TypeOK
  AnswersInFull
  HandledIsAnswered
PROPERTIES
  BlockedOnlyByClient
  ImplementsSession
