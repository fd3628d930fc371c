CONSTANTS
  Worlds <- MCWorlds
  Given <- MCGiven
  Wanted <- Page
  Index = "index"
  MaxLinks = 3
  MaxChanges = 3
SPECIFICATION Spec
INVARIANTS
  TypeOK
  LookIsAtomic
  StaysInside
  EarlierBasesHadNothing
