CONSTANTS
  Clients <- MCClients
  TableSize = 2
  Sizes <- MCSizes
  MaxStarts = 1
SPECIFICATION Spec
CHECK_DEADLOCK FALSE
INVARIANTS
  TypeOK
  StoredBeforeShown
  AnsweredWholeOrNot
  
PROPERTIES
  EveryClientEnds
  TransfersWhole
