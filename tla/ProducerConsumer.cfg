SPECIFICATION FairSpec
CONSTANTS
  Number = 3
  Rounds = 10
CHECK_DEADLOCK FALSE
INVARIANTS
  TypeOK
  Balance
  PrintedRight
  RemovedLast
PROPERTIES
  Ends
  Implements
