SPECIFICATION FairSpec
CONSTANTS
  NameCount = 5
  Faults = TRUE
  MayCrash = TRUE
CHECK_DEADLOCK FALSE
INVARIANTS
  TypeOK
  GameInv
  StallsOnlyByLoss
  ToldApart
PROPERTIES
  Implements
  GameEnds
