SPECIFICATION Spec
CONSTANTS
  Count = {5, 15}
  Price = {60, 100}
  Rounds = 2
  Length = 1
  Repeats = 5
  Lines = {0, 1, 2}
  MaxStops = 3
CHECK_DEADLOCK FALSE
INVARIANTS
  TypeOK
  SemaphoresGuard
  AnswerFits
  LinesWhole
  HandledAsSaid
  PipesEndWell
PROPERTIES
  Implements
  
