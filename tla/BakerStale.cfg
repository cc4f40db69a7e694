SPECIFICATION Spec
CONSTANTS
  N = 2
  MaxKills = 1
CHECK_DEADLOCK FALSE
INVARIANTS
  LoavesOnShelf
