SPECIFICATION Spec
CONSTANTS
  NameCount = 5
  Faults = FALSE
  MayCrash = FALSE
CHECK_DEADLOCK FALSE
INVARIANT NamesAreGiven
