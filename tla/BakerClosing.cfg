SPECIFICATION FairSpec
CONSTANTS
  N = 2
  MaxKills = 0
CHECK_DEADLOCK FALSE
PROPERTIES
  ChildrenEnd
