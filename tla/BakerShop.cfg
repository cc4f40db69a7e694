SPECIFICATION FairSpec
CONSTANTS
  N = 4
  MaxKills = 2
CHECK_DEADLOCK FALSE
INVARIANTS
  TypeOK
  Balance
  NoDeadlockWhileOpen
  PermitsOnlyLost
PROPERTIES
  Served
  Implements
