SPECIFICATION Spec
CONSTANTS
  Token <- MCToken
  Empty = ""
  Date = "date"
  Brace = "}"
  Ending <- MCEnding
  MinusOne = "-1"
  Num <- MCNum
  Within <- MCWithin
  Splice <- MCSplice
  Ignored = "-"
  Typed <- MCTyped
  Stale <- MCStale
  Leftover <- MCZeros
  Junk <- MCZeros
  Shipped <- MCShipped
  NoFile = NoFile
  Faults = TRUE
  Blocks = {3}
  MaxCommands = 2
  MaxCrashes = 1
CHECK_DEADLOCK FALSE
INVARIANTS
  TypeOK
  CopyInv
  CrashSafe
  TidyListing
PROPERTIES
  Implements
