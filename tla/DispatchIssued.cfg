SPECIFICATION Spec
CONSTANTS
  Text <- MCText
  Empty = ""
  Within <- MCWithin
  Splice <- MCSplice
  Holed = {""}
  Newlines <- MCNewlines
  Stale <- MCStale
  Junk <- MCJunk
  Stray <- MCStray
  DayLimit = 3
  WorkerDayMax = 2
  Files <- MCOrderFiles
  Faults = FALSE
  MaxKills = 0
  MaxLines = 3
CHECK_DEADLOCK FALSE
INVARIANTS
  EveryOrderIssued
