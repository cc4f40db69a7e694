SPECIFICATION FairSpec
CONSTANTS
  Text <- MCText
  Empty = ""
  Within <- MCWithin
  Splice <- MCSplice
  Holed = {""}
  Newlines <- MCNewlines
  Stale <- MCStale
  Junk <- MCJunk
  Stray <- MCStray
  DayLimit = 3
  WorkerDayMax = 2
  Files <- MCFiles
  Faults = TRUE
  MaxKills = 1
  MaxLines = 3
CHECK_DEADLOCK FALSE
INVARIANTS
  TypeOK
  DayInv
  Handshake
  NothingRecordedAfterLoss
  HangsOnlyByLoss
  TidyFilesGetDone
PROPERTIES
  MarksOnlyWorked
  DatabaseSurvives
  Completes
