SPECIFICATION Spec
CONSTANTS
  Messages <- MCMessages
  DayOf <- MCDayOf
  MaxChars = 3
  Files = 1
  Exports <- MCExports
  Bounds <- OnlyAll
  InsertBatch = 1
  Faults = {"kill"}
  Retracts = FALSE
  DirtyEdits = TRUE
  MaxEdits = 2
  MaxFaults = 1
INVARIANTS CleanBuildIsCurrent GraphIsRecorded
