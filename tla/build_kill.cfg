SPECIFICATION Spec
CONSTANTS
  Messages <- MCMessages
  DayOf <- MCDayOf
  MaxChars = 3
  Files = 1
  Exports <- MCExports
  Bounds <- OnlyAll
  InsertBatch = 1
  Faults = {"kill", "delete", "save"}
  Retracts = FALSE
  DirtyEdits = FALSE
  MaxEdits = 2
  MaxFaults = 3
INVARIANTS CleanBuildIsCurrent
