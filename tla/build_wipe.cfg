SPECIFICATION Spec
CONSTANTS
  Messages <- MCMessages
  DayOf <- MCDayOf
  MaxChars = 3
  Files = 1
  Exports <- MCTwoExports
  Bounds <- OnlyAll
  InsertBatch = 2
  Faults = {"kill", "kill_in_wipe"}
  Retracts = FALSE
  DirtyEdits = FALSE
  MaxEdits = 1
  MaxFaults = 1
INVARIANTS CleanBuildIsCurrent
