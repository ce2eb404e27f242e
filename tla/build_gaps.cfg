SPECIFICATION Spec
CONSTANTS
  Messages <- MCMessages
  DayOf <- MCDayOf
  MaxChars = 3
  Files = 2
  Exports <- MCTwoExports
  Bounds <- OnlyAll
  InsertBatch = 2
  Faults = {"enqueue", "parse"}
  Retracts = FALSE
  DirtyEdits = FALSE
  MaxEdits = 2
  MaxFaults = 1
INVARIANTS OfferedIsStored NeverDeletesUnrendered
