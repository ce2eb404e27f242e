SPECIFICATION Spec
CONSTANTS
  Messages <- MCMessages
  DayOf <- MCDayOf
  MaxChars = 3
  Files = 1
  Exports <- MCTwoExports
  Bounds <- Capped
  InsertBatch = 2
  Faults = {}
  Retracts = FALSE
  DirtyEdits = FALSE
  MaxEdits = 1
  MaxFaults = 0
INVARIANTS NeverDeletesUnrendered
