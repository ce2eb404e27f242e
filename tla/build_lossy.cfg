SPECIFICATION Spec
CONSTANTS
  Messages <- MCMessages
  DayOf <- MCDayOf
  MaxChars = 3
  Files = 1
  Exports <- MCExports
  Bounds <- WholeDays
  InsertBatch = 1
  Faults = {"enqueue", "save", "wipe", "kill"}
  Retracts = FALSE
  DirtyEdits = FALSE
  MaxEdits = 2
  MaxFaults = 2
INVARIANTS NeverDeletesUnrendered
