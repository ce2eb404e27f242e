SPECIFICATION Spec
CONSTANTS
  Messages <- MCMessages
  DayOf <- MCDayOf
  MaxChars = 3
  Files = 2
  Exports <- MCFileExports
  Bounds <- WholeDays
  InsertBatch = 2
  Faults = {"delete", "process"}
  Retracts = TRUE
  DirtyEdits = FALSE
  MaxEdits = 2
  MaxFaults = 2
INVARIANTS ManifestMirrorsGraph NoGhosts NeverDeletesUnrendered
