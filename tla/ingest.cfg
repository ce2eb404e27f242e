SPECIFICATION Spec
CONSTANTS
  v1 = v1
  v2 = v2
  blank = blank
  small = small
  large = large
  Files = {f1, f2}
  Versions = {v2, blank}
  Configs = {small, large}
  Pieces <- MCPieces
  DeletesDuring = {"plain"}
  PatchesDuringRuns = FALSE
  Faults = {"stage", "es", "pg", "persist", "kill"}
  MaxRuns = 2
  MaxRequests = 2
  MaxFaults = 1
  None = None
INVARIANTS MarkedIsSearchable IndexUnique FailedIsRetried ReingestApplies
CHECK_DEADLOCK FALSE
