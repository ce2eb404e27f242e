SPECIFICATION Spec
CONSTANTS
  v1 = v1
  v2 = v2
  blank = blank
  small = small
  large = large
  Files = {f1, f2}
  Versions = {v1, v2}
  Configs = {small, large}
  Pieces <- MCPieces
  DeletesDuring = {"plain", "reingest"}
  PatchesDuringRuns = FALSE
  Faults = {"es", "flag", "kill"}
  MaxRuns = 2
  MaxRequests = 1
  MaxFaults = 1
  None = None
INVARIANTS ProcessMatchesTable IdentityNamesOneChunk FlagIsHonest ChunksMatchHash NothingStranded
PROPERTY FailedDeleteKeeps
CHECK_DEADLOCK FALSE
