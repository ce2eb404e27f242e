SPECIFICATION Spec
CONSTANTS
  r1 = r1
  r2 = r2
  r3 = r3
  Requests = {r1, r2, r3}
  Names <- MCNames
  Values <- MCValues
  Default <- MCDefault
  Base <- MCBase
  Accepted <- MCAccepted
  Patches <- MCPatches
  MaxFaults = 1
  MaxRestarts = 1
INVARIANTS AppliedIsValidated
PROPERTIES FailedChangesNothing
CHECK_DEADLOCK FALSE
