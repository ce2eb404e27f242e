SPECIFICATION Spec
CONSTANTS
  r1 = r1
  r2 = r2
  r3 = r3
  Requests = {r1, r2}
  Names <- MCNames
  Values <- MCValues
  Default <- MCDefault
  Base <- MCBase
  Accepted <- MCAccepted
  Patches <- MCPatches
  MaxFaults = 1
  MaxRestarts = 1
INVARIANTS EnvironmentIsActive TableIsActive
PROPERTIES RequestsEnd
CHECK_DEADLOCK FALSE
