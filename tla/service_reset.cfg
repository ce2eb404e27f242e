SPECIFICATION Spec
CONSTANTS
  Readers = {status}
  Writers = {reingest}
  Resets = {reingest}
  Shutdowns = {shutdown}
  Sessions = {s1, s2, s3}
  None = None
INVARIANTS ResetStartsClean WritersAreAnswered
CHECK_DEADLOCK FALSE
