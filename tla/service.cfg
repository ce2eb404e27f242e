SPECIFICATION FairSpec
CONSTANTS
  Readers = {status}
  Writers = {build, reingest}
  Resets = {reingest}
  Shutdowns = {shutdown}
  Sessions = {s1, s2, s3, s4}
  None = None
INVARIANTS NoLeakedSession HandsOutOpen WriteLock
PROPERTIES ReadsAnswered
CHECK_DEADLOCK FALSE
