SPECIFICATION Spec
CONSTANTS
  Names <- MCNames
  GraphNames <- MCGraphNames
  DeckNames <- MCDeckNames
  Scenarios <- MCScenarios
  Allowed <- MCAllowed
  Sources <- MCSources
  Length <- MCLength
  MaxSlices = 2
  MaxFiles = 2
  MaxTotal = 4
INVARIANTS UploadsAreWhole CacheIsNeverStale StoredSourceStays
CHECK_DEADLOCK FALSE
