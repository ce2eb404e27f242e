SPECIFICATION FairSpec
CONSTANTS
  Runs = {r1}
  Clients = {c1, c2}
  NoRun = NoRun
  Sampled = TRUE
  MaxEmits = 1
  MaxSamples = 1
INVARIANTS ThreadOrder ClosedAfterTerminal LoggingRestored
PROPERTIES StreamsEnd RunsSettle
