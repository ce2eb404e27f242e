SPECIFICATION Spec
CONSTANTS
  Runs = {r1, r2}
  Clients = {c1}
  NoRun = NoRun
  Sampled = FALSE
  MaxEmits = 1
  MaxSamples = 0
INVARIANTS EndsWithTerminal LogIsOneRun PinnedInFlow ClosedAfterTerminal
