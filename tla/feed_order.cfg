SPECIFICATION Spec
CONSTANTS
  Runs = {r1}
  Clients = {c1}
  NoRun = NoRun
  Sampled = TRUE
  MaxEmits = 1
  MaxSamples = 1
INVARIANTS EmissionOrder
