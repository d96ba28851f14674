CONSTANTS
  Budget = 2
  Rounds = 1
  MaxCompactions = 1
  StopAt = 2
  Parallel = 2
  Batches <- MCBatches
  Schemes = {"fresh"}
  Versions = {1}
  MaxRuns = 2
  MaxSteers = 0
  MaxEdits = 0
SPECIFICATION Spec
PROPERTIES
  ContextReaches
CHECK_DEADLOCK FALSE
