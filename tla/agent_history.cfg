CONSTANTS
  Budget = 3
  Rounds = 1
  MaxCompactions = 1
  StopAt = 2
  Parallel = 2
  Batches <- MCBatches
  Schemes = {"fresh"}
  Versions = {1, 2}
  MaxRuns = 2
  MaxSteers = 0
  MaxEdits = 1
SPECIFICATION Spec
INVARIANTS
  RequestsWellFormed
PROPERTIES
  ContextCurrent
  TranscriptSpec
CHECK_DEADLOCK FALSE
