CONSTANTS
  Budget = 4
  Rounds = 2
  MaxCompactions = 1
  StopAt = 2
  Parallel = 2
  Batches <- MoreBatches
  Schemes = {"fresh"}
  Versions = {1}
  MaxRuns = 1
  MaxSteers = 1
  MaxEdits = 0
SPECIFICATION Spec
INVARIANTS
  VerifiedOrNudged
  AnswerCoversUsers
  
  MutatorsAlone
PROPERTIES
  RunsDown
  RunEnds
CHECK_DEADLOCK FALSE
