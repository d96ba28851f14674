\* Four overlapping callers, three failures to trip, three ticks of cooldown.
CONSTANTS
  Callers = {c1, c2, c3, c4}
  Threshold = 3
  Cooldown = 3
SPECIFICATION Spec
INVARIANTS
  TrippedOnEvidence
PROPERTIES
  PacedRecovery
  NoWedge
