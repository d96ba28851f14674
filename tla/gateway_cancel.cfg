\* The client leaves while the stream is peeked.
CONSTANTS
  r1 = r1
  r2 = r2
  p1 = p1
  p2 = p2
  k1 = k1
  None = None
  Requests = {r1, r2}
  Providers = {p1, p2}
  Runs = {k1}
  Combo <- MCCombo
  Streams <- MCStreams
  Capable <- MCCapable
  RunOf <- MCRunOf
  Configured = "priority"
  Selectable = {"priority"}
  Threshold = 1
  Cooldown = 1
  MaxSwitches = 1
SPECIFICATION Spec
INVARIANT CancelIsNotEvidence
