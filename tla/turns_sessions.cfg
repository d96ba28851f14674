\* Two turns of one session, posted, steered, interrupted and retired.
CONSTANTS
  s1 = s1
  t1 = t1
  t2 = t2
  c1 = c1
  c2 = c2
  m1 = m1
  m2 = m2
  None = None
  Sessions = {s1}
  Turns = {t1, t2}
  Conns = {c1, c2}
  Steers = {m1, m2}
  FrameSize <- MCFrameSize
  ReplayCap = 3
  SubBuffer = 1
  MaxCalls = 2
  MaxFrames = 0
SPECIFICATION Spec
INVARIANTS
  TypeOK
  ActiveReachable
  SteeringInOrder
PROPERTY LaneSpec
CHECK_DEADLOCK FALSE
CONSTRAINT NobodyReads
SYMMETRY Symmetry
