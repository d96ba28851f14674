\* Two clients attach to, lag behind and leave one turn that is steered.
CONSTANTS
  s1 = s1
  t1 = t1
  t2 = t2
  c1 = c1
  c2 = c2
  m1 = m1
  m2 = m2
  None = None
  Sessions = {s1}
  Turns = {t1}
  Conns = {c1, c2}
  Steers = {m1}
  FrameSize <- MCFrameSize
  ReplayCap = 3
  SubBuffer = 1
  MaxCalls = 1
  MaxFrames = 2
SPECIFICATION Spec
INVARIANTS
  ExactlyOnceInOrder
  ClosedOnce
  DoneImpliesTerminal
CHECK_DEADLOCK FALSE
SYMMETRY Symmetry
