\* A client that lags behind a full channel sees [DONE] without the done frame.
CONSTANTS
  s1 = s1
  t1 = t1
  t2 = t2
  c1 = c1
  c2 = c2
  m1 = m1
  m2 = m2
  None = None
  Sessions = {s1}
  Turns = {t1}
  Conns = {c1}
  Steers = {m1}
  FrameSize <- MCFrameSize
  ReplayCap = 3
  SubBuffer = 1
  MaxCalls = 1
  MaxFrames = 2
SPECIFICATION Spec
INVARIANT DoneCarriesTerminal
CHECK_DEADLOCK FALSE
