SPECIFICATION FairSpec
CONSTANTS
  b1 = b1
  b2 = b2
  s1 = s1
  s2 = s2
  s3 = s3
  s4 = s4
  Buffers = {b1}
  Stagings = {s1, s2}
  MaxAhead = 1
  MaxFrames = 3
  MaxMessages = 2
INVARIANTS FramePacing StagedFrameIntact
PROPERTIES CallReturns
CHECK_DEADLOCK FALSE
