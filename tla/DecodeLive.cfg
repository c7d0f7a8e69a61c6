\* The liveness of the receiving pipeline, without symmetry.
CONSTANTS
  Null = Null
  NaluBufs = {n1, n2, n3}
  YuvBufs = {y1, y2, y3}
  MaxFrames = 2
SPECIFICATION FairSpec
PROPERTIES StopReturns FramesProgress
CHECK_DEADLOCK FALSE
