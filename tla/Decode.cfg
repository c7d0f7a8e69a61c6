\* The receiving pipeline: three buffers to a pool, the fewest with which malloc
\* always finds one, and any sequence of starts and stops.
CONSTANTS
  Null = Null
  NaluBufs = {n1, n2, n3}
  YuvBufs = {y1, y2, y3}
  MaxFrames = 4
SPECIFICATION Spec
SYMMETRY Symmetry
INVARIANTS BuffersAccounted ProducersFindQueueOpen StopJoinsEveryThread
PROPERTIES FramesInOrder
CHECK_DEADLOCK FALSE
