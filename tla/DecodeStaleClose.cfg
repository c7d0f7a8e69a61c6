\* video_decoder_task.cpp:54 calls NULL the "active close msg"; a thread also
\* ends on a NULL that an earlier stop left in its queue.
CONSTANTS
  Null = Null
  NaluBufs = {n1, n2, n3}
  YuvBufs = {y1, y2, y3}
  MaxFrames = 2
SPECIFICATION Spec
SYMMETRY Symmetry
PROPERTY TaskEndsOnlyWhenStopped
CHECK_DEADLOCK FALSE
