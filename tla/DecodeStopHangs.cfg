\* mainwindow.ui:85 labels the button "stop decode"; after an earlier stop that
\* left its NULL in a queue, the stop waits for ever.
CONSTANTS
  Null = Null
  NaluBufs = {n1, n2, n3}
  YuvBufs = {y1, y2, y3}
  MaxFrames = 2
SPECIFICATION FairSpec
PROPERTY StopDecodeStops
CHECK_DEADLOCK FALSE
