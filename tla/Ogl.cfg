\* The X11 widget: a queue that is full at two pictures, and five pictures.
CONSTANTS
  Null = Null
  HighWater = 2
  MaxPictures = 5
SPECIFICATION FairSpec
INVARIANTS PicturesAccounted DisplayOutlivesPainter
PROPERTIES DrawnInOrder NobodyBlocks
CHECK_DEADLOCK FALSE
