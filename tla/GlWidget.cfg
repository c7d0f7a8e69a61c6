\* The OpenGL widget: a queue that is full at five pictures, so that a paint may
\* skip, and eight pictures.
CONSTANTS
  Null = Null
  HighWater = 5
  MaxPictures = 8
SPECIFICATION FairSpec
INVARIANTS PicturesAccounted PaintNeverWaits RedrawsLastDrawn
PROPERTIES DrawnInOrder GuiComesBack PicturesProgress
CHECK_DEADLOCK FALSE
