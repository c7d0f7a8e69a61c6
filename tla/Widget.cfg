\* The Qt widget: three blocks, the fewest with which the pool is never empty, a
\* block larger than the high-water mark, and five pictures.
CONSTANTS
  Null = Null
  Blocks = {b1, b2, b3}
  BlockSize = 3
  HighWater = 2
  MaxPictures = 5
SPECIFICATION FairSpec
INVARIANTS BlocksAccounted BlockAtHand RoomForImage
PROPERTIES DrawnInOrder NobodyBlocks
CHECK_DEADLOCK FALSE
