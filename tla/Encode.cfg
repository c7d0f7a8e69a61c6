\* The sending pipeline with more frames than buffers, a codec that holds one
\* frame back, frames of one or two NALs, and any number of restarts.
CONSTANTS
  Null = Null
  FrameBufs = {f1}
  NalBufs = {n1, n2}
  MaxNals = 2
  MaxDelay = 1
  MaxFrames = 3
SPECIFICATION FairSpec
INVARIANTS BuffersAccounted FrameStaysMapped StopReleasesEverything
PROPERTIES LostOnlyByStop SentInFrameOrder StopReturns
CHECK_DEADLOCK FALSE
