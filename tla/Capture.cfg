\* The camera: the four buffers the code asks for, of which the driver grants one
\* to four, and two modes; tables of up to two formats, two sizes, three intervals.
CONSTANTS
  BufCount = 4
  Modes = {m1, m2}
  m1 = m1
  m2 = m2
  MaxFormats = 2
  MaxSizes = 2
  MaxIntervals = 3
SPECIFICATION CameraSpec
INVARIANTS FrameStaysWhole BuffersReturn CloseFreesAll 
PROPERTIES SetVideoParamReturns FramesKeepComing
CHECK_DEADLOCK FALSE
