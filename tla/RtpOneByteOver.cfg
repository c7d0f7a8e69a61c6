\* A NALU one byte longer than a packet is never completed.
CONSTANTS
  FragmentSize = 2
  Lengths <- SomeLengths
  Networks <- NoFaults
  MaxNalus = 2
  MaxInFlight = 3
  MaxExtra = 0
SPECIFICATION Spec
INVARIANT NothingHeldBack
CHECK_DEADLOCK FALSE
