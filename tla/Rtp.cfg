\* A network without faults, one that loses datagrams while the receiver
\* restarts, and one that also duplicates, reorders and forges them.
CONSTANTS
  FragmentSize = 2
  Lengths <- SomeLengths
  Networks <- SomeNetworks
  MaxNalus = 3
  MaxInFlight = 3
  MaxExtra = 1
SPECIFICATION FairSpec
INVARIANTS DeliveredAscends DeliveredHasItsStart AssemblyIsOneNalu
PROPERTIES DeliversInOrder DeliversEveryNalu
CHECK_DEADLOCK FALSE
