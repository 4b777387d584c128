\* A feed on which nothing more is published rests.
CHECK_DEADLOCK FALSE
SPECIFICATION FairSpec
CONSTANTS
  Reader = {s1}
  Early = {}
  Size <- MCSize
  RingCap = 2
  RingBytes = 3
  SubCap = 1
  MaxEvents = 4
  MaxFaults = 1
PROPERTIES
  NeverSkips
