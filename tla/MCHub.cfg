\* A feed on which nothing more is published rests.
CHECK_DEADLOCK FALSE
SPECIFICATION FairSpec
CONSTANTS
  Reader = {s1}
  Early = {s1}
  Size <- MCSize
  RingCap = 2
  RingBytes = 3
  SubCap = 1
  MaxEvents = 5
  MaxFaults = 3
INVARIANTS
  TypeOK
  NoGap
  RingIsTail
PROPERTIES
  CaughtUp
  SkipsOnlyDatedOrLate
  ResetOnlyWhenLost
