\* A document nobody changes or asks for any more rests.
CHECK_DEADLOCK FALSE
SPECIFICATION Spec
CONSTANTS
  d1 = d1
  d2 = d2
  dv = dv
  Nothing = Nothing
  Newline = Newline
  Return = Return
  BadRef = BadRef
  Doc <- MCDoc
  Volatile = {dv}
  Deployment <- MCDeployment
  MaxClock = 1
  Computed <- MCComputed
  Body <- MCBody
  Asks <- MCAsks
  Role = {"asks", "follows"}
  MaxChanges = 2
  MaxFaults = 1
INVARIANTS
  TypeOK
  Negotiated
  OneRevision
  TagIdentifies
  FragmentExact
  ValuesTrack
PROPERTIES
  EventsIntact
