\* Servers that have come up and have no requests left rest.
CHECK_DEADLOCK FALSE
SPECIFICATION FairSpec
CONSTANTS
  s1 = s1
  s2 = s2
  c1 = c1
  c2 = c2
  Nothing = Nothing
  Server = {s1, s2}
  Flags <- MCFlags
  Prefixes = {"alpha", "beta"}
  Conn = {c1, c2}
  Status = {404}
  MaxMillis = 1
INVARIANTS
  TypeOK
  NoPanic
  MetricsMatchWire
PROPERTIES
  FlushedArrives
  StartsUp
