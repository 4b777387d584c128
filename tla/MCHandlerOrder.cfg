\* Quiet once the bound on changes is spent.
CHECK_DEADLOCK FALSE
SPECIFICATION Spec
CONSTANTS
  p = p
  d1 = d1
  d2 = d2
  dbig = dbig
  r1 = r1
  r2 = r2
  rbig = rbig
  x1 = x1
  x2 = x2
  xbad = xbad
  xbig = xbig
  toggle = toggle
  refusedOp = refusedOp
  k1 = k1
  k2 = k2
  w1 = w1
  w2 = w2
  Nothing = Nothing
  Name = {p}
  Path = {p}
  Target <- MCTarget
  Doc <- MCDoc
  Resident <- MCResident
  Rev <- MCRev
  Revision <- MCRevision
  Raw <- MCRaw
  Parse <- MCParse
  Text <- MCText
  Batch <- MCBatch
  Fold <- MCFold
  Requests <- MCRequests
  Worker = {w1, w2}
  Key = {k1, k2}
  ReplayCap = 1
  Compute = FALSE
  Following = TRUE
  Workload <- FeedWorkload
  Concurrency = "any"
  MaxCommits = 3
  MaxEarlier = 3
  MaxCrashes = 0
SYMMETRY Swaps
INVARIANTS
  ReaderConverges
