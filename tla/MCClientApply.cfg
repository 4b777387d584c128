SPECIFICATION Spec
CONSTANTS
  p = p
  alias = alias
  d1 = d1
  d2 = d2
  dbig = dbig
  r1 = r1
  r2 = r2
  rbig = rbig
  blank = blank
  x1loose = x1loose
  x1 = x1
  x2 = x2
  xbad = xbad
  xbig = xbig
  toggle = toggle
  settle = settle
  baseless = baseless
  refusedOp = refusedOp
  c1 = c1
  c2 = c2
  Nothing = Nothing
  Name = {p, alias}
  Path = {p}
  Target <- MCTarget
  Doc <- MCDoc
  Resident <- MCResident
  Rev <- MCRev
  Revision <- MCRevision
  Raw <- MCRaw
  Parse <- MCParse
  Text <- MCText
  Batch <- MCBatch
  Fold <- MCFold
  Requests <- MCRequests
  Caller = {c1}
  Quotable = {r1, r2, rbig}
  MaxElsewhere = 2
INVARIANTS
  ApplyReportsItsTransition
