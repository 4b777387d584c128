SPECIFICATION FairSpec
CONSTANTS
  p = p
  alias = alias
  d1 = d1
  d2 = d2
  dbig = dbig
  r1 = r1
  r2 = r2
  rbig = rbig
  x1 = x1
  x1loose = x1loose
  x2 = x2
  xbad = xbad
  xbig = xbig
  toggle = toggle
  baseless = baseless
  refusedOp = refusedOp
  t1 = t1
  t2 = t2
  Nothing = Nothing
  Name <- MCName
  Path <- MCPath
  Target <- MCTarget
  Doc <- MCDoc
  Resident <- MCResident
  Rev <- MCRev
  Revision <- MCRevision
  Raw <- MCRaw
  Parse <- MCParse
  Text <- MCText
  Batch <- MCBatch
  Fold <- MCFold
  Requests <- MCRequests
  Thread = {t1, t2}
  MaxOob = 1
INVARIANTS
  TypeOK
  DecisionStands
  BudgetHeld
PROPERTIES
  IsDocumentPort
  Answered
  StaysLoadable
