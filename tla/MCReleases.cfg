SPECIFICATION ReleaseSpec
SYMMETRY OperatorSymmetry
CONSTANTS
  o1 = o1
  o2 = o2
  h1 = h1
  k1 = k1
  k2 = k2
  a = a
  x = x
  y = y
  Manifest = {a}
  Object = {x, y}
  Empty = Empty
  Broken = Broken
  Documents <- MCDocuments
  Operator = {o1, o2}
  HelmRelease = {h1}
  ReleaseKey = {k1, k2}
  NoKey = NoKey
  Release <- MCRelease
  History <- MCHistory
  NoRelease = NoRelease
  Unreported = Unreported
  Nobody = Nobody
  MaxCreates = 1
  MaxRetargets = 1
  MaxChanges = 1
CHECK_DEADLOCK FALSE
INVARIANTS
  ReleaseTypeOK
  NotFoundIsUntracked
PROPERTIES
  ClaimSpec
  RemovedIsReleased
