SPECIFICATION LockerSpec
CONSTANTS
  o1 = o1
  h1 = h1
  k1 = k1
  a = a
  b = b
  x1 = x1
  x2 = x2
  y1 = y1
  z1 = z1
  x = x
  y = y
  z = z
  configmaps = configmaps
  services = services
  Manifest = {a, b}
  Object = {x1, x2, y1, z1}
  Empty = Empty
  Broken = Broken
  Documents <- MCDocuments
  Operator = {o1}
  HelmRelease = {h1}
  ReleaseKey = {k1}
  NoKey = NoKey
  Release <- MCRelease
  History <- MCHistory
  NoRelease = NoRelease
  Unreported = Unreported
  Nobody = Nobody
  MaxCreates = 1
  MaxRetargets = 0
  MaxChanges = 1
  Name = {x, y, z}
  NameOf <- MCNameOf
  KindOf <- MCKindOf
  Absent = Absent
  Drift = Drift
  Damage = {Absent, Drift}
  MaxFaults = 1
CHECK_DEADLOCK FALSE
INVARIANTS
  UnlockedStaysUnlocked
