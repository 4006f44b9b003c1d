SPECIFICATION TableSpec
CONSTANTS
  k1 = k1
  k2 = k2
  k3 = k3
  a = a
  b = b
  c = c
  d = d
  configmaps = configmaps
  secrets = secrets
  r1 = r1
  r2 = r2
  NoKey = NoKey
  SetKey = {k1, k2, k3}
  ObjectSet = {a, b, c, d}
  GVK = {configmaps, secrets}
  ResourceKey = {r1, r2}
  FlakyGVK = {secrets}
  Objects <- MCObjects
INVARIANTS
  TableTypeOK
  WholeGroups
  NoEmptyGroup
PROPERTY
  OwnershipSpec
