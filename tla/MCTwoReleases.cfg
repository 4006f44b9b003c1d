SPECIFICATION ControllerSpec
CONSTANTS
  k1 = k1
  k2 = k2
  a = a
  b = b
  c = c
  configmaps = configmaps
  secrets = secrets
  r1 = r1
  r2 = r2
  t1 = t1
  t2 = t2
  SetKey = {k1, k2}
  Manifests <- TwoReleases
  ObjectSet = {a, b, c}
  NoKey = NoKey
  GVK = {configmaps, secrets}
  ResourceKey = {r1, r2}
  Objects <- MCObjects
  FlakyGVK = {}
  Thread = {t1}
  MaxPtr = 8
  Cap = 1
  NoObjects = NoObjects
  NoThread = NoThread
  Drift = Drift
  MaxCalls = 2
  MaxEdits = 0
  MaxFailures = 0
  DeleteOps = {"delete"}
  UserUnlocks = FALSE
  Resyncs = FALSE
CHECK_DEADLOCK FALSE
INVARIANTS
  RestingLockIsWhole

  
