SPECIFICATION WatcherSpec
CONSTANTS
  GVK = {configmaps, secrets, widgets}
  Thread = {t1, t2}
  NoThread = NoThread
  NoKind = NoKind
  UnknownGVK = {widgets}
  FlakyGVK = {configmaps}
  HangingGVK = {secrets}
  MaxFailures = 2
CHECK_DEADLOCK FALSE
INVARIANTS
  WatcherTypeOK
  NoForgottenWatch
  StartedIsRunning
  OneHandlerPerAttempt
PROPERTY
  WatcherReturns
