SPECIFICATION RegisterSpec
CONSTANTS
  SetKey = {k1}
  ObjectSet = {a}
  NoKey = NoKey
  Thread = {t1, t2}
  MaxPtr = 6
  Cap = 1
  NoObjects = NoObjects
  NoThread = NoThread
INVARIANTS
  RegisterTypeOK
  NoStaleState
  LastEventIsCurrent
PROPERTY
  CallsReturn
