CONSTANTS
  SeqSpace = 5
  MAX_BUFFER_SIZE = 2
  LinkFaults = {"loss"}
  MaxLag = 2
  NChunks = 2
  DefaultTimer = 0
  IdleLimit = 0
  AgeCap = 1
  IdleCap = 0
  MayBlock = TRUE
  MaxReadErrors = 0
  RIdleLimit = 0
  RIdleCap = 0
  RMayBlock = FALSE
  AckBound = 2
SPECIFICATION Spec
INVARIANTS
  NeverCrashes
