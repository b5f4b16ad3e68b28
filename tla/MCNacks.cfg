CONSTANTS
  SeqSpace = 5
  MAX_BUFFER_SIZE = 2
  LinkFaults = {"dup", "truncate"}
  MaxLag = 2
  NChunks = 4
  DefaultTimer = 0
  IdleLimit = 0
  AgeCap = 1
  IdleCap = 0
  MayBlock = FALSE
  MaxReadErrors = 0
  RIdleLimit = 0
  RIdleCap = 0
  RMayBlock = FALSE
  AckBound = 2
SPECIFICATION Spec
INVARIANTS
  NoPrematureDelete
  FinalMeansComplete
