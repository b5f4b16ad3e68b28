CONSTANTS
  SeqSpace = 5
  MAX_BUFFER_SIZE = 2
  LinkFaults = {"loss"}
  MaxLag = 2
  NChunks = 3
  DefaultTimer = 0
  IdleLimit = 0
  AgeCap = 1
  IdleCap = 0
  MayBlock = FALSE
  MaxReadErrors = 0
  RIdleLimit = 0
  RIdleCap = 0
  RMayBlock = FALSE
  AckBound = 2
  Failing = {"socket read", "eof packet", "receiver read", "queue packet"}
  MaxFailures = 1
SPECIFICATION FairFaultsSpec
PROPERTIES
  Completes
