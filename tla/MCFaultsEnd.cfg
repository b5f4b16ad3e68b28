CONSTANTS
  SeqSpace = 5
  MAX_BUFFER_SIZE = 2
  LinkFaults = {"loss"}
  MaxLag = 2
  NChunks = 2
  DefaultTimer = 0
  IdleLimit = 0
  AgeCap = 1
  IdleCap = 1
  MayBlock = FALSE
  MaxReadErrors = 0
  RIdleLimit = 0
  RIdleCap = 1
  RMayBlock = FALSE
  AckBound = 2
  Failing = {"number", "file write", "socket read", "give up", "eof packet", "receiver read", "packet", "reply", "queue reply", "queue packet"}
  MaxFailures = 1
SPECIFICATION FairFaultsSpec
PROPERTIES
  BothEnd
