CONSTANTS
  SeqSpace = 5
  MAX_BUFFER_SIZE = 2
  LinkFaults = {"loss"}
  MaxLag = 2
  NChunks = 2
  DefaultTimer = 0
  IdleLimit = 0
  AgeCap = 1
  IdleCap = 0
  MayBlock = TRUE
  MaxReadErrors = 1
  RIdleLimit = 0
  RIdleCap = 0
  RMayBlock = FALSE
  AckBound = 2
  Failing = {"socket read", "give up", "eof packet", "keep", "number", "payload", "receiver poll", "receiver read", "packet", "reply", "queue reply", "queue packet", "file write"}
  MaxFailures = 2
SPECIFICATION FaultsSpec
INVARIANTS
  FaultsTypeOK
  SafeIfKept
  RereadInv
  WrittenOnce
  EndMeansReached
  LossIsCounted
  GapsInv
