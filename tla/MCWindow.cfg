CONSTANTS
  SeqSpace = 7
  MAX_BUFFER_SIZE = 3
  LinkFaults = {"loss"}
  MaxLag = 3
  NChunks = 8
  DefaultTimer = 0
  IdleLimit = 0
  AgeCap = 1
  IdleCap = 0
  MayBlock = FALSE
  MaxReadErrors = 0
  RIdleLimit = 0
  RIdleCap = 0
  RMayBlock = FALSE
  AckBound = 2
SPECIFICATION Spec
INVARIANTS
  QueueOrdered
  WithinReceiverWindow
  LastAckMeansComplete
PROPERTIES
  DeletesWhatWasMeant
  ImplementsFileTransfer
