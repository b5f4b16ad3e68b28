CONSTANTS
  SeqSpace = 256
  MAX_BUFFER_SIZE = 8
SPECIFICATION Spec
INVARIANTS QueueSorted
PROPERTIES ImplementsReorderSet
