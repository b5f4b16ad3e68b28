CONSTANTS
  Nodes = {n1, n2, n3}
  Packets = {a1, a2, a3}
  NULL = NULL
  FREE = FREE
  SeqSpace = 6
  realWindowSize = 3
  MaxReplies = 2
SPECIFICATION Spec
SYMMETRY Addresses
INVARIANT
  WellFormed
PROPERTY
  ImplementsReceiveQueues
