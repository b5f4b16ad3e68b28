CONSTANTS
  Nodes = {n1, n2, n3}
  Packets = {a1, a2, a3}
  NULL = NULL
  FREE = FREE
  SeqSpace = 4
  MayRunOut = TRUE
  AsksWhenFull = FALSE
SPECIFICATION Spec
SYMMETRY Addresses
INVARIANT
  WellFormed
PROPERTY
  ImplementsSendQueue
