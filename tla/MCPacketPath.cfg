CONSTANTS
  MAX_PAYLOAD_SIZE = 512
  MAX_WINDOW_SIZE = 31
  NULL = NULL
  Junk = Junk
  SeqNums = {1}
  Times = {1, 2}
  Lengths = {0, 2, 512}
  Payloads = {p1}
  MaxWrites = 3
  MaxDamage = 2
SPECIFICATION Spec
INVARIANTS
  PacketInv
  RoundTrip
  NothingForged
  TruncationIsSeen
