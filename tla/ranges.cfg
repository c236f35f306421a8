SPECIFICATION Spec
CONSTANTS
  Sizes = {0, 1, 4, 5}
  ChunkSizes = {1, 2, 3}
  Heads <- AllHeads
  NaN <- Missing
INVARIANTS
  TypeOK
  InOrder
  AsAsked
CHECK_DEADLOCK FALSE
