SPECIFICATION Spec
CONSTANTS
  m1 = m1
  m2 = m2
  m3 = m3
  m4 = m4
  f1 = f1
  f2 = f2
  f3 = f3
  b1 = b1
  b2 = b2
  NoBook = NoBook
  NoFile = NoFile
  Msgs = {m1, m3}
  Op <- CacheOps
  Target <- Targets
  Books = {b1}
  Files = {f1, f2}
  BookOf <- Pair
  Chunked <- InChunks
  Parts <- Entries1or2
  Loops = {l1, l2}
  MaxStops = 1
  MaxUpdates = 1
  DbErrors = TRUE
SYMMETRY LoopSymmetry
INVARIANTS
  ReadyServes
CHECK_DEADLOCK FALSE
