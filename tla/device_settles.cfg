SPECIFICATION FairSpec
CONSTANTS
  m1 = m1
  m2 = m2
  m3 = m3
  m4 = m4
  f1 = f1
  f2 = f2
  f3 = f3
  b1 = b1
  b2 = b2
  NoBook = NoBook
  NoFile = NoFile
  Msgs = {m1, m2, m3}
  Op <- CacheOps
  Target <- Targets
  Books = {b1, b2}
  Files = {f2, f3}
  BookOf <- TwoOnes
  Chunked <- InChunks
  Parts <- Entries1or2
  Loops = {l1}
  MaxStops = 0
  MaxUpdates = 1
  DbErrors = FALSE
PROPERTIES
  EveryFileSettles
CHECK_DEADLOCK FALSE
