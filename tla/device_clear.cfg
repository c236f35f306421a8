SPECIFICATION Spec
CONSTANTS
  m1 = m1
  m2 = m2
  m3 = m3
  m4 = m4
  f1 = f1
  f2 = f2
  f3 = f3
  b1 = b1
  b2 = b2
  NoBook = NoBook
  NoFile = NoFile
  Msgs = {m1, m2, m3, m4}
  Op <- ClearOps
  Target <- Targets
  Books = {b1, b2}
  Files = {f2, f3}
  BookOf <- TwoOnes
  Chunked <- InChunks
  Parts <- Entries1
  Loops = {l1, l2}
  MaxStops = 0
  MaxUpdates = 1
  DbErrors = FALSE
SYMMETRY LoopSymmetry
INVARIANTS
  TypeOK
  OneBook
  QueueAgrees
  QueueServed
  ActiveAgrees
  Accounted
CHECK_DEADLOCK FALSE
