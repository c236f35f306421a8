SPECIFICATION CheckoutSpec
CONSTANTS
  c1 = c1
  c2 = c2
  c3 = c3
  b1 = b1
  NoId = NoId
  Reqs = {c1, c2, c3}
  Op <- BackOps
  Target <- BackBooks
  Files = {f1, f2}
  Books = {b1}
  BookOf <- TwoFiles
  Loops = {l1}
  ListedBytes <- Unit
  BodyBytes <- Unit
  MaxFileBytes = 1
  MaxCacheBytes = 0
  EvictOldest = FALSE
  MaxRestarts = 1
  DbErrors = FALSE
  Readers = {m1}
  About <- MarkBooks
  Together <- Benign
SYMMETRY FileSymmetry
INVARIANTS
  OneCopyOut
  CachedOnlyWhileOut
  ReadyIsComplete
  NothingForgotten
CHECK_DEADLOCK FALSE
