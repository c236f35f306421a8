SPECIFICATION Spec
CONSTANTS
  r1 = r1
  r2 = r2
  r3 = r3
  r4 = r4
  r5 = r5
  r6 = r6
  f1 = f1
  f2 = f2
  f3 = f3
  b1 = b1
  b2 = b2
  b3 = b3
  NoId = NoId
  Reqs = {r1, r2, r3, r4, r5, r6}
  Op <- ClearOps
  Target <- ClearTargets
  Files = {f1, f2, f3}
  Books = {b1, b2, b3}
  BookOf <- ThreeBooks
  Loops = {l1, l2}
  ListedBytes <- Sized
  BodyBytes <- Sized
  MaxFileBytes = 3
  MaxCacheBytes = 2
  EvictOldest = TRUE
  MaxRestarts = 0
  DbErrors = TRUE
SYMMETRY LoopSymmetry
INVARIANTS
  TypeOK
  QueueServed
  QueueAgrees
  ClearingEnds
  OneLoop
  CapRespected
PROPERTIES
  NoResurrection
  ForgottenOnlyByClear
CHECK_DEADLOCK FALSE
