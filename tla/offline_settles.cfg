SPECIFICATION FairSpec
CONSTANTS
  r1 = r1
  r2 = r2
  r3 = r3
  r4 = r4
  r5 = r5
  r6 = r6
  f1 = f1
  f2 = f2
  f3 = f3
  b1 = b1
  b2 = b2
  b3 = b3
  NoId = NoId
  Reqs = {r1, r2, r3, r4}
  Op <- AgainOps
  Target <- AgainTargets
  Files = {f1, f2}
  Books = {b1, b2}
  BookOf <- FilePerBook
  Loops = {l1}
  ListedBytes <- Unknown
  BodyBytes <- Unit
  MaxFileBytes = 1
  MaxCacheBytes = 0
  EvictOldest = FALSE
  MaxRestarts = 1
  DbErrors = FALSE
INVARIANTS
  ReadyHasFile
PROPERTIES
  EveryRowSettles
CHECK_DEADLOCK FALSE
