SPECIFICATION Spec
CONSTANTS
  s1 = s1
  s2 = s2
  p1 = p1
  a1 = a1
  a2 = a2
  Blank = Blank
  Lists = {l1, l2}
  Refreshes = {n1}
  Admins = {a1, a2}
  Input <- Inputs
  Initially <- First
  Sites = {s1, s2}
  Paths = {p1}
  TTL = 0
  MaxTime = 1
  MaxChanges = 1
  MaxCrashes = 1
SYMMETRY Alike
INVARIANTS
  OwnPool
  RefreshLasts
CHECK_DEADLOCK FALSE
