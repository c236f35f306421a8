SPECIFICATION Spec
CONSTANTS
  Devices = {d1, d2}
  LastPage = 2
  Requests = {q1, q2}
  MaxTime = 4
  Overlap = FALSE
SYMMETRY Alike
INVARIANTS
  TypeOK
  ReaderAgrees
PROPERTIES
  KeepsNewest
CHECK_DEADLOCK FALSE
