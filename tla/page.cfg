SPECIFICATION FairPageSpec
CONSTANTS
  Books = {b1, b2}
  None = None
  Requests = {q1, q2}
  MaxClicks = 4
  MaxMail = 1
  Ordered = TRUE
INVARIANTS
  ButtonTells
  CopiesAgree
PROPERTIES
  ListCatchesUp
CHECK_DEADLOCK FALSE
