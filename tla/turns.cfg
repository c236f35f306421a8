SPECIFICATION FairSpec
CONSTANTS
  Books = {b1, b2}
  NoBook = NoBook
  Starts <- Chapters
  QueueLimit = 2
  PendingLimit = 2
  MaxClicks = 3
  MaxGoes = 2
  PastEnds = FALSE
INVARIANTS
  OneTurn
  CountsTurns
PROPERTIES
  QueueDrains
CHECK_DEADLOCK FALSE
