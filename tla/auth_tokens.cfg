SPECIFICATION Spec
CONSTANTS
  Requests = 3
  Overlaps <- RefreshRaces
  Fresh = TRUE
  Stored <- AnyStored
  Root = Root
  Alice = Alice
  Bob = Bob
INVARIANTS
  RevocationHolds
  NoFalseReplay
  SingleUse
  CodesOnlyWithTwoFactor
CHECK_DEADLOCK FALSE
