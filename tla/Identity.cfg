SPECIFICATION SpecMC
CONSTANTS
  p = p
  q = q
  None = None
  Ids = {p, q}
  Profiles <- ProfilesMC
  MaxAsked = 2
  MaxWaiting = 1
  MaxRefused = 1
INVARIANTS
  LandsInSession
  OpenedBySecret
  RuntimeIsActive
  DeadlineKept
  Restored
PROPERTIES
  DueLocks
CHECK_DEADLOCK FALSE
