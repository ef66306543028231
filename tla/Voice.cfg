SPECIFICATION FairSpec
CONSTANTS
  l1 = l1
  l2 = l2
  None = None
  Links = {l1}
  Profiles = {1, 3, 4}
  Opus = {3, 4}
  MaxServices = 2
  MaxSwitches = 1
  MaxQueue = 2
  MaxAsked = 2
INVARIANTS
  HandoffComplete
  RejectedUnseen
  AlertsInSession
  CeilingKept
PROPERTIES
  CallsLeaveNothing
  SwitchCompletes
CHECK_DEADLOCK FALSE
