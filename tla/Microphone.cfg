SPECIFICATION Spec
CONSTANTS
  l1 = l1
  l2 = l2
  None = None
  Links = {l1, l2}
  Profiles = {1, 3, 4}
  Opus = {3, 4}
  MaxServices = 1
  MaxSwitches = 0
  MaxQueue = 3
  MaxAsked = 4
INVARIANTS
  MicrophoneNotShared
CHECK_DEADLOCK FALSE
