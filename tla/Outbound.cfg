SPECIFICATION FairSpec
CONSTANTS
  m1 = m1
  Messages = {m1}
  MaxAttempts = 1
  MaxPackets = 2
INVARIANTS
  NothingAfterTheEnd
  Attributed
  FallbackOnce
PROPERTIES
  
  KeepsPromise
CHECK_DEADLOCK FALSE
