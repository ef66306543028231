SPECIFICATION Spec
CONSTANTS
  p1 = p1
  d1 = d1
  Producers = {p1}
  Deadlines = {d1}
  MaxGeneration = 5
  MaxEpoch = 1
  IngressCapacity = 1
  MaxTimeouts = 0
  None = None
INVARIANTS
  ResetStaysShut
