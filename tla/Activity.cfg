SPECIFICATION Spec
CONSTANTS
  p1 = p1
  d1 = d1
  Producers = {p1}
  Deadlines = {d1}
  MaxGeneration = 4
  MaxEpoch = 2
  IngressCapacity = 2
  MaxTimeouts = 1
  None = None
INVARIANTS
  NothingSurvives
  LeaseOfItsGeneration
  OpenMatchesSession
  NoSilentStop
  AnswerComes
CONSTRAINT FourAdvances
