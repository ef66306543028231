SPECIFICATION FairSpec
CONSTANTS
  None = None
  Nodes = {n1, n2}
  Tids = {t1}
  MaxRounds = 1
  MaxPolicy = 1
INVARIANTS
  HavesOfThisNode
  SuppressionPersisted
  NoStaleFailures
PROPERTIES
  Resumes
CHECK_DEADLOCK FALSE
