SPECIFICATION Spec
CONSTANTS
  t1 = t1
  Tokens = {t1}
  Kinds = {"clip", "inline"}
  None = None
  Sizes = {1}
  MaxEfficient = 1
  SmallBudget = 2
  MaxGeneration = 3
INVARIANTS
  ClipsOfTheirSession
  SentOnce
  CancellationHeeded
PROPERTIES
  DiscardedForGood
