SPECIFICATION Spec
CONSTANTS
  t1 = t1
  t2 = t2
  Tokens = {t1, t2}
  Kinds = {"photo"}
  None = None
  Sizes = {1, 2, 3}
  MaxEfficient = 2
  SmallBudget = 3
  MaxGeneration = 1
SYMMETRY Symmetry
INVARIANTS
  LanesKept
  NoLeftovers
