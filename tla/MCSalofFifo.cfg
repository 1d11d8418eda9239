SPECIFICATION FairSpec
CONSTANTS
  w1 = w1
  w2 = w2
  Writer = {w1, w2}
  Size = 4
  Width = 8
  MaxLen = 3
  Writes = 2
INVARIANT InOrder
INVARIANT NothingStranded
PROPERTY SalofReturns
CHECK_DEADLOCK FALSE
