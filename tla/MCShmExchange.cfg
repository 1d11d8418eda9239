SPECIFICATION FairSpec
CONSTANTS
  w1 = w1
  w2 = w2
  Writer = {w1, w2}
  Torn = Torn
  Empty = Empty
  MaxStarts = 3
INVARIANT ReaderStarts
INVARIANT AckedIsRead
INVARIANT ReadIsWhole
PROPERTY WriteReturns
CHECK_DEADLOCK FALSE
