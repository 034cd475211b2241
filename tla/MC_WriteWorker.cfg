SPECIFICATION FairSpec
CONSTANTS
  Conns = {c1, c2}
  Closers = {g1, g2}
  Depth = 2
  MaxWrites = 2
  NoTask = NoTask
CHECK_DEADLOCK FALSE
INVARIANTS
  OwnResult
  InOrderOnce
PROPERTY WriteReturns
