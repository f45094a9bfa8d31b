CONSTANTS
  FEV_BUFF_DEFAULT_SIZE = 2
  MaxLen = 4
  MaxIn = 5
  MaxOut = 4
SPECIFICATION BFairSpec
INVARIANT ReadIntact
INVARIANT InBounds
PROPERTY WriteEventEnds
