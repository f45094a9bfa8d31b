CONSTANTS
  Byte = {0, 1}
  Zero = 0
  MaxSize = 5
SPECIFICATION Spec
INVARIANT TypeOK
INVARIANT EmptyAndFull
PROPERTY ImplementsFifo
