CONSTANTS
  FEV_BUFF_DEFAULT_SIZE = 2
  MaxLen = 2
  MaxIn = 1
  MaxOut = 4
SPECIFICATION BSpec
INVARIANT SentInOrder
