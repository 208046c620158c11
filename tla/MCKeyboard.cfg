CONSTANTS
  k = k
  KEY_BUFFER_SIZE = 3
  buffer_size = 3
  Keys = {k}
  MaxPresses = 5
  NULL = NULL
SPECIFICATION FairSpec
INVARIANTS IInv LineIsTyped ShiftIsReleased
PROPERTIES IsKeyQueue KeysInOrder EnterReturns
