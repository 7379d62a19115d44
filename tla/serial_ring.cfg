SPECIFICATION SerialSpec
CHECK_DEADLOCK FALSE
CONSTANTS
  a = a
  erase = erase
  enter = enter
  zero = zero
  RingSize = 4
  MaxLine = 10
  Letters <- MCLetters
  Erase = erase
  Enter = enter
  Zero = zero
  WriteSizes = {1, 3, 6}
  ReadSizes = {1, 5}
  Slack = 2
  MaxTransfers = 3
  TypedAhead <- AnyKey
INVARIANT RingIndicesInRange
