CONSTANTS
  LenBytes = 4
  Sizes = {1, 3}
  MaxSize = 3
  Capacity = 6
  MaxMessages = 3
SPECIFICATION FairSpec
CHECK_DEADLOCK FALSE
INVARIANTS
  WholeInOrder
  EndIsExact
PROPERTY Delivered
