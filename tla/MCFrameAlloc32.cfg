CONSTANTS
  IntBits = 4
  LongBits = 4
  MaxFrame = 24
  FirstPT = 8
  First4k = 12
  Uppers = {0, 14, 18}
  Maps <- MCMaps
SPECIFICATION Spec
INVARIANTS NeverTwice OnlyMemory UsedUp
CHECK_DEADLOCK FALSE
