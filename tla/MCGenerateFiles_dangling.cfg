SPECIFICATION GenSpec
CONSTANTS
  FlagSet <- MCEndingFlagSet
  Garbage = {7}
  ShortWrites = {}
  UInt64 = 16
  MaxFiles = 4
INVARIANTS
  NoSliceOutlivesItsKey
CHECK_DEADLOCK FALSE
