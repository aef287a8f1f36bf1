SPECIFICATION GenFairSpec
CONSTANTS
  FlagSet <- MCFlagSet
  Garbage = {7}
  ShortWrites <- MCFlagSet
  UInt64 = 16
  MaxFiles = 4
INVARIANTS
  NextWithinValues
  CallTotal
  OnlyLastFileShort
  NamesUnique
  SortedRun
  DiskHoldsWritten
  EmptyTablesNeverJoin
PROPERTIES
  Terminates
CHECK_DEADLOCK FALSE
