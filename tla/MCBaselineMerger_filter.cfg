SPECIFICATION MergerSpec
CONSTANTS
  ReadLimit = 7
  SeqRange = 2
  TypeRange = 1
  SmallUserKey = 1
  MaxKey = 3
  Disks <- MCFewDisks
  Inputs <- MCInputs
  Logics <- MCLogics
INVARIANT
  RedundantAbandoned
CHECK_DEADLOCK FALSE
