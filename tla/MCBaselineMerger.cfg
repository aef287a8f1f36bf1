SPECIFICATION MergerFairSpec
CONSTANTS
  ReadLimit = 7
  SeqRange = 2
  TypeRange = 1
  SmallUserKey = 1
  MaxKey = 3
  Disks <- MCDisks
  Inputs <- MCInputs
  Logics <- MCLogics
INVARIANTS
  AllEmitted
  OverrunOnlyAtLimit
PROPERTIES
  MergesEntries
  Ends
CHECK_DEADLOCK FALSE
