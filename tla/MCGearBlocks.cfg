SPECIFICATION Spec
CONSTANTS
  BlockSize = 13
  HeaderLength = 4
  KeyLength = 2
  ValueLength = 1
  MaxEntryInBlock = 3
  UInt32 = 64
  Totals <- MCTotals
  Stray = {0, 5}
INVARIANTS
  WholeBlocks
  EntriesInPlace
  CountsAgree
CHECK_DEADLOCK FALSE
