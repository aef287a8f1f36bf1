SPECIFICATION FairSpec
CONSTANTS
  FlagSet <- MCFlagSet
  Garbage = {}
  ShortWrites <- MCShortWrites
  UInt64 = 16
  MaxFiles = 4
  ReadLimit = 4
  SeqRange = 1
  TypeRange = 1
  SmallUserKey = 100
  Disks = {}
  Inputs = {}
  Logics = {}
  BenchLists <- MCBenchLists
  MaxRuns = 2
INVARIANTS
  FullMergesItsOwn
  MergeOnlyExact
PROPERTIES
  ProcessEnds
CHECK_DEADLOCK FALSE
