SPECIFICATION Spec
CONSTANTS
  B = 16
  Bytes16 = 1
  Bytes32 = 2
  Bytes64 = 3
  Groups32 = 3
  Groups64 = 4
  LF = 2
  CR = 3
  Hash = 4
  Colon = 5
  Char0 = 6
  Backslash = 16
  Charn = 17
  Charr = 18
  CharA = 19
  Minus = 25
  NibbleRange = 16
  Values16 = {0, 16, 31}
  Values32 <- MCValues32
  Values64 <- MCValues64
  Signed64 <- MCSigned64
  Contents <- MCContents
  Keys <- MCKeys
  Numbers <- MCNumbers
  Options <- MCOptions
  IntVectors <- MCIntVectors
  NumKeys = 64
  KeySize = 4
  PrefixLengths = {0, 1, 2}
  TypeRange = 32
  kMaxSequenceNumber = 1
  Paddings = {0, 2}
  MaxItems = 2
INVARIANTS
  ReadsWhatWasWritten
  LengthPredicted
  KeyOrderKept
  KeysBounded
  TransformsStable
PROPERTIES
  StopsAtTheCut
CHECK_DEADLOCK FALSE
