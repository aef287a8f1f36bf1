SPECIFICATION Spec
CONSTANTS
  p1 = p1  p2 = p2  h1 = h1  h2 = h2  s1 = s1  b1 = b1  b2 = b2  b3 = b3
  Slices = {p1, p2}
  Holders = {h1, h2}
  Strings = {s1}
  Blocks = {b1, b2, b3}
  BlockLength = 2
  MaxLength = 1
SYMMETRY Symmetry
INVARIANTS
  NoCleanupTwice
  NodesAccounted
  DataLive
PROPERTY
  SlicesKeepCleanups
CHECK_DEADLOCK FALSE
