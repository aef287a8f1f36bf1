SPECIFICATION Spec
CONSTANTS
  SpaceSize = 2
  FooterLength = 1
  PrefixLength = 1
  UserKeys <- MCUserKeys
  Footers <- MCFooters
  MaxSize = 4
INVARIANTS
  HoldsValue
  InBounds
  OneBuffer
