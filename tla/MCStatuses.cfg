SPECIFICATION Spec
CONSTANTS
  Statuses = {s1, s2, s3}
  Buffers = {b1, b2, b3}
  Null = Null
  Errors = {e1, e2}
  ErrorCodes = {"kAborted"}
  SubCodes = {"kMemoryLimit"}
  Named = {"NoSpace"}
  Severities = {"kFatalError"}
SYMMETRY Symmetry
INVARIANTS
  OneOwner
  Recognised
PROPERTIES
  ValueSemantics
  ErrorsOwed
CHECK_DEADLOCK FALSE
