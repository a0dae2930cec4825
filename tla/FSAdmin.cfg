CONSTANTS
  Requests = {r1, r2, r3}
  NoOne = NoOne
SPECIFICATION AdminSpec
INVARIANT AdminTypeOK
PROPERTY Implements
CHECK_DEADLOCK FALSE
