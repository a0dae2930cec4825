CONSTANTS
  Tags = {1, 2}
  Digests = {d1, d2}
  Nodes = {n1, n2}
  Unstable = {n1}
  None = None
  NumPrepull = 1
  Recommended = 1
  Kinds = {"docker", "gar"}
  MaxChanges = 2
SPECIFICATION Spec
INVARIANTS
  Consistent
  RefreshNotMissed
PROPERTY Settles
CHECK_DEADLOCK FALSE
