CONSTANTS
  Users = {u1}
  Requests = {r1, r2}
  Reconciler = Reconciler
  Watcher = Watcher
  StateIds = {s1, s2, s3}
  None = None
  InitialObjects <- Nothing
  JobRetries = TRUE
  MaxBatch = 1
  MaxFaults = 1
SPECIFICATION Spec
SYMMETRY RequestSymmetry
INVARIANTS
  TypeOK
  OneOperationPerState
