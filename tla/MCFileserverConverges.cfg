CONSTANTS
  Users = {u1}
  Requests = {r1}
  Reconciler = Reconciler
  Watcher = Watcher
  StateIds = {s1, s2, s3}
  None = None
  InitialObjects <- Leftovers
  JobRetries = FALSE
  MaxBatch = 1
  MaxFaults = 2
  MaxQuiet = 2
SPECIFICATION LiveSpec
PROPERTIES
  ServersConverge
  FileRequestsReturn
CHECK_DEADLOCK FALSE
