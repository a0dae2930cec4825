CONSTANTS
  Users = {u1}
  Requests = {r1, r2}
  Reaper = Reaper
  Reconciler = Reconciler
  OpIds = {o1, o2}
  StateIds = {s1, s2, s3}
  None = None
  InitialCluster = {"absent", "partial", "Running"}
  MaxFaults = 1
  MaxFaulty = 1
  MaxQuiet = 2
SPECIFICATION LiveSpec
PROPERTIES
  Converges
  RequestsReturn
  OperationsCollected
CHECK_DEADLOCK FALSE
