CONSTANTS
  Users = {u1}
  Requests = {r1, r2, r3}
  Reaper = Reaper
  Reconciler = Reconciler
  OpIds = {o1, o2, o3}
  StateIds = {s1, s2, s3, s4}
  None = None
  InitialCluster = {"absent", "partial"}
  MaxFaults = 1
  MaxFaulty = 2
SPECIFICATION SafetySpec
SYMMETRY RequestSymmetry
INVARIANTS
  TypeOK
  SpawnOwnsState
  CancellationContained
  OneOperation
  DeleteNeverCancelled
