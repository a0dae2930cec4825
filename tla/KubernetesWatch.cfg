CONSTANTS
  Kinds = {"deletion", "custom", "replace", "creation", "phase", "address"}
  Duration = 3
  Reserve = 1
  MaxVersion = 4
  MaxFaults = 1
  None = None
SPECIFICATION FairSpec
INVARIANTS
  TypeOK
  ReturnsAreTrue
  NothingMissed
  TimeoutsAreTrue
PROPERTY WaitsEnd
CHECK_DEADLOCK FALSE
