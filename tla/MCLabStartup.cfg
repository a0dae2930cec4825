SPECIFICATION Spec
CONSTANTS
    Initially <- McInitially
    MaxFaults = 2
    MaxStarts = 2
INVARIANTS
  Consistent
  UserDataKept
PROPERTY StartEnds
CHECK_DEADLOCK FALSE
