SPECIFICATION Spec
CONSTANTS
  Dirs <- McDirs
  Files <- McFiles
  Parent <- McParent
  Root = "root"
  Length <- McLength
  Named <- McNamed
  Threshold <- McThreshold
  Interval <- McInterval
  MaxClock = 2
  MaxChanges = 2
  MaxRuns = 3
  MaxFaults = 1
INVARIANT Consistent
PROPERTIES
  NamedStay
  LeavesRemoved
CHECK_DEADLOCK FALSE
