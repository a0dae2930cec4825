CONSTANTS
  Readers = {r1}
  None = None
  MaxStarts = 2
  MaxProgress = 35
  MaxFaults = 2
SPECIFICATION Spec
INVARIANTS
  Consistent
  ReaderSeesAll
PROPERTIES
  StartedIsRunning
  CallsEnd
CHECK_DEADLOCK FALSE
