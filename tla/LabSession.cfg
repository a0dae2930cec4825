CONSTANTS
  None = None
  MaxLogins = 1
  MaxSessions = 1
  MaxRuns = 2
  MaxOutput = 1
SPECIFICATION Spec
INVARIANTS
  Consistent
  OutputExact
  CredentialsStayInside
PROPERTY CallsEnd
CHECK_DEADLOCK FALSE
