SPECIFICATION Spec
CONSTANTS
  MaxPos = 4
  Cap = 1
  MaxRows = 2
  MaxRetries = 0
  MaxSessions = 1
  Env <- MCStop
INVARIANTS NoPanic
