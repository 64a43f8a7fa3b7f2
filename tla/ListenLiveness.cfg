SPECIFICATION FairSpec
CONSTANTS
  MaxPos = 5
  Cap = 1
  MaxRows = 2
  MaxRetries = 1
  MaxSessions = 1
  Env <- MCAnyFault
PROPERTIES ShutdownCompletes 
