SPECIFICATION Spec
CONSTANTS
  MaxPos = 5
  Cap = 1
  MaxRows = 3
  MaxRetries = 1
  MaxSessions = 2
  Env <- MCAnyFault
INVARIANTS TypeOK ChannelIsTheGap CheckpointAtBoundary NoCloseUnderSend LossBounded
PROPERTIES InOrder RelaySpec
