CONSTANTS
  BodyRequests <- MCBodyRequests
  HeartbeatStates <- MCHeartbeatStates
  MaxErrors = 2
  MaxRetries = 1
  MaxVersion = 4
SPECIFICATION LiveSpec
INVARIANTS
  WaitsForTheTarget
  TargetIsNewest
  AttemptIsEnded
PROPERTIES
  NoneIsFinal
  HeartbeaterEnds
  HeartbeatsGoOn
