CONSTANTS
  BodyRequests <- MCBodyRequests
  HeartbeatStates <- MCHeartbeatStates
  MaxErrors = 2
  MaxRetries = 1
  MaxVersion = 4
SPECIFICATION Spec
PROPERTY StopsOnlyOnConsecutive
