CONSTANTS
  Tokens <- MCTokens
  Spaces <- MCSpaces
  LogNames <- MCLogNames
  Outcomes = {"FAILURE"}
  MaxSteps = 2
  MaxChanges = 2
SPECIFICATION LiveSpec
INVARIANTS LogsAreDistinct NothingLost
PROPERTIES NeverBackwards RegisterSpec OverIsShown CloseReturns
CHECK_DEADLOCK FALSE
