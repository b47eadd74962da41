CONSTANTS
  s1 = s1
  s2 = s2
  s3 = s3
  Steps <- MCSteps
  HasTimeout <- MCHasTimeout
  Slots = 2
  MaxCancels = 2
SPECIFICATION LiveSpec
INVARIANTS
  NoStrayGroups
  FinishedByItself
  ResourcesCoverProcesses
PROPERTIES
  
  LeavingEnds
CHECK_DEADLOCK FALSE
