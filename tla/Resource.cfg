CONSTANTS
  N = 3
  MaxSteps = 2
  MaxCancels = 1
  Capacity <- MCCapacity
  Costs <- MCCosts
SPECIFICATION LiveSpec
INVARIANTS
  NothingLeaks
  BlockedForAReason
  NoLostWakeup
CHECK_DEADLOCK FALSE
PROPERTIES
  LargestFirst
  PoolSpec
  EveryStepRuns
