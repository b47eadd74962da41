CONSTANTS
  N = 3
  MaxSteps = 1
  MaxCancels = 1
  Capacity <- MCCapacity
  Costs <- MCCosts
SPECIFICATION Spec
INVARIANT AllFreeWhenUnused
CHECK_DEADLOCK FALSE
