CONSTANTS
  MaxSpawns = 2
  MaxSteps = 3
  MaxCancels = 0
  Names <- MCLikeDedup
  Outcomes = {"FAILURE"}
  Raised = {"EXCEPTION"}
  Algorithms = {"worst", "last"}
SPECIFICATION LiveSpec
INVARIANTS
  ClosedNestsAreQuiet
  SomebodyCanGoOn
  OnlyChosenNamesClash
PROPERTY RunStepsReturns
CHECK_DEADLOCK FALSE
