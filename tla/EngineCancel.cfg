CONSTANTS
  MaxSpawns = 2
  MaxSteps = 2
  MaxCancels = 2
  Names <- MCNames
  Outcomes = {"FAILURE"}
  Raised = {"EXCEPTION"}
  Algorithms = {"worst", "last"}
SPECIFICATION Spec
INVARIANT OnlyKnownLeaks
PROPERTY FinalIsFinal
CHECK_DEADLOCK FALSE
