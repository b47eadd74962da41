CONSTANTS
  MaxSpawns = 1
  MaxSteps = 2
  MaxCancels = 0
  Names <- MCNames
  Outcomes = {"SUCCESS"}
  Raised = {}
  Algorithms = {"worst"}
SPECIFICATION Spec
INVARIANT NestIsWorstOfChildren
CHECK_DEADLOCK FALSE
