CONSTANTS
  ca = ca
  cb = cb
  cc = cc
  Checks = {ca, cb, cc}
  OnStates = {"WAITING", "FINAL"}
  Requests <- MCRequests
SPECIFICATION LiveSpec
INVARIANTS IndexAgrees ResolvedIsJustified NoneLeftBlocked IndexNeverRefuses
PROPERTIES StatesInOrder DependenciesFrozen WritesReturn
