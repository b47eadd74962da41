CONSTANTS
  ca = ca
  cb = cb
  cc = cc
  Checks = {ca, cb, cc}
  OnStates = {"WAITING", "FINAL"}
  Requests <- MCRequests
SPECIFICATION Spec
INVARIANT CommittedWritesPropagate
