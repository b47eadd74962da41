CONSTANTS
  c1 = c1
  c2 = c2
  Clients = {c1, c2}
  Nodes = {n1, n2}
  Kinds = {"data"}
  MaxAttempts <- MCAttempts
  MaxCopies <- MCCopies
  MaxRevision = 2
SPECIFICATION Spec
SYMMETRY Alike
INVARIANTS ConsistentReads AppliedOnce
PROPERTIES Serializable RefusedForAReason
