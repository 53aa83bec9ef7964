SPECIFICATION Spec
CONSTANTS
  Key = {k1}
  Value = {v1}
  None = None
  Node = {n1, n2, n3}
  Client = {c1}
  Operations <- CreateReadDelete
  MaxCalls = 3
  MaxFailures = 1
  MaxElections = 1
SYMMETRY Symmetry
INVARIANTS
  DeletedIsGone
CHECK_DEADLOCK FALSE
