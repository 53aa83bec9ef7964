SPECIFICATION Spec
CONSTANTS
  Node = {n1, n2, n3}
  None = None
  Op = {r1}
  Read = {r1}
  Slot = {s1, s2}
  MaxElections = 1
  MaxFailures = 0
  MaxCrashes = 0
SYMMETRY Symmetry
INVARIANTS
  ReadsNameAFollower
CHECK_DEADLOCK FALSE
