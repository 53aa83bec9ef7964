SPECIFICATION FairSpec
CONSTANTS
  Node = {n1, n2, n3}
  None = None
  Op = {w1}
  Read = {}
  Slot = {s1}
  MaxElections = 1
  MaxFailures = 0
  MaxCrashes = 1
INVARIANTS
  ElectionKeepsComing
PROPERTIES
  CallsAreAnswered
  ElectionsEnd
CHECK_DEADLOCK FALSE
