SPECIFICATION Spec
CONSTANTS
  Node = {n1, n2, n3}
  None = None
  Op = {w1, w2}
  Read = {}
  Slot = {s1}
  MaxElections = 2
  MaxFailures = 0
  MaxCrashes = 0
SYMMETRY Symmetry
INVARIANTS
  LogTermsOrdered
  LeaderMatchesItself
  RequestsComeFromTheLog
  ResultsCoverCommits
PROPERTIES
  LeaderAppendOnly
  LeadersCommitWhatIsMatched
CHECK_DEADLOCK FALSE
