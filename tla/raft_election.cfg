SPECIFICATION Spec
CONSTANTS
  Node = {n1, n2, n3}
  None = None
  Op = {w1}
  Read = {}
  Slot = {s1}
  MaxElections = 2
  MaxFailures = 1
  MaxCrashes = 0
SYMMETRY Symmetry
INVARIANTS
  TypeOK
  CandidatesHoldTheirVote
  ElectionKeepsComing
  LeaderKeepsBeating
PROPERTIES
  VotesAreNotTransferred
  TermsNeverDecrease
CHECK_DEADLOCK FALSE
