SPECIFICATION FairSpec
CONSTANTS
  Key = {k1}
  Value = {v1}
  None = None
  Node = {n1, n2, n3}
  Client = {c1}
  Operations <- CreateAndRead
  MaxCalls = 2
  MaxFailures = 1
  MaxElections = 2
INVARIANTS
  TypeOK
  SeesAcknowledged
  AnswersAreOwn
  CopiesAreBounded
PROPERTIES
  CallsReturn
CHECK_DEADLOCK FALSE
