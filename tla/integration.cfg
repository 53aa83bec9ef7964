SPECIFICATION FairSpec
CONSTANTS
  Worker = {w1,w2,w3}
  TaskCount = 2
  SocketCount = 4
  MaxLosses = 1
  MaxDeaths = 1
INVARIANTS
  TypeOK
  TasksHeldOnce
  NoIdleWhilePending
  WorkIsExpected
PROPERTIES
  FarmSpec
  IntegrateReturns
CHECK_DEADLOCK FALSE
