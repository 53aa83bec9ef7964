SPECIFICATION Spec
CONSTANTS
  Worker = {w1, w2, w3}
  TaskCount = 2
  SocketCount = 4
  MaxLosses = 1
  MaxDeaths = 1
SYMMETRY Symmetry
INVARIANTS
  DeletesWhatWasAdded
CHECK_DEADLOCK FALSE
