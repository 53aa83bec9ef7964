SPECIFICATION Spec
CONSTANTS
  Size = 3
  MaxObjects = 3
INVARIANTS
  TypeOK
  PolledIsStored
  WokenByItsType
  FailsOnlyWhenStale
  BytesInPlace
PROPERTIES
  MasterComesBack
  SentIsReceived
CHECK_DEADLOCK FALSE
