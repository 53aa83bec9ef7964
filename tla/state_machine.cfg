SPECIFICATION FairSpec
CONSTANTS
  Key = {k1}
  Value = {v1, v2}
  None = None
  Reader = {r1, r2}
  MaxEntries = 3
  MaxBatch = 2
INVARIANTS
  TypeOK
  ResultsAreSequential
  AnswersAreFinal
  NobodySleepsOver
PROPERTIES
  ReadersReturn
