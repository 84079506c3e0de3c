\* Two files, one of which may refer to the other, and two writers.
CONSTANTS
  p1 = p1
  p2 = p2
  Paths = {p1, p2}
  Schema <- MCSchema
  Writers = {w1, w2}
  None = None
  Torn = Torn
SPECIFICATION FairSpec
INVARIANTS
  HistoryIsWhole
  CleanWhenUnlocked
  DanglingOnlyAfterFailure
PROPERTIES
  HistoryOfBatches
  OperationsEnd
