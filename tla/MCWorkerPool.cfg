SPECIFICATION FairSpec
CONSTANTS
  Ids = {"a", "b", "c", "d"}
  Plan <- Four
  Marked = {"b"}
  Workers = {w1, w2}
  w1 = w1
  w2 = w2
  MaxAttempts = 2
  FetchTries = 2
  Faults = {"fetch", "corrupt", "promote", "marker"}
  MayCancel = TRUE
INVARIANTS
  TypeOK
  SendsNeverBlock
  StagedUntouched
PROPERTIES
  RunReturns
  WorkersLeave
  ImplementsTaskFeed
