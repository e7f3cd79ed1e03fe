SPECIFICATION Spec
CONSTANTS
  Documents <- Offered
  Emitted <- Others
  Served = {"A", "B"}
  MaxSwaps = 1
INVARIANTS
  FirstDefectReported
  CanonicalPlanIsWhatWasHashed
