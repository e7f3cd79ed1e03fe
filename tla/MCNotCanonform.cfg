SPECIFICATION Spec
CONSTANTS
  Documents <- Resealed
  Emitted <- Others
  Served = {"A", "B"}
  MaxSwaps = 0
INVARIANTS
  NotCanonformIsTampered
