SPECIFICATION Spec
CONSTANTS
  Chunks = {"a", "b", "c"}
  Canon <- OneVersion
  Trees <- Damaged
  Mishaps = {"change"}
  MaxMishaps = 1
INVARIANTS
  SuccessIsRecovery
