SPECIFICATION FairSpec
CONSTANTS
  Chunks = {"a", "b", "c"}
  Canon <- TwoVersions
  Trees <- Damaged
  Mishaps = {"budget", "rollback", "kill", "change", "power", "network"}
  MaxMishaps = 2
INVARIANTS
  MarkersAreThePlans
  SuccessMeansRecovered
PROPERTIES
  EventuallyRecovered
