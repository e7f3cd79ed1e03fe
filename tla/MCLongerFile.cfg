SPECIFICATION Spec
CONSTANTS
  Procs = {p1}
  Manifests <- Published
  Locals <- LongerOnly
  Machines <- SomeMachines
  Previous <- NoPrevious
  MaxWrites = 0
  Kills = 0
INVARIANTS
  NoRecoveryNeededMeansBitwise
