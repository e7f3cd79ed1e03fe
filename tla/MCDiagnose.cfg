SPECIFICATION Spec
CONSTANTS
  Procs = {p1, p2}
  Manifests <- AllManifests
  Locals <- SomeLocals
  Machines <- SomeMachines
  Previous <- Earlier
  MaxWrites = 1
  Kills = 1
SYMMETRY Symmetric
INVARIANTS
  TypeOK
  PlanAlwaysApplicable
  PlanIsTheDifference
  PagesStayWithTheirFile
  NothingLeftBehind
PROPERTIES
  PlanReplacedWhole
