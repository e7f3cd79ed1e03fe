SPECIFICATION Spec
CONSTANTS
  Procs = {p1, p2}
  MaxRuns = 2
  Kills = 2
SYMMETRY Symmetric
INVARIANTS
  ParsesOnlyPinned
  NoSpoolOutlivesItsRun
  RemnantsReclaimed
