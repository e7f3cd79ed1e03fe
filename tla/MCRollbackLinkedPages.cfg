SPECIFICATION Spec
CONSTANTS
  Files = {"main"}
  WholeFiles = {}
  FetchFull = {}
  SQLiteDB = {"main"}
  Missing = {}
  Chunk = {1, 2}
  Plan <- PagesOnly
  Parallel = 2
  MaxAttempts = 2
  LinkMode = "link"
  Faults = {"integrity"}
  FaultyRuns = 1
  MaxRuns = 1
INVARIANTS
  RolledBackIsPreApply
