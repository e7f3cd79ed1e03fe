SPECIFICATION RetryingSpec
CONSTANTS
  Files = {"main", "index"}
  WholeFiles = {"index"}
  FetchFull = {}
  SQLiteDB = {"main"}
  Missing = {}
  Chunk = {1, 2}
  Plan <- PagesThenWhole
  Parallel = 2
  MaxAttempts = 2
  LinkMode = "copy"
  Faults = {"fetch", "corrupt", "promote", "integrity", "read", "crash", "marker", "shadow", "rename", "powerloss"}
  FaultyRuns = 2
  MaxRuns = 3
INVARIANTS
  RolledBackIsPreApply
PROPERTIES
  EveryInvocationEnds
  EventuallyCanonical
