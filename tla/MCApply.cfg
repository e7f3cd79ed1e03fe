SPECIFICATION Spec
CONSTANTS
  Files = {"main", "index", "block"}
  WholeFiles = {"index", "block"}
  FetchFull = {"block"}
  SQLiteDB = {"main"}
  Missing = {"block"}
  Chunk = {1, 2}
  Plan <- Four
  Parallel = 2
  MaxAttempts = 2
  LinkMode = "link"
  Faults = {"fetch", "corrupt", "promote", "marker", "shadow", "integrity", "read", "rename", "crash", "powerloss"}
  FaultyRuns = 3
  MaxRuns = 4
INVARIANTS
  TypeOK
  WholeFilesSwapAtomically
  MarkersSound
  SuccessMeansCanonical
  Accounting
  CompletedWorkNotRefetched
  ShadowsIntact
  RollbackRestoresShadowed
  ResumeCompletes
PROPERTIES
  ImplementsContract
  CompletedWorkUndoneOnlyByRollback
