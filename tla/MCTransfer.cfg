SPECIFICATION FairSpec
CONSTANTS
  Surfaces = {"chunk", "manifest"}
  Packets = 2
  Tries = 3
  MayCancel = TRUE
INVARIANTS
  StagesWholeBody
  OneReader
PROPERTIES
  TransferEnds
  ReadersReturn
  ImplementsChunkFetch
