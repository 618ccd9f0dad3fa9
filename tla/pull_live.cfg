SPECIFICATION FairSpec
CONSTANTS
  NChunks = 1
  Workers = {w1, w2}
  ChunkMaxErrs = 2
  MaxRetries = 1
  None = None
  MaxGen = 2
  MaxFiles = 2
  MaxEvents = 1
  Races = {"control_before_restore", "restore_refused"}
PROPERTIES
  FetchEnds
  CloseReturns
CHECK_DEADLOCK FALSE
