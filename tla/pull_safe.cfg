SPECIFICATION Spec
CONSTANTS
  NChunks = 2
  Workers = {w1, w2}
  ChunkMaxErrs = 2
  MaxRetries = 1
  None = None
  MaxGen = 2
  MaxFiles = 2
  MaxEvents = 2
  Races = {}
INVARIANTS
  TypeOK
  InflightOwned
  FinalizeOwns
  ClockRuns
PROPERTIES
  PublishedVerified
  QueueNeverForgets
  GivesUpLate
SYMMETRY Symmetric
CHECK_DEADLOCK FALSE
