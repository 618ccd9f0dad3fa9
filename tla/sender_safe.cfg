SPECIFICATION Spec
CONSTANTS
  MaxVersion = 2
  IdentOf <- OwnIdents
  NChunks = 2
  Streaming = TRUE
  MaxRestarts = 1
  Workers = {w1, w2}
  BatchSize = 2
  MaxRetries = 2
  MaxPushes = 2
  MaxUser = 2
  MaxFaults = 2
  MayClose = FALSE
  Races = {}
INVARIANTS
  TypeOK
  OneWorkerPerTask
  NoLostPush
  DoneIsDelivered
  IntactVerifies
  ReopenServed
PROPERTIES
  Delivers
  GivesUpLate
SYMMETRY Symmetric
CHECK_DEADLOCK FALSE
