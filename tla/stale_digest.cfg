SPECIFICATION Spec
CONSTANTS
  MaxVersion = 3
  IdentOf <- OwnIdents3
  NChunks = 2
  Streaming = TRUE
  MaxRestarts = 0
  Workers = {w1, w2}
  BatchSize = 2
  MaxRetries = 2
  MaxPushes = 1
  MaxUser = 1
  MaxFaults = 0
  MayClose = FALSE
  Races = {"change_after_digest"}
INVARIANTS
  IntactVerifies
SYMMETRY Symmetric
CHECK_DEADLOCK FALSE
