SPECIFICATION FairSpec
CONSTANTS
  MaxVersion = 2
  IdentOf <- OwnIdents
  NChunks = 2
  Streaming = TRUE
  MaxRestarts = 1
  Workers = {w1, w2}
  BatchSize = 2
  MaxRetries = 2
  MaxPushes = 2
  MaxUser = 0
  MaxFaults = 2
  MayClose = TRUE
  Races = {}
PROPERTIES
  Arrives
  CloseReturns
CHECK_DEADLOCK FALSE
