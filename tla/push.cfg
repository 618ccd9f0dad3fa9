SPECIFICATION FairSpec
CONSTANTS
  h1 = h1
  h2 = h2
  Pushes = {h1, h2}
  None = None
  Files <- BothFiles
  Selections <- NestedAndTwins
  Folders <- Shared
  SendDir <- Send
  TestDir <- Test
  TestName = "t"
  MaxEvents = 2
  Races = {}
INVARIANTS
  TypeOK
  PreparationShown
  SendsSelection
  ServesQueued
PROPERTIES
  PreparationEnds
CHECK_DEADLOCK FALSE
