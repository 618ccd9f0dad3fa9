SPECIFICATION Spec
CONSTANTS
  h1 = h1
  h2 = h2
  Pushes = {h1, h2}
  None = None
  Files <- BothFiles
  Selections <- NestedAndTwins
  Folders <- BothDocs
  SendDir <- Send
  TestDir <- Test
  TestName = "t"
  MaxEvents = 2
  Races = {"share_replaced"}
INVARIANTS
  ServesQueued
CHECK_DEADLOCK FALSE
