SPECIFICATION FairSpec
CONSTANTS
  j1 = j1
  j2 = j2
  a = a
  b = b
  Jobs = {j1, j2}
  Entries = {a, b}
  Archive <- TwoAndOne
  Policies <- AllPolicies
  MaxIndex = 1
  Foreign = Foreign
  None = None
  MaxEvents = 3
  MaxForeign = 1
  Races = {}
INVARIANTS
  TypeOK
  ExtractedIsThere
  CopiesBounded
PROPERTIES
  KeepsPromise
  ExtractionEnds
CHECK_DEADLOCK FALSE
