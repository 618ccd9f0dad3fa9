\* An empty file under skip: two streaming versions, one of them also with its
\* digest known in advance, and the legacy protocol compete for the path, with one
\* restart.
SPECIFICATION Spec
CONSTANTS
    j1 = j1
    j2 = j2
    a = a
    b = b
    v1 = v1
    v2 = v2
    Jobs <- Objects
    NChunks = 0
    Body <- Bodies
    Contents <- SentOne
    Ident <- Versions
    Offers <- FourOffers
    Policy = "skip"
    Occupied = FALSE
    Foreign = Foreign
    WorkerCount = 1
    MaxGen = 1
    MaxFiles = 2
    MaxCrashes = 1
    MaxFaults = 0
    Races = {"resume_in_clean"}
    None = None
SYMMETRY Symmetry
INVARIANTS
    TypeOK
PROPERTIES
    ReplacesOnlySettled
