\* Pause or cancel between commitFile and the status of finalize.
SPECIFICATION Spec
CONSTANTS
    j1 = j1
    j2 = j2
    a = a
    b = b
    v1 = v1
    v2 = v2
    Jobs <- Objects
    NChunks = 1
    Body <- Bodies
    Contents <- SentOne
    Ident <- Version
    Offers <- OneOffer
    Policy = "rename"
    Occupied = FALSE
    Foreign = Foreign
    WorkerCount = 1
    MaxGen = 1
    MaxFiles = 2
    MaxCrashes = 0
    MaxFaults = 0
    Races = {"resume_in_clean"}
    None = None
SYMMETRY Symmetry
INVARIANTS
    PublishedOnce
