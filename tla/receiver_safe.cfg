\* One streaming version, whatever digest finish sends, uploaded, paused,
\* canceled, resumed, reopened and cleaned, with one death of the process.
SPECIFICATION Spec
CONSTANTS
    j1 = j1
    j2 = j2
    a = a
    b = b
    v1 = v1
    v2 = v2
    Jobs <- Objects
    NChunks = 2
    Body <- Bodies
    Contents <- Sent
    Ident <- Version
    Offers <- OneOffer
    Policy = "rename"
    Occupied = FALSE
    Foreign = Foreign
    WorkerCount = 2
    MaxGen = 1
    MaxFiles = 2
    MaxCrashes = 1
    MaxFaults = 0
    Races = {"resume_in_clean"}
    None = None
SYMMETRY Symmetry
INVARIANTS
    FinalizeOwns
    CursorBelowMissing
    AcceptedIsSaved
    SealedIsPersisted
PROPERTIES
    PublishedVerified
    NoLateEffect
    QueueNeverForgets
