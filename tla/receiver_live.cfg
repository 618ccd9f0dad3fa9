\* Opens return and verification ends under weak fairness of the program's
\* own steps, through cancel, resume and reopen, also when a file operation fails.
SPECIFICATION FairSpec
CONSTANTS
    j1 = j1
    j2 = j2
    a = a
    b = b
    v1 = v1
    v2 = v2
    Jobs <- Objects
    NChunks = 1
    Body <- Bodies
    Contents <- SentOne
    Ident <- Version
    Offers <- OneOffer
    Policy = "rename"
    Occupied = FALSE
    Foreign = Foreign
    WorkerCount = 1
    MaxGen = 1
    MaxFiles = 1
    MaxCrashes = 0
    MaxFaults = 1
    Races = {"resume_in_clean"}
    None = None
PROPERTIES
    OpenReturns
    VerificationEnds
