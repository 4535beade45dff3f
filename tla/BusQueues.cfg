SPECIFICATION Spec
CONSTANTS
    loop = loop
    web = web
    None = None
    Adders <- AddersMC
    MaxTx = 2
    MaxRx = 2
    MaxRequests = 5
    MaxFrames = 3
SYMMETRY TaskSymmetry
CHECK_DEADLOCK FALSE
INVARIANTS
    TypeOK
    NothingLost
    QueuedOnce
    PopSafe
PROPERTIES
    ProcessedOnce
