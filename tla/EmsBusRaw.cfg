SPECIFICATION Spec
CONSTANTS
    w = w
    v = v
    Null = Null
    NoType = NoType
    VersionType = v
    Types <- TypesMC
    Requests <- RawRequests
    Broadcasts <- NoTraffic
    Modes <- AnyMode
    MaxTx = 2
    MaxRx = 1
    MaxRetries = 1
    MaxPolls = 1
    MaxParts = 1
    MaxAdds = 2
    MaxOutages = 0
INVARIANTS
    OpenIffHeld
    HeldOnce
PROPERTIES
    SettledOnce
    Implements
