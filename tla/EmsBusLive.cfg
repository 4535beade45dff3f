SPECIFICATION FairSpec
CONSTANTS
    w = w
    v = v
    Null = Null
    NoType = NoType
    VersionType = v
    Types <- TypesMC
    Requests <- LiveRequests
    Broadcasts <- NoTraffic
    Modes <- AlwaysOn
    MaxTx = 2
    MaxRx = 1
    MaxRetries = 1
    MaxPolls = 1
    MaxParts = 1
    MaxAdds = 2
    MaxOutages = 1
PROPERTIES
    EventuallySettled
