SPECIFICATION Spec
CONSTANTS
    w = w
    v = v
    Null = Null
    NoType = NoType
    VersionType = v
    Types <- TypesMC
    Requests <- CommandRequests
    Broadcasts <- Monitor
    Modes <- AlwaysOn
    MaxTx = 2
    MaxRx = 1
    MaxRetries = 2
    MaxPolls = 2
    MaxParts = 0
    MaxAdds = 3
    MaxOutages = 0
INVARIANTS
    TypeOK
    AwaitedTelegram
    OrderKept
PROPERTIES
    Implements
