SPECIFICATION Spec
CONSTANTS
    None = None
    MaxRetries = 1
    MaxFaults = 2
    Boards <- BoardsMC
    Transports = {"tcp"}
    OwnTask = FALSE
INVARIANTS
    OnlineTypeOK
    Announced
PROPERTIES
    LateRouterJoined
    CableUsed
    ApOffered
    
    SettingsApplied
