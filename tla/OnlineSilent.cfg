SPECIFICATION Spec
CONSTANTS
    None = None
    MaxRetries = 1
    MaxFaults = 1
    Boards <- WiFiOnly
    Transports = {"tls", "tls-ca"}
    OwnTask = FALSE
INVARIANTS
    Announced
