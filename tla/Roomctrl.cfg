SPECIFICATION Spec
CONSTANTS
    Temps <- TempsMC
    None = None
    Timeouts = {TRUE, FALSE}
    MaxCommands = 6
INVARIANTS
    RoomTypeOK
    RemoteServed
    OffReachesMaster
PROPERTIES
    SwitchOffEnds
    TimeoutStops
CHECK_DEADLOCK FALSE
