SPECIFICATION FairSpec
CONSTANTS
    PauseTime = 2
    OffsetTime = 1
    MinDuration = 2
    Alert = TRUE
    Trigger = 4
    ColdShot = 1
    MaxAge = 10
    TimerModes <- CommandsOn
    Forcing = TRUE
INVARIANT StatesAgree
PROPERTIES HotWaterReturns ShowerIsOver
