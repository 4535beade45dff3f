SPECIFICATION FairSpec
CONSTANTS
    fetch = fetch
    set = set
    plain = plain
    boot = boot
    cond = cond
    change = change
    other = other
    entity = entity
    hot = hot
    None = None
    Lists <- ListsMC
    Commands <- CommandsMC
    Offloaded <- OffloadedMC
    Written <- WrittenMC
    Entities <- EntitiesMC
    Conditions <- ConditionsMC
    Minutes = {2}
    MaxJobs = 1
    MaxStartupRetries = 1
    MaxUptime = 2
    MaxActs = 2
CHECK_DEADLOCK FALSE
INVARIANTS
    TypeOK
    OncePerRise
PROPERTIES
    StartupOnce
    RestartKeeps
    EditApplies
    ConditionServed
