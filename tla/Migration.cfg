SPECIFICATION Spec
CONSTANTS
    MaxWrites = 4
    MaxCuts = 1
    MaxCommits = 3
INVARIANTS
    NeverFormatted
    LatestKept
CHECK_DEADLOCK FALSE
