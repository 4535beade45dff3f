SPECIFICATION Spec
CONSTANTS
    MaxWrites = 1
    MaxCuts = 1
    MaxCommits = 2
INVARIANT OneReadable
CHECK_DEADLOCK FALSE
