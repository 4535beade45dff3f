SPECIFICATION Spec
CONSTANTS
    TelegramSizes <- AllSizes
    FirstBytes <- SomeFirst
    Starts <- SomeStarts
    Lengths <- SomeLengths
CHECK_DEADLOCK FALSE
INVARIANTS
    Contiguous
    CompleteWhenDone
PROPERTIES
    Terminates
