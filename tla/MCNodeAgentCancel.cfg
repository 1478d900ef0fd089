SPECIFICATION FairSpec
CONSTANTS
    Key = {k1}
    MaxAttempts = 2
    Capacity = 1
    MaxFaultyWrites = 0
    Yielding = FALSE
PROPERTY
    AttemptIsAnswered
