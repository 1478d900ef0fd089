SPECIFICATION LiveSpec
CONSTANTS
    Key = {k1, k2}
    MaxAttempts = 2
    Capacity = 2
    MaxFaultyWrites = 1
    Yielding = TRUE
    Exporter = {x1, x2}
    MaxSequence = 2
    Sizes = {1}
    MaxEra = 1
    MaxFaults = 1
    Instance = {i1, i2}
    MonthlyCeiling = 3
    MaxDeaths = 1
INVARIANTS
    AnswersAgree

    
    
    
CHECK_DEADLOCK FALSE
