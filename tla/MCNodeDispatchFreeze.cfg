SPECIFICATION Spec
CONSTANTS
    Job = {j1}
    Session = {s1}
    None = None
    MaxAttempts = 1
    MaxConcurrent = 1
INVARIANT
    FreezeStopsInFlight
