SPECIFICATION FairSpec
CONSTANTS
    Job = {j1, j2}
    Session = {s1}
    None = None
    MaxAttempts = 1
    MaxConcurrent = 1
INVARIANT
    PendingIsActive
PROPERTY
    ClosedSessionReleases
