SPECIFICATION SuiteSpec
CONSTANTS
    Job = {j1}
    Session = {s1, s2}
    None = None
    MaxAttempts = 2
    MaxConcurrent = 1
    n1 = n1
    n2 = n2
    Node = {n1, n2}
    Request <- MCRequest
    ApprovalId = {p1}
    Grant <- MCGrant
    Roots <- MCRoots
    Ttl = 2
    LeaseTime = 2
    MaxJobs = 2
    MaxNow = 2
    MaxLeases = 1
    MaxTurns = 1
SYMMETRY Symmetry
INVARIANTS
    CompletedWasAnswered
    PendingHasWaiter
    
    ApprovalOncePerBoot
    
