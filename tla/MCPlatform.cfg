SPECIFICATION PlatformSpec
CONSTANTS
    Exporter = {x1, x2}
    MaxSequence = 2
    Sizes = {1, 2}
    MaxEra = 1
    MaxFaults = 1
    Uploader = {u1, u2}
    Restorer = {v1, v2}
    Policy = {2, 3}
    MaxDay = 2
    Action <- MCAction
    Approval <- MCApproval
    Schedule <- MCSchedule
    Proof <- MCProof
    Ceiling = 2
    MaxFollowups = 1
    MaxTime = 1
    MaxDecisions = 3
    MaxAnomalies = 1
    Effect = {e1, e2, e3}
    IdemKey = {k1, k2}
    Body = {b1, b2}
    MaxUndo = 2
    Control = {c1, c2}
    NodeCount = 3
    MaximumNodes = {2, 3}
    MaximumFanOut = {1, 2}
    Writer = {w1, w2}
    Reader = {r1}
    MaxChanges = 1
    MaxLosses = 1
    Setter = {s1, s2}
    Clearer = {d1, d2}
    MaxCuts = 2
    Enroller = {l1, l2}
    Token = {t1, t2}
    MaxRetries = 6
    MaxOutages = 2
    HostRequest <- MCHostRequest
    AllowedServices = {"a"}
    Lifetime = 2
    MaxMinute = 3
    MaxReboots = 2
    MaxExecutions = 3
    Release <- MCRelease
    MaxMonth = 3
    MaxStarts = 3
    Work <- MCWork
    LeaseToken = {o1, o2, o3}
    Concurrency <- MCConcurrency
    Capacity <- MCCapacity
    Client = {q1, q2, q3}
    MaxEvents = 2
INVARIANTS
    WritesAreAtomic
    ConfigIsUsable
    TrailVerifies
    CollisionsAreExplained
    SignedUnlessInterrupted
    IntactIsOneChain
    
    RestoreStands
    UsedIsAudited
    ActivationsAdvance
    
    CheckpointDecides
    CutOffWasPaused
    OrdersOrFindsCycle
    
    FreezeLasts
    NonceExecutesOnce
    PolicyNeverGoesBack
    WorkFits
CHECK_DEADLOCK FALSE
