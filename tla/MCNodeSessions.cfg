SPECIFICATION FairSessions
CONSTANTS
    Node = {n1}
    Token = {t1}
    Key = {k1}
    Session = {s1, s2, s3}
    Job = {}
    None = None
    Ttl = 0
    Expiry = 1
    Lag = 1
    MaxEpoch = 0
INVARIANTS
    ServingIsReachable
PROPERTIES
    StrandedSessionCloses
    PhantomIsSwept
