SPECIFICATION SSpec
CONSTANTS
    Node = {n1}
    Token = {t1}
    Key = {k1}
    Session = {s1}
    Job = {}
    None = None
    Ttl = 0
    Expiry = 1
    Lag = 0
    MaxEpoch = 0
INVARIANT
    RevokedIsCutOff
