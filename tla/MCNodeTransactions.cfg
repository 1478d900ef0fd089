SPECIFICATION TxSpec
CONSTANTS
    Node = {n1, n2}
    Token = {t1}
    Key = {k1}
    Session = {s1}
    Job = {}
    None = None
    Ttl = 1
    Expiry = 0
    Lag = 0
    MaxEpoch = 1
    Conn = {c1, c2}
    Stores = {"memory", "postgres"}
SYMMETRY Symmetry
INVARIANTS
    EnrollmentSingleUse
    FreezeMatchesAudit

    
