SPECIFICATION Spec
CONSTANTS
    Node = {n1, n2}
    Token = {t1}
    Key = {k1}
    Session = {s1, s2}
    Job = {j1}
    None = None
    Ttl = 1
    Expiry = 1
    Lag = 0
    MaxEpoch = 1
SYMMETRY Symmetry
PROPERTIES
    SessionEndIsExplained
