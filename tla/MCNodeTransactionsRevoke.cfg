SPECIFICATION TxSpec
CONSTANTS
    Node = {n1}
    Token = {t1}
    Key = {k1}
    Session = {s1}
    Job = {}
    None = None
    Ttl = 1
    Expiry = 1
    Lag = 0
    MaxEpoch = 0
    Conn = {c1, c2}
    Stores = {"postgres"}
PROPERTY
    RevocationIsFinal
