SPECIFICATION Spec
CONSTANTS
    Challenge = {c1, c2, c3}
    Credential = {k1}
    Interaction = {i1}
    Payload = {p1, p2}
    Finisher = {f1, f2}
    Handler = {h1, h2}
    None = None
    MaxCount = 1
    MaxEpoch = 4
SYMMETRY Symmetry
PROPERTIES
    
    CounterMonotone
    AdmittedByTheLeaseOfItsEpoch
