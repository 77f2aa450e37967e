SPECIFICATION Spec
CONSTANTS
    h1 = h1
    h2 = h2
    h3 = h3
    p1 = p1
    p2 = p2
    Holders = {h1, h2, h3}
    Processes = {p1, p2}
    ProcessOf <- MCProcessOf
    Limit = 1
    Ttl = 2
    MaxLag = 1
    Interval = 1
    MaxTroubles = 1
    NoFile = NoFile
    NoHolder = NoHolder
INVARIANTS TypeOK GateExcludes NoOvercommit LossExplained
PROPERTIES LossNoticed NeverWedged
