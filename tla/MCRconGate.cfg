CONSTANTS
    a = a
    b = b
    s = s
    k1 = k1
    k2 = k2
    k3 = k3
    k4 = k4
    None = None
    Callers = {a, b, s}
    StatusCallers = {s}
    Calls = {k1, k2, k3, k4}
    Gap = 2
    Timeout = 3
    MaxQueue = 2
SPECIFICATION FairSpec
INVARIANTS
    TypeOK
    Drained
PROPERTIES
    Spaced
    CallReturns
