CONSTANTS
    r1 = r1
    r2 = r2
    p1 = p1
    p2 = p2
    m1 = m1
    m2 = m2
    NoFile = NoFile
    Requests = {r1, r2}
    Policies = {p1, p2}
    Maps = {m1, m2}
    Rotations <- MCRotations
    Defaults <- MCDefaults
    MaxLate = 1
SPECIFICATION Spec
SYMMETRY Symmetric
INVARIANTS
    TypeOK
    KeepsLastSaved
PROPERTIES
    FriendlyFireAgrees
