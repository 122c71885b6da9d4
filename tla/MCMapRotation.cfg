CONSTANTS
    r1 = r1
    r2 = r2
    e1 = e1
    e2 = e2
    Requests = {r1, r2}
    Entries = {e1, e2}
    MaxSlots = 3
    Rotations <- MCRotations
    Unset = Unset
    MaxLate = 1
SPECIFICATION Spec
SYMMETRY Symmetric
INVARIANTS
    TypeOK
    ChainCloses
PROPERTIES
    ConfirmedIsInstalled
