CONSTANTS
    v1 = v1
    v2 = v2
    n1 = n1
    n2 = n2
    Absent = Absent
    Partial = Partial
    Values = {v1, v2}
    Names = {n1, n2}
SPECIFICATION SaveSpec
INVARIANTS
    FileTypeOK
PROPERTIES
    ReplacesAtomically
