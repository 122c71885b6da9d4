CONSTANTS
    r1 = r1
    r2 = r2
    x = x
    y = y
    Requests = {r1, r2}
    Packages = {1, 2}
    Dirs = {2}
    c1 = c1
    c2 = c2
    Contents = {c1, c2}
    FilesOf <- MCFilesOf
    ArenasOf <- MCArenasOf
    Missing = Missing
    Maps = {"q3ctf1", "q3dm1", "ctfdm2"}
    CtfNamed = {"q3ctf1", "ctfdm2"}
    DmNamed = {"q3dm1", "ctfdm2"}
    Minute = 2
    MaxChanges = 2
SPECIFICATION MCSpec
INVARIANTS
    TypeOK
    TrueOfItsTime
PROPERTIES
    CatchesUp
