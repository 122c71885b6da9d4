CONSTANTS
    r1 = r1
    r2 = r2
    None = None
    Requests = {r1, r2}
    Maps = {"q3dm17", "q3ctf1"}
    Modes = {0, 4}
    Wanted <- MCWanted
    Limits <- MCLimits
    Entries <- MCEntries
    MaxLate = 1
SPECIFICATION FairSpec
INVARIANTS
    TypeOK
    ConfirmedHolds
PROPERTIES
    LoadsItsPair
    ModeForgotten
