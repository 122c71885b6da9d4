CONSTANTS
    r1 = r1
    r2 = r2
    s1 = s1
    s2 = s2
    s3 = s3
    Free = Free
    Human = Human
    Requests = {r1, r2}
    Slots = {s1, s2, s3}
    BotNames <- MCNames
    FillBots <- MCFillBots
    Policies <- MCPolicies
    DefaultPolicy <- OnePerTeam
    MaxLate = 1
SPECIFICATION Spec
SYMMETRY Symmetric
INVARIANTS
    TypeOK
    OneBotOperation
    OnlyPlannedBots
    NoSurplusBots
PROPERTIES
    ConfirmedIsExact
    AddedToItsTeam
    PolicyStays
