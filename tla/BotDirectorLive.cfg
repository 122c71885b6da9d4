CONSTANTS
    r1 = r1
    r2 = r2
    s1 = s1
    s2 = s2
    s3 = s3
    Free = Free
    Human = Human
    Requests = {r1, r2}
    Slots = {s1, s2}
    BotNames <- MCNames
    FillBots <- MCFillBots
    Policies <- MCOnePolicy
    DefaultPolicy <- OnePerTeam
    MaxLate = 0
SPECIFICATION FairSpec
PROPERTIES
    BotSlotReleased
