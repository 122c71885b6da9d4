CONSTANTS
    s1 = s1
    s2 = s2
    s3 = s3
    s4 = s4
    b1 = b1
    b2 = b2
    Free = Free
    Human = Human
    Slots = {s1, s2, s3}
    BotNames = {b1, b2}
    FillBots = {b1, b2}
    MaxLate = 1
SPECIFICATION Spec
SYMMETRY Symmetric
INVARIANTS
    TypeOK
PROPERTIES
    OnlyNewcomersTouched
    ConfirmedIsBalanced
    ReplacedOnItsTeam
