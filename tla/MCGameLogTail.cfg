CONSTANTS
    Backlog = 2
    MaxLength = 4
SPECIFICATION FairLogSpec
INVARIANTS
    LogTypeOK
    NothingSkipped
    AtMostTwice
PROPERTIES
    EveryPieceArrives
