CONSTANTS
    e1 = e1
    e2 = e2
    e3 = e3
    s1 = s1
    Events = {e1, e2, e3}
    Streams = {s1}
    Cap = 1
    Window = 2
SPECIFICATION FairSpec
INVARIANTS
    TypeOK
    NeverMissed
    CauseFirst
PROPERTIES
    HandlersAnswer
    StopEnds
