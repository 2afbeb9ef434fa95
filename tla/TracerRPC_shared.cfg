SPECIFICATION FairSpec
CONSTANTS
    s1 = s1
    s2 = s2
    Sessions = {s1, s2}
    Script = {"Close"}
    Zero = TRUE
    Stray = TRUE
    Stops = TRUE
    Spins = TRUE
    Dialled = {s1, s2}
    MaxPlain = 1
INVARIANTS
    TypeOK
    InOrder
    NamedOnceStarted
    NothingLost
PROPERTIES
    ReportsReturn
CHECK_DEADLOCK FALSE
