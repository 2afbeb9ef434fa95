SPECIFICATION Spec
CONSTANTS
    s1 = s1
    s2 = s2
    Sessions = {s1}
    Script = {}
    Zero = FALSE
    Stray = FALSE
    Stops = FALSE
    Spins = FALSE
    Dialled = {s1}
    MaxPlain = 1
INVARIANTS
    NeverKilled
CHECK_DEADLOCK FALSE
