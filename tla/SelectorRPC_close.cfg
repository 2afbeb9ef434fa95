SPECIFICATION FairSpec
CONSTANTS
    f1 = f1
    f2 = f2
    Nil = Nil
    Conns = {"c1"}
    Threads = {"dial", "app", "writer", "pool", "scmp"}
    Fps = {f1}
    Overlap = FALSE
    MaxSels = 5
PROPERTIES
    CallsReturn
CHECK_DEADLOCK FALSE
