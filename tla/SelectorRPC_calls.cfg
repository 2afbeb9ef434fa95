SPECIFICATION Spec
CONSTANTS
    f1 = f1
    f2 = f2
    Nil = Nil
    Conns = {"c1"}
    Threads = {"dial", "app", "writer", "pool", "scmp"}
    Fps = {f1, f2}
    Overlap = FALSE
    MaxSels = 2
SYMMETRY Symmetry
INVARIANTS
    TypeOK
    NilOnlyIfReported
    InitializedAnswers
PROPERTIES
    ImplementsService
CHECK_DEADLOCK FALSE
