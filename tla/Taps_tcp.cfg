SPECIFICATION Spec
CONSTANTS
    a1 = a1
    a2 = a2
    c1 = c1
    c2 = c2
    l1 = l1
    l2 = l2
    g1 = g1
    g2 = g2
    Nil = Nil
    Proto = "tcp"
    Preferred = FALSE
    Selector = FALSE
    Listeners = {l1}
    Loops = {g1}
    Clients = {c1}
    Addrs = {a1}
    Examples = {"concurrent"}
    Messages = 1
INVARIANTS
    NeverPanics
CHECK_DEADLOCK FALSE
