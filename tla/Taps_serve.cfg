SPECIFICATION FairSpec
CONSTANTS
    a1 = a1
    a2 = a2
    c1 = c1
    c2 = c2
    l1 = l1
    l2 = l2
    g1 = g1
    g2 = g2
    Nil = Nil
    Proto = "scion"
    Preferred = TRUE
    Selector = TRUE
    Listeners = {l1}
    Loops = {g1}
    Clients = {c1, c2}
    Addrs = {a1, a2}
    Examples = {"concurrent", "pingpong", "capacityseeker"}
    Messages = 2
INVARIANTS
    TypeOK
    CopyIsolates
    ServedOnce
    NoStandoff
PROPERTIES
    EventuallyAccepted
    WorkersEnd
CHECK_DEADLOCK FALSE
