SPECIFICATION Spec
CONSTANTS
    l1 = l1
    l2 = l2
    r1 = r1
    r2 = r2
    f1 = f1
    f2 = f2
    Nil = Nil
    Laddrs = {l1, l2}
    Raddrs = {r1}
    Fps = {f1, f2}
    Profiles <- TwoProfiles
    PathsOf <- OneRemote
    Reuse = TRUE
    Foreign = FALSE
    MaxGen = 3
SYMMETRY Symmetry
INVARIANTS
    TypeOK
    LoadCount
    OpenPathSucceeds
    NeverSpins
