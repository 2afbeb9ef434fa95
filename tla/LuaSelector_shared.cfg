SPECIFICATION Spec
CONSTANTS
    l1 = l1
    l2 = l2
    r1 = r1
    r2 = r2
    f1 = f1
    f2 = f2
    Nil = Nil
    Laddrs = {l1, l2}
    Raddrs = {r1, r2}
    Fps = {f1, f2}
    Profiles <- TwoProfiles
    PathsOf <- SharedPaths
    Reuse = FALSE
    Foreign = TRUE
    MaxGen = 2
SYMMETRY Symmetry
INVARIANTS
    LoadCount
    PinnedKnown
    StatsKnown
    MapsAgree
    StaleIffFlushed
    PinListed
