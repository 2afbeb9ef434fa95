SPECIFICATION Spec
CONSTANTS
    l1 = l1
    l2 = l2
    l3 = l3
    r1 = r1
    r2 = r2
    f1 = f1
    f2 = f2
    Nil = Nil
    Laddrs = {l1, l2, l3}
    Raddrs = {r1, r2}
    Fps = {f1, f2}
    Profiles <- TwoProfiles
    Scripts = {"simpledemo", "pathselection"}
    PathsOf <- SharedPaths
    Slots = 2
    Needs <- StoringNeedsMore
    MaxGen = 2
SYMMETRY Symmetry
INVARIANTS
    TypeOK
    OpenPathSucceeds
    AnswersResolve
    DownAvoided
    ScavengerApart
CHECK_DEADLOCK FALSE
