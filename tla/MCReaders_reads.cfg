SPECIFICATION ReadersSpec
CONSTANTS
    d1 = d1
    d2 = d2
    ta = ta
    tb = tb
    tc = tc
    w1 = w1
    w2 = w2
    r1 = r1
    r2 = r2
    r3 = r3
    nothing = nothing
    Docs = {d1}
    Texts = {ta, tb, tc}
    Workspaces = {w1, w2}
    Requests = {r1, r2}
    Ops = {"write", "restore", "transfer", "prune", "sweep"}
    Backend = "fs"
    Home <- OneHome
    History <- BurstHistory
    MaxRevs = 5
    MaxAborts = 1
INVARIANTS
    FreshContentSurvives
    BurstKeepsNewest
    ReadsTellTruth
SYMMETRY RequestSymmetry
CHECK_DEADLOCK FALSE
