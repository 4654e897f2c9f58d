SPECIFICATION FairSpec
CONSTANTS
    d1 = d1
    d2 = d2
    ta = ta
    tb = tb
    tc = tc
    w1 = w1
    w2 = w2
    r1 = r1
    r2 = r2
    r3 = r3
    Docs = {d1, d2}
    Texts = {ta, tb}
    Workspaces = {w1, w2}
    Requests = {r1}
    Ops = {"write", "prune", "pin", "erase", "sweep"}
    Backend = "s3"
    Home <- TwoHomes
    History <- TwoHistories
    MaxRevs = 4
    MaxAborts = 1
INVARIANTS
    FreshContentSurvives
PROPERTIES
    OrphansAreCollected
CHECK_DEADLOCK FALSE
