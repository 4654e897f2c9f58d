SPECIFICATION WritersSpec
CONSTANTS
    r1 = r1
    r2 = r2
    r3 = r3
    u1 = u1
    u2 = u2
    t1 = t1
    t2 = t2
    nothing = nothing
    NoRequest = NoRequest
    AnyVersion = AnyVersion
    Requests <- Two
    Users <- Alice
    Texts <- TwoTexts
    Statuses <- AnyStatus
    Roles <- AlwaysManager
    Kinds <- Writes
SYMMETRY Alike
INVARIANTS
    HistoryIsLinear
    DerivedFromPredecessor
    OptInOnlyForDrafts
    ImportsReportTruly
CHECK_DEADLOCK FALSE
