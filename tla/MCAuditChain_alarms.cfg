SPECIFICATION ListsSpec
CONSTANTS
    w = w
    timer = timer
    admin = admin
    d = d
    nothing = nothing
    Workspaces = {w}
    Sealers = {timer, admin}
    Ops = {"late", "prune", "verify", "anonymize"}
    MaxEvents = 3
    MaxSeals = 2
INVARIANT PagesTellAll
PROPERTY AlarmIsExplained
SYMMETRY SealerSymmetry
CHECK_DEADLOCK FALSE
