SPECIFICATION FairSpec
CONSTANTS
    a = a
    b = b
    pass = pass
    t1 = t1
    Texts = {a, b}
    Missing = Missing
    Tasks = {pass, t1}
    Pass = pass
    Kinds = {"auto", "push"}
    Starts = {TRUE}
    Faults = TRUE
    Others = {"revise", "grant"}
    MaxVersion = 2
PROPERTY
    PermissionReconciled
CHECK_DEADLOCK FALSE
