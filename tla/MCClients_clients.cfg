SPECIFICATION ClientsSpec
CONSTANTS
    a = a
    b = b
    pass = pass
    t1 = t1
    e1 = e1
    e2 = e2
    w1 = w1
    p1 = p1
    Texts = {a, b}
    Missing = Missing
    Tasks = {pass, t1}
    Pass = pass
    Kinds = {"auto", "push", "download"}
    Starts = {TRUE, FALSE}
    Faults = TRUE
    Others = {"revise", "delete", "grant"}
    MaxVersion = 2
    Edits = {e1, e2}
    Web = {w1}
    Plugin = {p1}
PROPERTIES
    SeenBeforeReplaced
    ClientsSettle
    OrdinarySavesKeep
    DeletedByChoice
CHECK_DEADLOCK FALSE
