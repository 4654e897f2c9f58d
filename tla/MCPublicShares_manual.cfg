SPECIFICATION Spec
CONSTANTS
    m = m
    n = n
    o = o
    d1 = d1
    d2 = d2
    u = u
    w1 = w1
    w2 = w2
    a = a
    b = b
    r1 = r1
    Folders = {m, n, o}
    Docs = {d1, d2}
    Workspaces = {w1, w2}
    Users = {u}
    Visitors = {r1}
    Requests = {r1}
    Ops = {"visit", "transferFolder"}
    Tree <- Nested
    Placed <- DocsApart
    Given <- OneLink
    MaxShares = 2
INVARIANT
    ManualIsItsSubtree
CHECK_DEADLOCK FALSE
