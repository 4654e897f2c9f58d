SPECIFICATION FoldersSpec
CONSTANTS
    f = f
    g = g
    h = h
    e = e
    x = x
    y = y
    a = a
    b = b
    u = u
    v = v
    w = w
    r1 = r1
    r2 = r2
    Folders = {f, g, h, e}
    Docs = {x, y}
    Slugs = {a, b}
    Workspaces = {w}
    Requests = {r1, r2}
    Ops = {"create", "rename", "move", "delete", "empty"}
    Sorted <- OneWorkspace
    Tree <- Nested
INVARIANTS
    PathsFollowParents
    NothingUnderDeleted
    NoCycles
PROPERTIES
    TransfersEnd
CHECK_DEADLOCK FALSE
