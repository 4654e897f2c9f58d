SPECIFICATION ServicesSpec
CONSTANTS
    f1 = f1
    f2 = f2
    m1 = m1
    m2 = m2
    m3 = m3
    d1 = d1
    u1 = u1
    u2 = u2
    u3 = u3
    nobody = nobody
    gr = gr
    root = root
    w1 = w1
    w2 = w2
    a1 = a1
    a2 = a2
    r1 = r1
    r2 = r2
    r3 = r3
    r4 = r4
    k1 = k1
    k2 = k2
    dv = dv
    agentU = agentU
    agentV = agentV
    Folders = {f1, f2}
    Docs = {d1}
    Users = {u1, u2}
    Groups = {gr}
    Parent <- Nested
    Root = root
    Requests = {r1}
    Ops = {"default", "member", "group", "scope", "delete", "move"}
    StartMembers <- AnyMembers
    StartGroups <- SomeGroups
    StartDefaults <- SomeDefaults
    StartLive <- MaybeDeleted
    StartPlaced <- InG
    StartGrants <- SomeGrants
    StartScopes <- NoScope
    NewGrants <- OneRow
INVARIANTS
    RolesHold
    NothingHiddenIsShown
    ConnectsAgree
    TextsAreKept
    SessionsFollowPassword
    HonouredOnce
    GrantedAlone
    NoRevisionMissed
    FinalPlansWereReady
    OnlyRacesAbandon
    TablesAgree
PROPERTIES
    EditsStayInPlace
CHECK_DEADLOCK FALSE
