SPECIFICATION Spec
CONSTANTS
    r1 = r1
    r2 = r2
    r3 = r3
    u1 = u1
    u2 = u2
    t1 = t1
    t2 = t2
    NoRequest = NoRequest
    AnyVersion = AnyVersion
    Requests <- Three
    Users <- AliceAndBob
    Texts <- TwoTexts
    Statuses <- CanonicalOnly
    Roles <- AlwaysManager
    Kinds <- Saves
SYMMETRY BurstAlike
INVARIANTS
    BurstGroupsAreContiguous
