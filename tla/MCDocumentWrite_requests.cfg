SPECIFICATION FairSpec
CONSTANTS
    r1 = r1
    r2 = r2
    r3 = r3
    u1 = u1
    u2 = u2
    t1 = t1
    t2 = t2
    NoRequest = NoRequest
    AnyVersion = AnyVersion
    Requests <- Two
    Users <- Alice
    Texts <- OneText
    Statuses <- DraftOrCanonical
    Roles <- ViewerOrManager
    Kinds <- AllKinds
INVARIANTS
    RowReflectsHead
    
PROPERTIES
    
    EveryRequestAnswered
