SPECIFICATION MCSpec
CONSTANTS
    Parts = {"bus", "commands", "services"}
    x = x
    y = y
    x1 = x1
    x2 = x2
    y1 = y1
    lx1 = lx1
    lx2 = lx2
    ly = ly
    tick = tick
    custom = custom
    t1 = t1
    s1 = s1
    s2 = s2
    s3 = s3
    m1 = m1
    m2 = m2
    Names <- MCNames
    Objs <- MCObjs
    NameOf <- MCNameOf
    Listeners <- MCListeners
    OwnerOf <- MCOwnerOf
    Rank <- MCRank
    Events <- MCEvents
    CoreEvents <- MCCoreEvents
    Core = Core
    Nobody = Nobody
    Everyone = Everyone
    Threads <- MCThreads
    Params = {p1, p2}
    Services <- MCServices
    Subs = {b1, b2}
    Callers = {c1, c2}
    Nothing = Nothing
    MaxDepth = 3
    NameOfService <- MCNameOfService
    VersionOf <- MCVersionOf
    ModOfService <- MCModOfService
    Wants <- MCWants
INVARIANTS
    RecordsAgree
    ListenersFound
    OnlyFailedLoadsLeave
    Delivers
    TablesAgree
    OverloadsAgree
PROPERTIES
    DisableSilences
    ToldBeforeInvalid
CHECK_DEADLOCK FALSE
