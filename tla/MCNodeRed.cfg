SPECIFICATION NodeRedSpec
CONSTANTS
    c1 = c1
    c2 = c2
    Nobody = Nobody
    Client = {c1, c2}
    WantsOutput = {c1}
    Lookup <- MCLookup
    Fd = {7, 8}
    MaxOnLine = 2
    a = a
    b = b
    c = c
    None = None
    Module <- MCModule
    Uid <- MCUid
    ANY = 1
    Graph <- MCGraph
    MaxRuns = 2
INVARIANTS
    TypeOK
    AnswersOwnRequest
    RequestsKeptOnce
    FreshWhenQuiet
    
    OneModuleAtATime
    PartsReachTheirModule
    GoodFlowsKept
PROPERTIES
    FollowsWires
    RunsEnd
CHECK_DEADLOCK FALSE
