SPECIFICATION FlowSpec
CONSTANTS
    a = a
    b = b
    c = c
    None = None
    Module <- MCModule
    Uid <- RealUid
    ANY = 1
    Graph <- MCGraph
    MaxRuns = 1
INVARIANTS
    EndsWhereWiresEnd
CHECK_DEADLOCK FALSE
