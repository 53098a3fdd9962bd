SPECIFICATION FlowSpec
CONSTANTS
    a = a
    b = b
    c = c
    None = None
    Module <- MCModule
    Uid <- MCUid
    ANY = 1
    Graph <- MCGraph
    MaxRuns = 1
INVARIANTS
    LegNumbersUnused
CHECK_DEADLOCK FALSE
