SPECIFICATION Spec
CONSTANTS
    m1 = m1
    m2 = m2
    Sender <- MCSender
    Message <- MCMessage
    GroupUid <- MCGroupUid
    MaxMessages = 3
INVARIANTS
    TypeOK
    NothingLeftBehind
PROPERTIES
    CleanGroupsArrive
SYMMETRY MCSymmetry
CHECK_DEADLOCK FALSE
