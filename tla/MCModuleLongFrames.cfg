SPECIFICATION Spec
CONSTANTS
    s1 = s1
    s2 = s2
    Sender <- MCSender
    Message <- MCMessage
    GroupUid <- MCGroupUid
    MaxMessages = 3
    MAX_LONG_FRAME_GROUPS = 2
    MAX_BYTES_PER_LF_GROUP = 18
    ZeroBytes <- MCZeroBytes
INVARIANTS
    TypeOK
    NothingLeftBehind
PROPERTIES
    CleanGroupsArrive
SYMMETRY MCSymmetry
CHECK_DEADLOCK FALSE
