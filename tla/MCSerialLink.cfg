SPECIFICATION Spec
CONSTANTS
    Frame <- MCFrame
    MaxFrames = 3
    MaxLost = 2
    MaxRestarts = 1
INVARIANTS
    TypeOK
    SoundFramesArrive
    FaultsNeedCause
CHECK_DEADLOCK FALSE
