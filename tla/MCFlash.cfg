SPECIFICATION FlashSpec
CONSTANTS
    lock = lock
    unlock = unlock
    Command <- MCCommand
    NONE = NONE
    IV_DEFAULT_VALUE = 1
    ROLLING_CODE_DEFAULT_VALUE = 5
    ROLLING_CODE_MAX_RANGE = 2
    Modulus = 8
    MaxPresses = 3
    MaxPowerLosses = 1
    EventBlob <- MCEventBlob
    FileCapacity = 25
    AMOUNT_OF_MAIN_EVENTS = 2
    AMOUNT_OF_CHILD_EVENTS = 4
INVARIANTS
    TypeOK
    RunsInOrder
    CarNeverAhead
    IVsFresh
    NoPressStranded
    StoreTypeOK
    HangsOnlyAfterBlank
PROPERTIES
    RemoteSleeps
    StoresAList
CHECK_DEADLOCK FALSE
