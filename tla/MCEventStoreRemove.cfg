SPECIFICATION StoreSpec
CONSTANTS
    EventBlob <- MCEventBlob
    FileCapacity = 25
    AMOUNT_OF_MAIN_EVENTS = 2
    AMOUNT_OF_CHILD_EVENTS = 4
PROPERTIES
    IsAList
