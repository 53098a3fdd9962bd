SPECIFICATION FairSpec
CONSTANTS
    MAX_ACK_BUFFERS = 4
    NumInterfaces = 2
    TranslationLayers <- MCTranslationLayers
    current_node_uid = 5
    Time <- MCTime
    SentFrame <- MCSentFrame
    BusFrame <- MCBusFrame
    MaxSent = 4
    MaxRead = 2
INVARIANTS
    TypeOK
    NoOverrun
    AcksAnswerMessages
PROPERTIES
    EntriesKept
    InterfacesServed
