SPECIFICATION Spec
CONSTANTS
    MAX_ACK_BUFFERS = 12
    NumInterfaces = 2
    TranslationLayers <- MCTranslationLayers
    current_node_uid = 5
    Time <- MCTime
    SentFrame <- MCSentFrame
    BusFrame <- MCBusFrame
    MaxSent = 7
    MaxRead = 0
INVARIANTS
    CachesMaxAckBuffers
