SPECIFICATION FairSpec
CONSTANTS
    serial = serial
    Interface <- MCInterface
    MaxFrames <- MCMaxFrames
    Edit <- MCEdit
    MaxEdits = 2
    MaxCommands = 2
    MaxRequests = 1
INVARIANTS
    TypeOK
    FramesInOrder
    EventsNeverStranded
    CommandsSentOnce
PROPERTIES
    FramesDelivered
    UpdatesDelivered
