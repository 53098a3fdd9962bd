SPECIFICATION FairSpec
CONSTANTS
    serial = serial
    Interface <- MCInterface
    MaxFrames <- MCNoFrames
    Edit <- MCEdit
    MaxEdits = 0
    MaxCommands = 0
    MaxRequests = 2
PROPERTIES
    RequestsDelivered
