SPECIFICATION Spec
CONSTANTS
    MaxConns = 2
    MaxClients = 4
    MaxChannels = 3
    MaxAnnounced = 1
    MaxFaults = 2
    MaxReconnectAttempts = 1
    ControlReserve = 1
    MaxRelocations = 1
    Kinds <- Sessions
    CloseLags = FALSE
PROPERTY NoDeadAck
CHECK_DEADLOCK FALSE
