SPECIFICATION Spec
CONSTANTS
    MaxConns = 2
    MaxClients = 4
    MaxChannels = 2
    MaxAnnounced = 1
    MaxFaults = 0
    MaxReconnectAttempts = 1
    ControlReserve = 1
    MaxRelocations = 1
    Kinds <- Queries
    CloseLags = FALSE
INVARIANT EveryShellIsHeld
CHECK_DEADLOCK FALSE
