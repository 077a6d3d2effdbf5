SPECIFICATION Spec
CONSTANTS
    MaxConns = 2
    MaxClients = 4
    MaxChannels = 1
    MaxAnnounced = 1
    MaxFaults = 2
    MaxReconnectAttempts = 2
    ControlReserve = 1
    MaxRelocations = 1
    Kinds <- Sessions
    CloseLags = TRUE
INVARIANT OneTcpPerConnection
CHECK_DEADLOCK FALSE
