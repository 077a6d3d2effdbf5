SPECIFICATION Spec
CONSTANTS
    MaxConns = 2
    MaxClients = 3
    MaxChannels = 3
    MaxAnnounced = 1
    MaxFaults = 2
    MaxReconnectAttempts = 1
    ControlReserve = 1
    MaxRelocations = 1
    Kinds <- SessionsAndQueries
    CloseLags = FALSE
INVARIANT TypeOK
INVARIANT NoLeakedShell
INVARIANT SessionsAttached
INVARIANT ReconnectIsSerial
INVARIANT OneTcpPerConnection
INVARIANT PoolGrowsUnderRefusal
PROPERTY TerminalsAreKept
PROPERTY RefusalsMoveOn
CHECK_DEADLOCK FALSE
