CONSTANTS
    Heads = 2
    Tips = 2
    MaxCalls = 3
    MaxStarted = 3
SPECIFICATION RemoteSpec
CHECK_DEADLOCK FALSE
INVARIANTS
    HeadsFresh
    Disconnected
    MemoryReleased
PROPERTIES
    TipsCancelled
    RelaySpec
