CONSTANT
    Paths = 3
SPECIFICATION Spec
CHECK_DEADLOCK FALSE
INVARIANTS
    NotifyCancels
    MemoryReleased
PROPERTY
    RelaySpec
