CONSTANTS
    Commits = {1, 2, 3}
    UINT64_MAX = 5
    Histories <- LinearHistories
    Options = {0, 1, 2, 5}
SPECIFICATION FairSpec
CHECK_DEADLOCK FALSE
INVARIANTS
    Window
    Freed
PROPERTIES
    EndsSooner
    EventuallyFreed
    LimitedEnds
