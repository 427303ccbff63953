CONSTANTS
    Characters <- MCCharacters
    Contents <- MCContents
    Walks <- MCWalks
    Limits <- MCLimits
    MaxLength = 2
    LF = "lf"
    CR = "cr"
    Space = "space"
SPECIFICATION ObjectsSpec
INVARIANTS TextRight LinesRight CountRight FromIoRight
CHECK_DEADLOCK FALSE
