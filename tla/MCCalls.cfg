CONSTANTS
    Methods <- MCMethods
    Script <- MCScript
    KnownLeaks <- MCKnownLeaks
    KnownLosses <- MCKnownLosses
    KnownJumps <- MCKnownJumps
    KnownSilent <- MCKnownSilent
    KnownWild <- MCKnownWild
    Turns = 3
SPECIFICATION Spec
INVARIANTS NothingLost NoWildUse NoJump KeepsDiscipline
PROPERTY RelaySpec
CHECK_DEADLOCK FALSE
