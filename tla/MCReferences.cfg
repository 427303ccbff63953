CONSTANTS
    p1 = p1
    p2 = p2
    a = a
    b = b
    Absent = Absent
    Callers <- TwoCallers
    Keepers = {p1}
    Methods <- SomeMethods
    Oids = {a, b}
    Names <- SomeNames
    Targets <- OneTarget
    Given <- ShortAndFull
SYMMETRY Symmetry
SPECIFICATION Spec
CHECK_DEADLOCK FALSE
PROPERTIES
    NothingLost
    UpdateKeepsKind
    LocalFirst
