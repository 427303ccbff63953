CONSTANTS
    Configs = {c1, c2}
    Keys = {k1, k2}
    Values = {v1}
    Absent = Absent
    Same = Same
    Nobody = Nobody
    Dead = Dead
    MaxNested = 2
SYMMETRY Symmetry
SPECIFICATION Spec
CHECK_DEADLOCK FALSE
INVARIANTS
    LockHeldInBlock
PROPERTY
    AtomicSpec
