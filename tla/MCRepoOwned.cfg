CONSTANTS
    Nil = Nil
    Repos = {r1, r2}
    Rebases = {k1}
    Indexes = {i1, i2, i3}
    Handles = {h1, h2, h3, h4}
SYMMETRY Symmetry
SPECIFICATION Spec
INVARIANTS
    RefcountExact
    NoDangling
    NoLeak
    BackPointer
    IndexExclusive
PROPERTY
    OnlyCloseSeparates
