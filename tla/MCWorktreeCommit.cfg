CONSTANTS
    c1 = c1
    c2 = c2
    f1 = f1
    f2 = f2
    p1 = p1
    x = x
    y = y
    none = none
    main = main
    topic = topic
    origin = origin
    Processes = {p1}
    Commits = {c1, c2}
    Paths = {f1, f2}
    TreeOf <- MCTreeOf
    Locals = {main, topic}
    Remotes = {origin}
    Kinds <- CommitKinds
    NoFile = none
    Edited = edited
    Absent = absent
SPECIFICATION Spec
INVARIANT CheckedOut
CHECK_DEADLOCK FALSE
