CONSTANTS
    Paths = {1, 2}
    Oids = {"old", "new"}
    None = None
    Files <- SmallFiles
    Loads <- SmallLoads
    Given = {0, 2, 4}
    MaxChanges = 1
SPECIFICATION Spec
CHECK_DEADLOCK FALSE
INVARIANT
    ConflictAsGiven
