SPECIFICATION Spec
CONSTANTS
    Processes = {p}
    Bookmarks = {a, b}
    Articles = {a, b}
    Spare = {f, g, h, i, j}
    Kinds <- MCKinds
    Versions <- Oldest
    Dialects = {"sqlite3", "postgres"}
    Faults = {"fail"}
    MaxDraws = 2
    None = None
INVARIANTS
    RollbackKeepsArchives
CHECK_DEADLOCK FALSE
