SPECIFICATION FairSpec
CONSTANTS
    u1 = u1
    u2 = u2
    i1 = i1
    i2 = i2
    Imports = {i1, i2}
    URLs = {u1, u2}
    Sources <- MCSources
    Allow = {i2}
    Workers = 2
    MaxBookmarks = 3
    MaxMishaps = 1
    Persistent = TRUE
    MayCrash = TRUE
    None = None
INVARIANTS  NoDuplicates
PROPERTIES ImportEnds
CHECK_DEADLOCK FALSE
