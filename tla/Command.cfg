SPECIFICATION CommandSpec
CONSTANTS
    Processes = {p, q}
    Bookmarks = {a, b}
    Articles = {a}
    Spare = {f, g, h, i}
    Kinds <- MCKinds
    Versions <- OldAndNew
    Dialects = {"sqlite3", "postgres"}
    Faults = {"fail", "crash"}
    MaxDraws = 2
    None = None
    Users = {u1, u2}
    NewIds = {n1, n2}
    Created = {b1, b2}
    NewUIDs = {c1, c2}
SYMMETRY CommandSymmetry
CONSTRAINT Telling
INVARIANTS
    AppliedOnce
    
    
    
PROPERTIES
    OthersAreSpared
    ImportIsExact
CHECK_DEADLOCK FALSE
