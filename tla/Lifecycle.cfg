SPECIFICATION FairSpec
CONSTANTS
    Bookmarks = {b1}
    Marks = {m1, m2}
    None = None
    Deleters = {"request", "task", "purge", "cleanup"}
    Faults = {"bus", "db", "zip", "panic"}
    MayStop = TRUE
INVARIANTS
    ArchiveReadable
    
    OrphansAreExplained
    
PROPERTY NeverHangs
CHECK_DEADLOCK FALSE
