SPECIFICATION Spec
CONSTANTS
    b1 = b1
    b2 = b2
    l1 = l1
    n1 = n1
    q1 = q1
    q2 = q2
    None = None
    Bookmarks = {b1, b2}
    Labels = {l1}
    Notes = {n1}
    Requests = {q1, q2}
    MaxTime = 2
SYMMETRY Symmetry
INVARIANT NothingIsMissed
 
CHECK_DEADLOCK FALSE
