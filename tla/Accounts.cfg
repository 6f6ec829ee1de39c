SPECIFICATION Spec
CONSTANTS
    u1 = u1
    d1 = d1
    d2 = d2
    q1 = q1
    q2 = q2
    c1 = c1
    None = None
    Users = {u1}
    Devices = {d1, d2}
    Requests = {q1, q2}
    Codes = {c1}
    MaxEra = 2
    Forwarded = TRUE
    Faults = {"bus"}
SYMMETRY Symmetry
INVARIANTS  SessionsEnd PasswordIsLast
CHECK_DEADLOCK FALSE
CONSTRAINT Telling
