SPECIFICATION DeviceFairSpec
CONSTANTS
    Polls = {p1, p2}
    Visits = {v1}
    UserIds = {u1}
    Tokens <- MCTokens
    Backends = {"memory", "redis"}
    Nil = Nil
    Life = 2
    Interval = 1
    MaxNow = 3
INVARIANTS TokenHasGrant OneToken ForgottenInTime
PROPERTIES DecisionStays GrantIsDelivered
