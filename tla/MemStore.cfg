SPECIFICATION FairSpec
CONSTANTS
    Keys = {k1, k2}
    Writes = {w1, w2, w3}
    Timers = {t1, t2, t3}
    None = None
    MayClear = TRUE
PROPERTY ValueExpires
