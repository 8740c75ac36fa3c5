SPECIFICATION FairSpec
CONSTANTS
    Workers = {w1, w2}
    Keys = {k1, k2}
    Closable = {}
    Observations = {o1, o2, o3}
    OfPoolZero = {k1, o1, o2}
    Assigned <- MCAssigned
    PoolOf <- MCPoolOf
    MaxEvents = 2
    MaxMishaps = 1
PROPERTIES
    ResolvedGoesAway
CHECK_DEADLOCK TRUE
