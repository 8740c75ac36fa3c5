SPECIFICATION FairSpec
CONSTANTS
    Workers = {w1}
    Keys = {k1}
    Closable = {w1}
    Observations = {o1}
    OfPoolZero = {k1, o1}
    Assigned <- MCAssigned
    PoolOf <- MCPoolOf
    MaxEvents = 1
    MaxMishaps = 0
PROPERTIES
    ResolvedGoesAway
CHECK_DEADLOCK TRUE
