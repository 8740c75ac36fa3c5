SPECIFICATION Spec
CONSTANTS
    Workers = {w1, w2}
    Keys = {k1, k2}
    Closable = {}
    Observations = {o1, o2}
    OfPoolZero = {k1, k2, o1, o2}
    Assigned <- MCAssigned
    PoolOf <- MCPoolOf
    MaxEvents = 4
    MaxMishaps = 0
INVARIANTS
    StampMeansMessage
CHECK_DEADLOCK TRUE
