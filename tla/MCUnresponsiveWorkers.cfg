SPECIFICATION Spec
CONSTANTS
    Workers = {w1, w2}
    Keys = {k1, k2, k3}
    Closable = {w1, w2}
    Observations = {o1, o2}
    OfPoolZero = {k1, k2, o1}
    Assigned <- MCAssigned
    PoolOf <- MCPoolOf
    MaxEvents = 3
    MaxMishaps = 1
SYMMETRY MCSymmetry
INVARIANTS
    TypeOK
    IssueOrCause
    NoOrphan
    IssuesUnique
    
PROPERTIES
    BoardSpec
CHECK_DEADLOCK TRUE
