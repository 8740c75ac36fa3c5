SPECIFICATION Spec
CONSTANTS
    Observations = {o1}
    Alarming = {}
    Types = {rewards, withdrawals}
    Flushing = {}
    EventTypes = {}
    OfPoolZero = {}
    PoolOf <- MCPoolOf
    UserOf <- MCUserOf
    Runs = {r1, r2}
    Frequency = 2
    MaxTime = 3
    MaxMishaps = 1
SYMMETRY MCSymmetry
INVARIANTS
    TypeOK
    StampMeansTold
    EarlyHasCause
CHECK_DEADLOCK FALSE
