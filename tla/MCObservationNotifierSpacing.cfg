SPECIFICATION Spec
CONSTANTS
    Observations = {o1}
    Alarming = {}
    Types = {rewards, withdrawals}
    Flushing = {}
    EventTypes = {}
    OfPoolZero = {}
    PoolOf <- MCPoolOf
    UserOf <- MCUserOf
    Runs = {r1, r2}
    Frequency = 2
    MaxTime = 3
    MaxMishaps = 0
INVARIANTS
    NeverTooFrequent
CHECK_DEADLOCK FALSE
