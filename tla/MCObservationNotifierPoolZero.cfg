SPECIFICATION Spec
CONSTANTS
    Observations = {o1, o2}
    Alarming = {}
    Types = {commission}
    Flushing = {}
    EventTypes = {commission}
    OfPoolZero = {o1}
    PoolOf <- MCPoolOf
    UserOf <- MCUserOf
    Runs = {r1}
    Frequency = 2
    MaxTime = 2
    MaxMishaps = 0
INVARIANTS
    MessageOfOwnPool
CHECK_DEADLOCK FALSE
