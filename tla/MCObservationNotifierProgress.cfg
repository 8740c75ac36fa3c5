SPECIFICATION FairSpec
CONSTANTS
    Observations = {o1, o2}
    Alarming = {o1}
    Types = {rewards, unresponsive}
    Flushing = {unresponsive}
    EventTypes = {}
    OfPoolZero = {}
    PoolOf <- MCPoolOf
    UserOf <- MCUserOf
    Runs = {r1}
    Frequency = 1
    MaxTime = 2
    MaxMishaps = 1
PROPERTIES
    KeepsTelling
CHECK_DEADLOCK FALSE
