SPECIFICATION FairSpec
CONSTANTS
    Runs = {r1, r2}
    Requests = {q1}
    Accounts = {alice, bob}
    Asked = {alice}
    MaxPools = 2
    MaxMishaps = 1
INVARIANTS
    TypeOK
    NoGap
    OwnerOfChain
    CachedAreStored
    OneConnection
    WaitersConnected
PROPERTIES
    PoolRegistrySpec
    StoresPools
CHECK_DEADLOCK TRUE
