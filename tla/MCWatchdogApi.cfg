SPECIFICATION FairSpec
CONSTANTS
    Requests = {r1, r2}
    Identities = {alice, bob}
    MAX_OBSERVATION_COUNT = 1
    MaxUsers = 3
    MaxRows = 4
INVARIANTS
    TypeOK
    OneUserPerIdentity
    QuotaBound
    OnlyOwnersWrite
PROPERTIES
    DeletedStaysDeleted
    ObservationRegistrySpec
    GetsIn
CHECK_DEADLOCK TRUE
