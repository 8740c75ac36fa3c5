SPECIFICATION FairSpec
CONSTANTS
    BLOCK_HISTORY = 3
    BLOCK_CHUNK = 2
    FirstBlock = 1
    NumHandlers = 2
    MaxFinalized = 5
    MaxFailures = 1
INVARIANTS
    TypeOK
    NeverTwice
    NoSilentGap
    CursorCoversHandled
    SentBeforeCommit
    RepeatNeedsFailure
PROPERTIES
    CatchesUp
    SilentOnceCommitted
    LedgerSpec
CHECK_DEADLOCK TRUE
