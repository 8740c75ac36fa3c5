SPECIFICATION SharedSpec
CONSTANTS
    BLOCK_HISTORY = 2
    BLOCK_CHUNK = 2
    FirstBlock = 1
    NumHandlers = 1
    MaxFinalized = 4
    MaxFailures = 1
INVARIANTS
    FetchesNewBlocks
