CONSTANTS
    MaxSpawns <- MCMaxSpawns
    ChildFails = TRUE
    IoErrors = FALSE
    Redisplay = TRUE
SPECIFICATION Spec
INVARIANT NoAssertAbort
CHECK_DEADLOCK FALSE
