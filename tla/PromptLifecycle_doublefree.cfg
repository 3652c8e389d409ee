CONSTANTS
    MaxSpawns <- MCMaxSpawns
    ChildFails = FALSE
    IoErrors = FALSE
    Redisplay = TRUE
SPECIFICATION Spec
INVARIANT NoFreedOutputUse
CHECK_DEADLOCK FALSE
