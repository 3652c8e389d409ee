\* A tool that exits normally, pipes without errors, and a second round
\* shown by a "responded" override.
CONSTANTS
    MaxSpawns <- MCMaxSpawns
    ChildFails = FALSE
    IoErrors = FALSE
    Redisplay = TRUE
SPECIFICATION Spec
INVARIANTS TypeOK NoAssertAbort CompletedWithResponse
PROPERTIES PromptCompletes
CHECK_DEADLOCK FALSE
