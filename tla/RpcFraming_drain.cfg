\* Write and read errors other than EPIPE/EOF, and a failing response
\* reserve: does a session return to CALL_READY only when drained?
CONSTANTS
    HdrLen = 2
    ReqLen = 1
    RespLen = 1
    GarbageLens <- MCGarbageLens
    MaxCalls = 3
    MaxConns = 2
    WriteErrors = TRUE
    ReadErrors = TRUE
    ReserveFails = TRUE
SPECIFICATION Spec
INVARIANT ReadyOnlyWhenDrained
CHECK_DEADLOCK FALSE
