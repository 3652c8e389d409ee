\* Two threads, no read/write errors, no fork: can a thread reach
\* call_connect after another thread's C_Finalize cleared the socket path?
CONSTANTS
    t1 = t1
    t2 = t2
    c1 = c1
    Threads <- MCThreads
    Child = c1
    Ops <- MCOneOp
    MaxConns = 2
    MaxCalls = 2
    IoErrors = FALSE
    ForkEnabled = FALSE
SPECIFICATION Spec
INVARIANT ConnectHasPath
CHECK_DEADLOCK FALSE
