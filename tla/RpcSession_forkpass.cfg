\* One thread per process (a parent thread that may fork, and the child),
\* with every allocation, connect, write and read failure and the daemon
\* closing connections: run one after the other, a process's calls never
\* reach call_connect without a socket path.
CONSTANTS
    t1 = t1
    t2 = t2
    c1 = c1
    Threads = {t1}
    Child = c1
    Ops <- MCOneOp
    MaxConns = 2
    MaxCalls = 2
    IoErrors = TRUE
    ForkEnabled = TRUE
SPECIFICATION Spec
INVARIANT TypeOK
INVARIANT ConnectHasPath
CHECK_DEADLOCK FALSE
