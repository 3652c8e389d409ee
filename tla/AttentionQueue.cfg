CONSTANTS
    r1 = r1
    r2 = r2
    r3 = r3
    w1 = w1
    w2 = w2
    Reqs <- MCReqs
    SyncReqs <- MCSync
    Windows <- MCWindows
    NoReq = NoReq
    NoWin = NoWin
    Declines = TRUE
    Spurious = TRUE
SPECIFICATION Spec
INVARIANT TypeOK
PROPERTIES Refines EveryRequestServed
CHECK_DEADLOCK FALSE
