CONSTANTS
    Calls <- MCGetAttributeValue
    MaxLen = 2
SPECIFICATION Spec
INVARIANT DaemonSuccessReturned
CHECK_DEADLOCK FALSE
