CONSTANTS
    Calls <- MCAllCalls
    MaxLen = 2
SPECIFICATION Spec
INVARIANTS TypeOK NoBufferOverrun TwoPhaseLength
CHECK_DEADLOCK FALSE
