SPECIFICATION Spec
CHECK_DEADLOCK FALSE
CONSTANTS
    MAX_TOP_K = 3
    Requests <- MCRequests
INVARIANTS
    CleanExit
    RightAnswer
