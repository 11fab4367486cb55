CONSTANTS
    K = 3
    R = 4
    N1 = 3
    Codes <- Triangle
    NullLast <- None
    CallbackResults = {"buffer"}
    RepairCallback = FALSE
    MaxFailures = 0
    NULL = NULL
SPECIFICATION MLSpec
INVARIANTS UsableAfterFailure
CHECK_DEADLOCK FALSE
