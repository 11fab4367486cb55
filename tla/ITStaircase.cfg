CONSTANTS
    K = 3
    R = 5
    Codes <- Staircases
    NullLast <- NullLastStaircases
    CallbackResults = {"buffer", "null"}
    MaxFailures = 1
    NULL = NULL
SPECIFICATION BoundedSpec
INVARIANTS SumsExact CountersExact PeelingComplete HeapBalance
PROPERTIES CallbackOnlyForUnknown CallsReturn Implements
CHECK_DEADLOCK FALSE
