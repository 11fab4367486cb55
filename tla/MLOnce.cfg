CONSTANTS
    K = 3
    R = 4
    N1 = 3
    Codes <- Staircases
    NullLast <- None
    CallbackResults = {"buffer", "null"}
    RepairCallback = FALSE
    MaxFailures = 1
    NULL = NULL
SPECIFICATION OnceSpec
INVARIANTS NoFault SolvedCorrectly MLHeapBalance
PROPERTIES MaximumLikelihood KnownForever FinishReturns
CHECK_DEADLOCK FALSE
