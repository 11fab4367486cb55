CONSTANTS
    Shapes <- MCShapes
    Lengths = {3, 7, 13}
    SolverLengths = {1, 3, 4, 8, 12, 18}
    Room = 8
    MaxSource = 16
    MaxTotal = 24
    NULL = NULL
SPECIFICATION Spec
INVARIANTS ParityRight GridRecovers
PROPERTIES SumsToTheByte
CHECK_DEADLOCK FALSE
