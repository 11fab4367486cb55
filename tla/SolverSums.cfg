CONSTANTS
    Shapes <- SolverShape
    Lengths = {3}
    SolverLengths = {5, 13, 23}
    Room = 8
    MaxSource = 16
    MaxTotal = 24
    NULL = NULL
SPECIFICATION Spec
PROPERTIES SumsToTheByte
CHECK_DEADLOCK FALSE
