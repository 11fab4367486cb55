CONSTANTS
    K = 3
    R = 5
    Degrees = {2, 3, 4, 6}
    LowK = 2
    LowR = 7
    LowDegrees = {3, 6}
SPECIFICATION Spec
INVARIANTS ColumnWeight LastSymbolNull Decodable
PROPERTIES Terminates
CHECK_DEADLOCK FALSE
