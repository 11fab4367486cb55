CONSTANTS
    NRows = 2
    NCols = 3
    SparseSizes <- MCSparseSizes
    DenseSizes <- MCDenseSizes
    BlockSize = 2
    WordSize = 2
    ByteSize = 1
    MaxOnes = 3
SPECIFICATION Spec
INVARIANTS LinksConsistent QueriesAgree
PROPERTIES ImplementsBinaryMatrix
CHECK_DEADLOCK FALSE
