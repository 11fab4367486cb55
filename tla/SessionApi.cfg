CONSTANTS
    Codecs = {"rs_2_8", "rs_2_m", "ldpc_staircase", "2d_parity", "ldpc_ff"}
    Roles <- MCRoles
    MaxK <- MCMaxK
    MaxN <- MCMaxN
    FieldSize <- MCFieldSize
    Sizes = {0, 1, 2, 3, 6}
    Esis = {0, 1, 2, 3, 5}
    Degrees = {2, 3, 4}
    Fields = {3, 4, 8}
    Fed = {"rs_2_8", "rs_2_m", "ldpc_staircase", "ldpc_ff"}
    Finished = {"rs_2_8", "rs_2_m", "ldpc_staircase"}
SPECIFICATION Spec
INVARIANTS NoFault Released Truthful
