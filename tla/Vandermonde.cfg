CONSTANTS
    GF_BITS = 4
    Unroll = 2
    Codes <- MCCodes
    Seeds = {1, 6}
    Length = 3
SPECIFICATION FairSpec
INVARIANTS AnyKDecode PacketsFollowIndex
PROPERTIES ShuffleReturns
CHECK_DEADLOCK FALSE
