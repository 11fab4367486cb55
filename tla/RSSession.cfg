CONSTANTS
    K = 3
    N = 5
    Codecs = {"gf_2_8", "gf_2_m"}
    CallbackResults = {"none"}
    MaxFailures = 1
    NULL = NULL
SPECIFICATION FairSpec
INVARIANTS CountsExact GatherInTable ValuesRight ResourcesExact
PROPERTIES KeepsPromise DecodedInTheEnd
CHECK_DEADLOCK FALSE
