CONSTANTS
    Keys = {k1, k2}
    Items = {d1, d2, d3}
    HashValues <- MCHashValues
    InitSize = 2
    MaxSize = 8
    IntLimit = 16
    FreeFuncs = {null, free_pcap_item}
    NullFunc = null
SPECIFICATION ApiSpec
INVARIANTS OneKeyPerChain ItemsFreedOnce
PROPERTIES InsertReturns RemovalIsPrivate FreedAsAsked
CHECK_DEADLOCK FALSE
