CONSTANTS
    Keys = {k1, k2, k3}
    Items = {d1, d2, d3}
    HashValues <- MCHashValues
    InitSize = 2
    MaxSize = 8
    IntLimit = 16
SPECIFICATION WalkSpec
INVARIANTS TypeOK OneKeyPerSlot OneDoublingSuffices RehashGivesUpOnlyWhenNothingFits WalkMissesOnlyTheLastSlot
PROPERTIES ImplementsStore
CHECK_DEADLOCK FALSE
