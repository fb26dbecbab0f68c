CONSTANTS
    SeqSpace = 16
    Size = 4
    Keys <- MCKeys
    SlotMaps <- MCSlotMaps
    Captures <- MCCaptures
SPECIFICATION Spec
INVARIANTS HeadersRestored
CHECK_DEADLOCK FALSE
