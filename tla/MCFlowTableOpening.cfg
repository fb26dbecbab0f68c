CONSTANTS
    SeqSpace = 16
    Size = 4
    Keys <- MCKeys
    SlotMaps <- MCSlotMaps
    Captures <- MCOpenings
SPECIFICATION Spec
INVARIANTS HandshakeFound
CHECK_DEADLOCK FALSE
