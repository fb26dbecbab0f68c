CONSTANTS
    SeqSpace = 8
    Keys = {"AB"}
    MaxLength = 5
    Packets <- MCPackets
SPECIFICATION Spec
INVARIANTS NoPacketLost SortedStably ComputesSortPackets
PROPERTIES Terminates
CHECK_DEADLOCK FALSE
