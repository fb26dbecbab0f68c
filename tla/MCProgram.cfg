CONSTANTS
    SeqSpace = 16
    Size = 4
    Keys <- MCKeys
    SlotMaps <- MCSlotMaps
    Captures <- MCTraffic
SPECIFICATION ProgramSpec
INVARIANTS PacketsKept ChainsAtHome PcapsAreFlows PairsJoined HeadersConsistent RequesterOrder PlainHandshakeFound TextsComplete RepliesFollowRequests
PROPERTIES Ends
CHECK_DEADLOCK FALSE
