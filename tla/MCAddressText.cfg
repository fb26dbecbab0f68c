CONSTANTS
    Words <- MCWords
    Bytes <- MCBytes
    Ports <- MCPorts
SPECIFICATION Spec
INVARIANTS TextReadsBack KeyTellsApart BestIsLongest TextFits
CHECK_DEADLOCK FALSE
