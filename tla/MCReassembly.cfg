CONSTANTS
    SeqSpace = 64
    ClientIsn = 50
    MaxTail = 4
    Keys <- MCKeys
    Chains <- MCChains
SPECIFICATION Spec
INVARIANTS TypeOK NoByteLost SkippedWritten OneExchangeInOrder Delimited NullOnlyAfterHandshake
CHECK_DEADLOCK FALSE
