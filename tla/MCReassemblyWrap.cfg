CONSTANTS
    SeqSpace = 64
    ClientIsn = 60
    MaxTail = 3
    Keys <- MCKeys
    Chains <- MCChains
SPECIFICATION Spec
INVARIANTS EveryByteWritten
CHECK_DEADLOCK FALSE
