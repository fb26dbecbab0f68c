CONSTANTS
    Names <- MCNames
    Trees <- MCTrees
    Capture <- MCCapture
    MaxLinks = 2
SPECIFICATION Spec
INVARIANTS OldResultsGone OthersKept
PROPERTIES RemovalEnds
CHECK_DEADLOCK FALSE
