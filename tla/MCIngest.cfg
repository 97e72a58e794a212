SPECIFICATION FairSpec
CONSTANTS
    Length = 5
    PrunePoints = {2, 4}
    Forks = {1, 2}
    Malformed = 200
    NoOp = NoOp
    Capacity = 2
    Op <- MCOp
    seqNum <- MCSeqNum
    backlink <- MCBacklink
    pruneFlag <- MCPruneFlag
INVARIANTS
    ChainIntact
    PrunedStaysPruned
PROPERTIES
    EventuallyCollected
CHECK_DEADLOCK FALSE
