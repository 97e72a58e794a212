SPECIFICATION FairSpec
CONSTANTS
    NoOp = NoOp
    body <- MCBody
    pruneFlag <- MCPruneFlag
    dependencies <- MCDependencies
    Log = {1, 2, 3, 4}
    Local = {1, 3}
    Spaces = {3}
    Length = 3
    Publishers = 1
    ChannelSize = 1
    MaxBacklog = 0
    Scenarios <- MCScenarios
INVARIANTS
    HandledInLogOrder
    
    NoSilentLoss
PROPERTIES
    EndsWithLastHandle
    EventuallyReported
CHECK_DEADLOCK FALSE
