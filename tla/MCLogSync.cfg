CONSTANTS
    a = a
    b = b
    Peer <- Peers
    Log <- Logs
    author <- AuthorOf
    Length = 3
    Heights <- SomeHeights
    PrunePoints = {2}
    Window = 4
    Capacity = 6
    MaxPublished = 1
    MaxFaults = 1
SPECIFICATION Spec
CHECK_DEADLOCK FALSE
INVARIANTS
    PastIsReplicated
    DeliveredOnceAndInOrder
    EventsAreTrue
PROPERTIES
    ClosesGracefully
    Converges
