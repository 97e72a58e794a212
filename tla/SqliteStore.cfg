SPECIFICATION FairSpec
CONSTANTS
    Process = {p1, p2}
    NoProcess = NoProcess
    Writes = 2
    MaxRound = 2
INVARIANTS
    AllOrNothing
PROPERTIES
    EveryBeginReturns
CHECK_DEADLOCK FALSE
