SPECIFICATION MCSpec
CONSTANTS
    ID = {1, 2, 3}
    NoItem = NoItem
    MaxIndex = 6
    Graphs <- Dags
    MaxBacklog = 2
    MaxFailures = 1
    MaxCrashes = 1
    Failures <- OneOrTwoFail
    Prunings <- NoneOrSecond
INVARIANTS
    AppliedInOrder
    OutputInOrder
PROPERTIES
    EveryCallIsAnswered
    EverythingComesOut
CHECK_DEADLOCK FALSE
