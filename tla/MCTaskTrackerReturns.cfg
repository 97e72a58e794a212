SPECIFICATION Spec
CONSTANTS
    Caller = {c1}
    TaskId = {t1}
    Instances = {k1}
PROPERTIES
    EveryCallReturns
CHECK_DEADLOCK FALSE
