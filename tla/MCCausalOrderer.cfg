SPECIFICATION Spec
CONSTANTS
    ID = {1, 2, 3, 4}
    MaxIndex = 6
    Graphs <- Dags
INVARIANTS
    DependenciesMet
    NothingSwallowedIfReduced
PROPERTIES
    OrdersPartially
CHECK_DEADLOCK FALSE
