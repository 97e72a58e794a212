SPECIFICATION Spec
CONSTANTS
  Members = {"a", "b", "c"}
  Initial = {"a", "b"}
  Creator = "a"
  MaxForward = 2
  Tolerance = 1
  MaxGeneration = 100
  Actions <- MCActions
  MaxOperations = 3
INVARIANT NobodyIsLockedOut
INVARIANT SameSecrets
CHECK_DEADLOCK FALSE
