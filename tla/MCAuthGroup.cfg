SPECIFICATION Spec
CONSTANTS
  a = a
  b = b
  c = c
  g = g
  h = h
  Individuals <- MCIndividuals
  Groups <- MCGroups
  Initial <- MCInitial
  Actions <- MCActions
  MaxOperations = 5
INVARIANTS Convergence AcceptedEverywhere RemovalIsFinal
CHECK_DEADLOCK FALSE
