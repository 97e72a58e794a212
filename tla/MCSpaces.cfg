CONSTANTS
  Groups = {"S", "g"}
  Space = "S"
  Replicas = {"a", "b", "c"}
  Clock <- MCClock
  Registered = {"c", "d"}
  Plans <- MCPlans
SPECIFICATION Spec
CHECK_DEADLOCK FALSE
INVARIANT SecretsArrive
INVARIANT SameMembers
 
INVARIANT ToldMembers
 
