--------------------------- MODULE MCTaskTracker ----------------------------
(* Three callers, two of which may submit the same event.                  *)
EXTENDS TaskTracker, TLC

Symmetry == Permutations(Caller) \union Permutations(Instances)
=============================================================================
