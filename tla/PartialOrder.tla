---------------------------- MODULE PartialOrder ----------------------------
(***************************************************************************)
(* What an orderer promises its consumer: items arrive in any order and    *)
(* may arrive again, and every item is handed out for the first time only  *)
(* after all items it depends on have been handed out.  An item which was  *)
(* handed out before may be handed out again (re-processing is allowed to  *)
(* forward it once more).                                                  *)
(***************************************************************************)
CONSTANT ID

VARIABLES
    parents,    \* parents[i]: the items which i depends on
    arrived,    \* the items which were submitted for ordering
    delivered   \* the items which were handed out at least once

vars == <<parents, arrived, delivered>>

Init ==
    /\ parents \in [ID -> SUBSET ID]
    /\ arrived = {}
    /\ delivered = {}

Arrive(i) ==
    /\ arrived' = arrived \union {i}
    /\ UNCHANGED <<parents, delivered>>

Deliver(i) ==
    /\ i \in arrived
    /\ parents[i] \subseteq delivered
    /\ delivered' = delivered \union {i}
    /\ UNCHANGED <<parents, arrived>>

Next == \E i \in ID : Arrive(i) \/ Deliver(i)

Spec == Init /\ [][Next]_vars

=============================================================================
