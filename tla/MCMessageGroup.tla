--------------------------- MODULE MCMessageGroup ---------------------------
\* a and b are the group, c is added and may be removed again, by either.
EXTENDS MessageGroup

MCActions ==
  [a |-> {[type |-> "update"], [type |-> "send"], [type |-> "remove", member |-> "c"]},
   b |-> {[type |-> "add", member |-> "c"], [type |-> "remove", member |-> "a"],
          [type |-> "update"]},
   c |-> {[type |-> "send"], [type |-> "remove", member |-> "b"]}]
=============================================================================
