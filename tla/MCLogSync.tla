------------------------------ MODULE MCLogSync ------------------------------
(***************************************************************************)
(* Two peers which write one log each.                                     *)
(***************************************************************************)
EXTENDS LogSync

CONSTANTS a, b

Peers == {a, b}
Logs == {1, 2}
AuthorOf == [l \in Logs |-> IF l = 1 THEN a ELSE b]

\* The heights of log 1 at a and b, and of log 2 at b and a.
HeightsOf(own1, known1, own2, known2) ==
    [p \in Peers |-> [l \in Logs |->
        CASE p = a /\ l = 1 -> own1 [] p = b /\ l = 1 -> known1
          [] p = b /\ l = 2 -> own2 [] p = a /\ l = 2 -> known2]]

\* Nothing, a new log on both sides, known and longer logs, a pruned one.
SomeHeights ==
    {HeightsOf(-1, -1, -1, -1), HeightsOf(0, -1, 0, -1), HeightsOf(1, -1, -1, -1),
     HeightsOf(1, 0, -1, -1), HeightsOf(2, 0, 1, 1)}

=============================================================================
