--------------------------- MODULE MCTopicStream ----------------------------
(***************************************************************************)
(* Instances of TopicStream: the node publishes to log 1, receives or       *)
(* imports logs 2 and 4, and log 3 is the one of a space.                   *)
(***************************************************************************)
EXTENDS TopicStream

Number(o) == 10 * o[1] + o[2]

\* <<1, 3>> and <<2, 2>> have no body, <<4, 1>> can't be decoded and <<3, 1>> is
\* the control message of a space.
MCBody == [o \in Op |-> CASE Number(o) \in {13, 22} -> "none" [] Number(o) = 41 -> "garbled"
                           [] Number(o) = 31 -> "control" [] OTHER -> "message"]

MCPruneFlag == [o \in Op |-> Number(o) \in {13, 42}]

MCDependencies == [o \in Op |-> IF Number(o) = 42 THEN {<<2, 1>>} ELSE {}]

Scenario(ops, crashes, drops, failures, resets, imports, receives) ==
    [policy |-> "Explicit", ops |-> ops, crashes |-> crashes, drops |-> drops,
     failures |-> failures, resets |-> resets, imports |-> imports, receives |-> receives]

Automatically(given) == [given EXCEPT !.policy = "Automatic"]

Waiting == {<<2, 1>>, <<4, 1>>, <<4, 2>>}

\* The node is on its own and the process crashes, an acknowledgement fails, the
\* cursor is reset or the stream is dropped, with both policies; it also receives
\* operations, which wait for each other, or imports some while it changes a
\* space.
MCScenarios ==
    {Scenario({1} \X (1..2), 1, 0, 1, 0, 0, 0),
     Scenario({1} \X (1..3), 1, 0, 0, 1, 0, 0),
     Scenario({1} \X (1..3), 2, 0, 0, 0, 0, 0),
     Scenario({1} \X (1..2), 0, 1, 0, 1, 0, 0),
     Automatically(Scenario({1} \X (1..2), 1, 0, 1, 0, 0, 0)),
     Automatically(Scenario({1} \X (1..3), 1, 0, 0, 0, 0, 0)),
     Automatically(Scenario({1} \X (1..2), 0, 1, 0, 1, 0, 0)),
     Scenario({<<1, 1>>, <<1, 2>>, <<2, 1>>}, 1, 0, 0, 0, 0, 1),
     Scenario({2} \X (1..2), 1, 0, 0, 0, 0, 2),
     Scenario(Waiting, 1, 0, 0, 0, 0, 3),
     Scenario(Waiting, 0, 0, 1, 0, 0, 3),
     Scenario({<<2, 1>>, <<3, 1>>, <<3, 2>>}, 0, 0, 0, 0, 1, 1),
     Scenario({<<2, 1>>, <<3, 1>>, <<3, 2>>}, 0, 1, 0, 0, 1, 0)}

=============================================================================
