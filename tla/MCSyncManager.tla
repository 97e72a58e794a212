---------------------------- MODULE MCSyncManager ----------------------------
(***************************************************************************)
(* Two users and two topics, so that topics are opened twice, re-opened    *)
(* while the old topic manager still drains, and heard of by the task of   *)
(* the other topic.  The nodes are not allowed on the second topic.  The   *)
(* buffers are as small as they can be to still be full or left behind.    *)
(***************************************************************************)
EXTENDS SyncManager

MCBlocked == {"t2"} \X {"n1", "n2"}

Topic(t) == [is |-> "topic", topic |-> t]

Done == [is |-> "done"]

MCHandshakes == {<<Topic("t1"), Done>>, <<Topic("t1")>>}

Plan(opens, nodes, neighbours, publishes, connects, ends, failures, crashes) ==
  [opens |-> opens, nodes |-> nodes, neighbours |-> neighbours, publishes |-> publishes,
   connects |-> connects, ends |-> ends, failures |-> failures, crashes |-> crashes]

OneTopic == <<<<"u1", "t1">>, <<"u2", "t1">>>>

TwoTopics == <<<<"u1", "t1">>, <<"u2", "t2">>>>

Again == <<<<"u1", "t1">>, <<"u1", "t1">>>>

\* A session whose channel is full; neighbours of which two tasks hear; a view
\* that changes around a close, and a task that lags behind; a node that fails
\* and leaves; remotes that connect, end and fail; a topic manager that fails.
MCPlans ==
  {Plan(OneTopic, {"n1"}, 1, 2, 0, 0, 0, 0),
   Plan(TwoTopics, {"n1"}, 2, 0, 0, 0, 0, 0),
   Plan(Again, {"n1", "n2"}, 2, 0, 0, 0, 0, 0),
   Plan(Again, {"n1"}, 3, 0, 0, 0, 0, 0),
   Plan(OneTopic, {"n1"}, 2, 0, 0, 0, 1, 0),
   Plan(OneTopic, {"n1"}, 0, 1, 1, 1, 1, 0),
   Plan(TwoTopics, {"n1"}, 1, 0, 0, 0, 0, 1)}
=============================================================================
