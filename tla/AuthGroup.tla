----------------------------- MODULE AuthGroup -----------------------------
(***************************************************************************)
(* Replicas of the group CRDT.  Every individual has a node with the       *)
(* groups processor: it changes groups locally and processes what it       *)
(* receives from others, in any order which respects dependencies.         *)
(***************************************************************************)
EXTENDS AuthCrdt, Sequences

CONSTANTS
  Individuals,
  Initial,         \* group -> its creator and first members, in the order of creation
  Actions,         \* what members may try to do
  MaxOperations    \* bound on the number of operations

VARIABLES
  network,   \* all published operations: identifier -> operation
  y,         \* the state every node has stored
  rejected   \* operations which a node failed to process

vars == <<network, y, rejected>>

\* The groups exist everywhere when the model starts.
Created(i, state) ==
  LET action == [type |-> "create", initial |-> Initial[i].members]
  IN  [author |-> Initial[i].creator, deps |-> Dependencies(state, Initial[i].group, action),
       group |-> Initial[i].group, action |-> action]

InitialState ==
  LET after[i \in 0 .. Len(Initial)] ==
        IF i = 0 THEN Default ELSE Process(after[i - 1], i, Created(i, after[i - 1]))
  IN  after[Len(Initial)]

Init ==
  /\ network = InitialState.operations
  /\ y = [r \in Individuals |-> InitialState]
  /\ rejected = [r \in Individuals |-> {}]

\* An operation which the own node accepts is sent to everybody.
Publish(r, action) ==
  LET id == Cardinality(DOMAIN network) + 1
      op == [author |-> r, deps |-> Dependencies(y[r], action.group, action.change),
             group |-> action.group, action |-> action.change]
  IN  /\ id <= MaxOperations
      /\ CanProcess(y[r], id, op)
      /\ network' = (id :> op) @@ network
      /\ y' = [y EXCEPT ![r] = Process(@, id, op)]
      /\ UNCHANGED rejected

\* The orderer hands out an operation after its dependencies, whether or not
\* they could be processed.
Receive(r, id) ==
  /\ id \notin DOMAIN y[r].operations \cup rejected[r]
  /\ network[id].deps \subseteq DOMAIN y[r].operations \cup rejected[r]
  /\ IF CanProcess(y[r], id, network[id])
     THEN y' = [y EXCEPT ![r] = Process(@, id, network[id])] /\ UNCHANGED rejected
     ELSE rejected' = [rejected EXCEPT ![r] = @ \cup {id}] /\ UNCHANGED y
  /\ UNCHANGED network

Next ==
  \E r \in Individuals :
    \/ \E action \in Actions : Publish(r, action)
    \/ \E id \in DOMAIN network : Receive(r, id)

Spec == Init /\ [][Next]_vars

---------------------------------------------------------------------------
Pairs(f) == {<<x, f[x]>> : x \in DOMAIN f}

Processed(r) == DOMAIN y[r].operations

\* Nodes which processed the same operations agree on the state of all groups,
\* in whatever order they came and however often the states were rebuilt.
Convergence ==
  \A r, s \in Individuals : Processed(r) = Processed(s) => CurrentState(y[r]) = CurrentState(y[s])

\* Everything the operation's author knew about.
Ancestors(id) ==
  Reach(UNION {{n} \X network[n].deps : n \in DOMAIN network}, {id})

\* Somebody nested the groups the other way round at the same time, and the
\* node came to know of that first.
NestedCrosswise(r, id) ==
  /\ network[id].action.type = "add"
  /\ \E n \in Processed(r) \ Ancestors(id) :
       /\ network[n].action.type = "add"
       /\ network[n].action.member = network[id].group
       /\ network[n].group = network[id].action.member

\* What a correct node publishes is accepted by all others, however long they
\* were apart and whatever its author lost in the meantime.  The one exception:
\* validate looks for cycles of nested groups in the current state of the
\* replica, so of two groups which were nested into each other concurrently every
\* node takes the one it meets first, and nothing of what builds on the other.
AcceptedEverywhere ==
  \A r \in Individuals : \A id \in rejected[r] :
    NestedCrosswise(r, id) \/ network[id].deps \cap rejected[r] # {}

\* A removal by a first manager whose rights nobody takes is final: concurrent
\* operations, additions of the same member included, do not undo it.
RemovalIsFinal ==
  \A r \in Individuals : \A id \in Processed(r) :
    LET op == network[id]
        later == {n \in Processed(r) : HasPath(y[r], id, n)}
    IN  /\ op.action.type = "remove"
        /\ \E i \in DOMAIN Initial : Initial[i].group = op.group /\ <<op.author, Manage>> \in Pairs(Initial[i].members)
        /\ ~\E n \in Processed(r) : network[n].group = op.group /\ Removes(network[n])
                                    /\ network[n].action.member = op.author
        /\ ~\E n \in later : network[n].group = op.group /\ network[n].action.type = "add"
                             /\ network[n].action.member = op.action.member
        => op.action.member \notin Active(CurrentState(y[r])[op.group])
=============================================================================
