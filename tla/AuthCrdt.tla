------------------------------ MODULE AuthCrdt ------------------------------
(***************************************************************************)
(* The group CRDT: a graph of operations, the state of all groups after    *)
(* every operation, and the strong removal resolver which rebuilds these   *)
(* states when operations turn out to be concurrent.                       *)
(*                                                                         *)
(* The state of a replica is a record y:                                   *)
(*   operations      identifier -> operation, everything it processed      *)
(*   graph           node -> the nodes it can be reached from              *)
(*   states          identifier -> states of all groups after it           *)
(*   ignore, mutual_removes   the filter of the last rebuild               *)
(* An operation is [author, deps, group, action]; an action is [type,      *)
(* member, access] or [type, initial].  Identifiers are numbers, and an    *)
(* operation is newer than those it depends on.                            *)
(***************************************************************************)
EXTENDS AuthState, FiniteSetsExt

CONSTANT Groups   \* identifiers of groups, all other members are individuals

\* MAX_NESTED_DEPTH, 1000 in the code: as many levels as there are groups are
\* enough to see every member with its highest access.
MaxNestedDepth == Cardinality(Groups) + 1

Default == [operations |-> <<>>, graph |-> <<>>, states |-> <<>>, ignore |-> {}, mutual_removes |-> {}]

---------------------------------------------------------------------------
(* Graphs *)

RECURSIVE Reach(_, _)
\* What is reachable from the nodes S along the edges E.
Reach(E, S) ==
  LET T == S \cup {e[2] : e \in {f \in E : f[1] \in S}}
  IN  IF T = S THEN S ELSE Reach(E, T)

Nodes(y) == DOMAIN y.graph

HasPath(y, from, to) == from \in y.graph[to]

IsConcurrent(y, a, b) == a # b /\ ~HasPath(y, a, b) /\ ~HasPath(y, b, a)

\* The nodes which none of the nodes depends on directly.
Tips(y, nodes) == {n \in nodes : ~\E m \in nodes : n \in y.operations[m].deps}

\* concurrent_bubbles: the operations connected by concurrency.
Bubbles(y) ==
  LET C == {e \in Nodes(y) \X Nodes(y) : IsConcurrent(y, e[1], e[2])}
  IN  {Reach(C, {n}) : n \in {e[1] : e \in C}}

\* split_bubble, the part of it which is used.
ConcurrentIn(y, bubble, id) == {n \in bubble : IsConcurrent(y, id, n)}

TrimmedGraph(y, heads) ==
  LET keep == heads \cup UNION {y.graph[n] : n \in heads}
  IN  [n \in keep |-> y.graph[n]]

---------------------------------------------------------------------------
(* States and queries *)

\* merge_states: entries of all groups.
MergeGroups(gs1, gs2) ==
  [g \in DOMAIN gs1 \cup DOMAIN gs2 |->
     IF g \notin DOMAIN gs1 THEN gs2[g]
     ELSE IF g \notin DOMAIN gs2 THEN gs1[g]
     ELSE Merge(gs1[g], gs2[g])]

StateAt(y, ids) == FoldSet(MergeGroups, <<>>, {y.states[id] : id \in ids})

CurrentState(y) == StateAt(y, Tips(y, Nodes(y)))

\* members_inner: who is reached from a group at which level of nesting, with
\* the lowest access on the way there.
TraverseStates(gs, group) ==
  LET Direct(g) == IF g \in DOMAIN gs THEN Active(gs[g]) ELSE {}
      level[n \in 1 .. MaxNestedDepth] ==
        IF n = 1 THEN {<<m, gs[group][m].access>> : m \in Direct(group)}
        ELSE UNION {{<<m, Min({gs[p[1]][m].access, p[2]})>> : m \in Direct(p[1])} : p \in level[n - 1]}
  IN  UNION {level[n] : n \in 1 .. MaxNestedDepth}

Highest(reached) == {p \in reached : \A q \in reached : q[1] = p[1] => q[2] <= p[2]}

\* Members (individuals and groups) with their highest access.
TraverseMembers(gs, group) == Highest(TraverseStates(gs, group))

Members(y, group) == {p \in TraverseMembers(CurrentState(y), group) : p[1] \notin Groups}

SubGroups(gs, group) == {p[1] : p \in TraverseStates(gs, group)} \cap Groups

\* heads: the tips of the part of the graph which is about these groups and
\* what is nested in them.
Heads(y, groups) ==
  LET gs == CurrentState(y)
      wanted == groups \cup UNION {SubGroups(gs, g) : g \in groups}
  IN  Tips(y, {n \in Nodes(y) : y.operations[n].group \in wanted})

\* Groups whose members change when this group's members do.
AncestorGroups(y, group) ==
  LET gs == CurrentState(y)
  IN  {g \in DOMAIN gs : group \in SubGroups(gs, g)}

IsCreate(op) == op.action.type = "create"

RequiredGroups(op) ==
  {op.group} \cup (Groups \cap IF IsCreate(op) THEN DOMAIN op.action.initial ELSE {op.action.member})

\* would_create_cycle looks at the replica's current state, not at the state
\* the operation was made in.
WouldCreateCycle(y, op) ==
  /\ op.action.type = "add"
  /\ op.action.member \in Groups
  /\ LET gs == CurrentState(y)
         nested == {e \in Groups \X Groups : e[1] \in DOMAIN gs /\ e[2] \in Active(gs[e[1]])}
     IN  op.group \in Reach(nested, {op.action.member})

---------------------------------------------------------------------------
(* Applying operations *)

CanApply(s, op) ==
  LET action == op.action
  IN  CASE action.type = "create"  -> TRUE
        [] action.type = "add"     -> CanAdd(s, op.author, action.member)
        [] action.type = "remove"  -> CanRemove(s, op.author, action.member)
        [] action.type = "promote" -> CanPromote(s, op.author, action.member)
        [] action.type = "demote"  -> CanDemote(s, op.author, action.member)

Apply(s, op) ==
  LET action == op.action
  IN  CASE action.type = "create"  -> CreateState(action.initial)
        [] action.type = "add"     -> AddState(s, action.member, action.access)
        [] action.type = "remove"  -> RemoveState(s, action.member)
        [] action.type = "promote" -> PromoteState(s, action.member, action.access)
        [] action.type = "demote"  -> DemoteState(s, action.member, action.access)

\* The group's state the action is applied to: a new one if it is created.
StateOf(gs, op) == IF IsCreate(op) THEN <<>> ELSE gs[op.group]

\* apply_action: filtered and failing actions leave the group as it is.
ApplyAction(gs, id, op, filter) ==
  LET s == StateOf(gs, op)
  IN  (op.group :> IF id \in filter \/ ~CanApply(s, op) THEN s ELSE Apply(s, op)) @@ gs

---------------------------------------------------------------------------
(* Strong removal *)

Removes(op) == op.action.type = "remove" \/ (op.action.type = "demote" /\ op.action.access # Manage)

Delegates(op) == op.action.type \in {"add", "promote"} /\ op.action.access = Manage

\* The edges of the authority graph of a group, between nodes <<actor, id>>.
\* A path between two operations of a bubble never leaves the bubble.
AuthorityEdges(y, bubble, group) ==
  LET op(id) == y.operations[id]
      member(id) == op(id).action.member
      removals == {id \in bubble : op(id).group = group /\ Removes(op(id)) /\ op(id).author # member(id)}
      delegations == {id \in bubble : op(id).group = group /\ Delegates(op(id))}
      link(from, to) == <<<<member(from), from>>, <<op(to).author, to>>>>
      links(froms, tos, Linked(_, _)) ==
        {link(p[1], p[2]) : p \in {q \in froms \X tos : member(q[1]) = op(q[2]).author /\ Linked(q[1], q[2])}}
  IN  {<<<<op(id).author, id>>, <<member(id), id>>>> : id \in removals \cup delegations}
      \cup links(removals, removals, LAMBDA r, s : IsConcurrent(y, r, s))
      \cup links(removals, delegations, LAMBDA r, d : ~HasPath(y, d, r))
      \cup links(delegations, removals \cup delegations, LAMBDA d, x : HasPath(y, d, x))

\* The operations in a strongly connected component of two or more nodes.
StronglyConnected(edges, nodes) ==
  {n[2] : n \in {x \in nodes :
            \E z \in nodes \ {x} : z \in Reach(edges, {x}) /\ x \in Reach(edges, {z})}}

Cycles(y, bubble, group) ==
  LET Among(edges) == StronglyConnected(edges, {e[1] : e \in edges} \cup {e[2] : e \in edges})
  IN  Among(AuthorityEdges(y, bubble, group))

\* Mutant: members who are added concurrently to their removal stay.
FilterAuthorsOnly(y, bubble) ==
  UNION {{c \in ConcurrentIn(y, bubble, id) :
            /\ y.operations[c].group = y.operations[id].group
            /\ y.operations[c].author = y.operations[id].action.member} :
         id \in {n \in bubble : Removes(y.operations[n])}}

\* compute_filter: concurrent operations of a removed member, and concurrent
\* additions of it.
Filter(y, bubble) ==
  UNION {LET op == y.operations[id] IN
         {c \in ConcurrentIn(y, bubble, id) :
            LET other == y.operations[c] IN
            /\ other.group = op.group
            /\ \/ other.author = op.action.member
               \/ other.action.type = "add" /\ other.action.member = op.action.member} :
         id \in {n \in bubble : Removes(y.operations[n])}}

MutualRemoves(y, bubble) ==
  {id \in bubble : Removes(y.operations[id]) /\ id \in Cycles(y, bubble, y.operations[id].group)}

\* StrongRemove::process.  Bubbles are totally ordered by the graph: whatever
\* topological order is walked, an operation is applied with the filter of its
\* own bubble and after everything it depends on, and the filter which is kept
\* is the one of the last bubble.
RebuildWith(y, bubbles, filter, mutual) ==
  LET state[id \in Nodes(y)] ==
        LET op == y.operations[id]
            Applied(gs) == IF id \in mutual
                           THEN [gs EXCEPT ![op.group] = RemoveUnsafe(@, op.action.member)]
                           ELSE ApplyAction(gs, id, op, filter)
        IN  Applied(FoldSet(MergeGroups, <<>>, {state[d] : d \in op.deps}))
      last == UNION {b \in bubbles : \A c \in bubbles \ {b} : \E n \in b, m \in c : HasPath(y, m, n)}
  IN  [y EXCEPT !.states = state @@ @, !.ignore = filter \cap last, !.mutual_removes = mutual \cap last]

Rebuild(y) ==
  LET Within(bubbles) == RebuildWith(y, bubbles, UNION {Filter(y, b) : b \in bubbles},
                                     UNION {MutualRemoves(y, b) : b \in bubbles})
  IN  Within(Bubbles(y))

RebuildRequired(y, op) == Heads(y, RequiredGroups(op)) # op.deps

RebuildAt(y, heads) == Rebuild([y EXCEPT !.graph = TrimmedGraph(y, heads)])

\* Mutant: the rights are checked in the current state of the replica.
ValidateNow(y, id, op) ==
  /\ id \notin DOMAIN y.operations
  /\ ~(op.action.type \in {"add", "promote"} /\ op.action.member \in Groups /\ op.action.access = Manage)
  /\ ~WouldCreateCycle(y, op)
  /\ CanApply(StateOf(CurrentState(y), op), op)

\* validate: the author had the rights at the point of history it refers to.
Validate(y, id, op) ==
  /\ id \notin DOMAIN y.operations
  /\ ~(op.action.type \in {"add", "promote"} /\ op.action.member \in Groups /\ op.action.access = Manage)
  /\ ~WouldCreateCycle(y, op)
  /\ LET gs == CurrentState(IF RebuildRequired(y, op) THEN RebuildAt(y, op.deps) ELSE y)
     IN  CanApply(StateOf(gs, op), op)

AddOperation(y, id, op) ==
  [y EXCEPT !.graph = (id :> op.deps \cup UNION {@[d] : d \in op.deps}) @@ @, !.operations = (id :> op) @@ @]

CanProcess(y, id, op) == op.deps \subseteq DOMAIN y.operations /\ Validate(y, id, op)

\* Mutant: only a removal has the states rebuilt.
ProcessRebuildsRemovals(y, id, op) ==
  LET added == AddOperation(y, id, op)
  IN  IF RebuildRequired(y, op) /\ Removes(op) THEN Rebuild(added)
      ELSE [added EXCEPT !.states = (id :> ApplyAction(StateAt(y, op.deps), id, op, y.ignore)) @@ @]

\* GroupCrdt::process of an operation which passes validation.
Process(y, id, op) ==
  LET added == AddOperation(y, id, op)
  IN  IF RebuildRequired(y, op) THEN Rebuild(added)
      ELSE [added EXCEPT !.states = (id :> ApplyAction(StateAt(y, op.deps), id, op, y.ignore)) @@ @]

\* The members of a group at a point of its history.
MembersAt(y, heads, group) ==
  Members(IF Heads(y, {group}) # heads THEN RebuildAt(y, heads) ELSE y, group)

\* GroupCrdt::heads: the dependencies of a new operation.
Dependencies(y, group, action) ==
  Heads(y, RequiredGroups([group |-> group, action |-> action]))
=============================================================================
