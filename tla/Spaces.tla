------------------------------- MODULE Spaces -------------------------------
(***************************************************************************)
(* Encrypted spaces.  All nodes share a global state of groups; a space    *)
(* has its own copy of it, built from the "pointers" to group operations   *)
(* which its members publish into the space together with the secrets      *)
(* that a change of members calls for.  A member who sees that the copy is *)
(* behind the global state repairs the space, by publishing the pointers   *)
(* which are missing.                                                      *)
(*                                                                         *)
(* `network` is the sequence of everything published: a message is named   *)
(* by its position, and an operation on a group by the message it is in.   *)
(* Every node handles every message, in any order in which a message comes *)
(* after its dependencies.  Three threads of a node change its states: the *)
(* pipeline which handles messages, the repair task, and the application's *)
(* calls.  Each of them reads the states at one moment, computes, writes   *)
(* them back as a whole and then acts on the events; nothing excludes the  *)
(* others in between.  The state of a node is                              *)
(*   groups            the global groups                                   *)
(*   space             the stored state of the one space, {} or {[groups,  *)
(*                     enc, removed]}                                      *)
(*   registry          the members whose key bundle it knows               *)
(*   handled, failed   messages, those among them which were an error      *)
(*   read              messages whose plaintext the application received   *)
(*   told              members of every group, as the events of the group's *)
(*                     handle gave them last                               *)
(*   associated        members whose key bundles are synced with the space *)
(*   blocked           members who may not sync the space with this node   *)
(***************************************************************************)
EXTENDS AuthCrdt, DataScheme

CONSTANTS
  Replicas,   \* the members which are simulated
  Space,      \* the group of the space's members
  Registered, \* members whose key bundle every node knows from the start
  Plans       \* what may happen, as records
              \*   setup   the calls which were made, and fully handled, before
              \*   online  the members which go on after that
              \*   calls   the calls which they may make, each of them once
              \*   max     how many of them are made (a bound)
              \*   lates   how many steps are overtaken by others (a bound)

VARIABLES
  network,
  node,
  called,     \* the calls which were made
  waiting,    \* node -> the call which was checked but not performed yet
  late,       \* node -> the thread which is not finished while others go on
  lates,      \* how many threads were late
  raced,      \* history: node -> what a late thread did after another one did it
  plan        \* the chosen plan

vars == <<network, node, called, waiting, late, lates, raced, plan>>

LOCAL SE == INSTANCE SequencesExt

-----------------------------------------------------------------------------
(* Members of the space *)

Access(members, m) == {p[2] : p \in {q \in members : q[1] = m}}

SecretMembers(y) == {p[1] : p \in {q \in Members(y, Space) : q[2] # Pull}}

\* Direct members, individuals and groups.
Actors(y, group) ==
  LET gs == CurrentState(y)
  IN  IF group \in DOMAIN gs THEN {<<m, gs[group][m].access>> : m \in Active(gs[group])} ELSE {}

IsWriter(members, m) == \E access \in Access(members, m) : access >= Write

IsManagerOf(members, m) == Manage \in Access(members, m)

CanAddMember(members, me, m) == IsManagerOf(members, me) /\ Access(members, m) = {}

CanRemoveMember(members, me, m) == IsManagerOf(members, me) /\ Access(members, m) # {}

CanPromoteMember(members, me, m, access) ==
  CanRemoveMember(members, me, m) /\ \A current \in Access(members, m) : current < access

CanDemoteMember(members, me, m, access) ==
  CanRemoveMember(members, me, m) /\ \A current \in Access(members, m) : current > access

\* Whether a member had the right to write at the point of history it names;
\* what is not known of this point is ignored.
VerifyClaimedWriteAccess(y, author, proof) ==
  IsWriter(MembersAt(y, proof \cap DOMAIN y.operations, Space), author)

-----------------------------------------------------------------------------
(* Events *)

Ids(members) == {p[1] : p \in members}

AddedMembers(before, after) == {p \in after : Access(before, p[1]) = {}}

RemovedMembers(before, after) == {p \in before : Access(after, p[1]) = {}}

PromotedMembers(before, after) == {p \in after : \E access \in Access(before, p[1]) : p[2] > access}

DemotedMembers(before, after) == {p \in after : \E access \in Access(before, p[1]) : p[2] < access}

\* Mutant: only groups which the operation newly nests the group in.
NewAncestorsOnly(y, group, ancestors) ==
  [members |-> Members(y, group),
   effected |-> [g \in AncestorGroups(y, group) \ ancestors |-> Members(y, g)]]

\* The members of the group which an operation changed and, in `effected`, of
\* all groups it is nested in, before or after the operation.
GroupsContext(y, group, ancestors) ==
  [members |-> Members(y, group),
   effected |-> [g \in AncestorGroups(y, group) \cup ancestors |-> Members(y, g)]]

\* Which change was made is left out: nobody reads it.
GroupEvent(group, context) == [group |-> group, context |-> context]

ToGroupsEvent(y, op, ancestors) == GroupEvent(op.group, GroupsContext(y, op.group, ancestors))

EffectedGroup(event, group) == group \in DOMAIN event.context.effected

\* What the handle of a group tells of an event: nothing if it is about
\* another group, else the members the group has now.
ToGroupEvent(group, event) ==
  IF group = event.group THEN {event.context.members}
  ELSE IF EffectedGroup(event, group) THEN {event.context.effected[group]}
  ELSE {}

Tell(told, event) ==
  [g \in Groups |-> LET members == ToGroupEvent(g, event)
                   IN  IF members = {} THEN told[g] ELSE CHOOSE m \in members : TRUE]

SpaceEvent(type, changed, members) == [type |-> type, changed |-> changed, members |-> members]

ToSpaceEvent(type, before, after) ==
  LET changed == CASE type = "create"  -> after
                   [] type = "add"     -> AddedMembers(before, after)
                   [] type = "remove"  -> RemovedMembers(before, after)
                   [] type = "promote" -> PromotedMembers(before, after)
                   [] type = "demote"  -> DemotedMembers(before, after)
  IN  SpaceEvent(type, changed, after)

Ejected == SpaceEvent("ejected", {}, {})

\* Members are compared as sets.  The code compares lists in random order, and
\* may raise an event although nothing changed: it has the current members
\* associated and allowed once more.
GenerateSpaceEvents(me, type, before, after) ==
  IF before = after \/ (Access(before, me) = {} /\ Access(after, me) = {})
  THEN <<>>
  ELSE <<ToSpaceEvent(type, before, after)>> \o IF Access(after, me) = {} THEN <<Ejected>> ELSE <<>>

\* All current members: we might not have seen all events from the beginning.
MembersToAssociate(event) == Ids(event.members)

AssociateMembers(associated, events) ==
  associated \cup UNION {MembersToAssociate(events[i]) :
                          i \in {j \in DOMAIN events : events[j].type \in {"create", "add"}}}

TopicBlock(blocked, members) == blocked \cup Ids(members)

TopicAllow(blocked, members) == blocked \ Ids(members)

\* update_authoriser, which stops at the first event of another kind.
UpdateAuthoriser(blocked, events) ==
  LET others == {i \in DOMAIN events : events[i].type \notin {"create", "add", "remove"}}
      heard == SubSeq(events, 1, IF others = {} THEN Len(events) ELSE Min(others) - 1)
      update(b, e) == TopicAllow(IF e.type = "remove" THEN TopicBlock(b, e.changed) ELSE b, e.members)
  IN  SE!FoldLeft(update, blocked, heard)

-----------------------------------------------------------------------------
(* Messages *)

MessageDependencies(m) ==
  CASE m.type = "member"      -> {}
    [] m.type = "group"       -> m.op.deps
    [] m.type = "membership"  -> m.deps \cup {m.auth}
    [] m.type = "application" -> m.deps

GroupMessage(op) == [type |-> "group", author |-> op.author, op |-> op]

MembershipMessage(author, deps, auth, directs) ==
  [type |-> "membership", author |-> author, deps |-> deps, auth |-> auth, directs |-> directs]

\* `audience` is no part of the message: the members it was written for.
ApplicationMessage(author, deps, proof, secret, audience) ==
  [type |-> "application", author |-> author, deps |-> deps, proof |-> proof,
   secret |-> secret, audience |-> audience]

\* The k-th secret made for a message.
SecretId(id, k) == 10 * id + k

\* from_membership: we take a change which has a direct message for us as
\* our own addition.
FromMembership(id, m, me, op, current, next) ==
  LET type == CASE op.action.type = "create" -> "create"
                [] op.action.type \in {"add", "promote"} -> "add"
                [] op.action.type \in {"remove", "demote"} -> "remove"
      member == IF type = "add" \/ (type = "remove" /\ me \in current \ next) THEN {me} ELSE {}
  IN  [id |-> id, author |-> m.author, type |-> type, initial |-> next,
       member |-> IF member = {} THEN None ELSE me, directs |-> m.directs]

FromApplication(id, m) ==
  [id |-> id, author |-> m.author, type |-> "application", secret |-> m.secret]

-----------------------------------------------------------------------------
(* The state of a space *)

InitSpace(me) == [groups |-> Default, enc |-> InitEncryption(me), removed |-> {}]

\* assemble_from_store: the members of the encryption group are not stored,
\* the key bundles are those known now.
State(n, y) ==
  LET space == IF y.space = {} THEN InitSpace(n) ELSE CHOOSE s \in y.space : TRUE
  IN  [space EXCEPT !.enc.pki = y.registry, !.enc.dgm = {}]

\* What is stored of a space.
Stored(space) == [space EXCEPT !.enc.pki = {}, !.enc.dgm = {}, !.enc.directs = <<>>]

\* What a step of a node computed from the states it read.  It replaces the
\* states as a whole, and the events have the rest of the node follow: told,
\* associated (for events of a change, but not of a repair) and blocked.
Nothing ==
  [groups |-> {}, space |-> {}, told |-> <<>>, events |-> <<>>, associate |-> FALSE,
   registry |-> {}, read |-> {}, handled |-> {}, failed |-> {}]

Persist(y, out) ==
  [y EXCEPT !.groups = IF out.groups = {} THEN @ ELSE CHOOSE g \in out.groups : TRUE,
            !.space = IF out.space = {} THEN @ ELSE out.space,
            !.told = SE!FoldLeft(Tell, @, out.told),
            !.associated = IF out.associate THEN AssociateMembers(@, out.events) ELSE @,
            !.blocked = UpdateAuthoriser(@, out.events),
            !.registry = @ \cup out.registry, !.read = @ \cup out.read,
            !.handled = @ \cup out.handled, !.failed = @ \cup out.failed]

AddedSecretMembers(before, after) == after \ before

RemovedSecretMembers(before, after) == before \ after

\* What a change of the members who can read asks of the encryption: every
\* added member is welcomed, every removed one makes for a new secret.
ApplySecretMemberChange(enc, op, id, current, next) ==
  LET e == [enc EXCEPT !.dgm = next]
      removed == SE!SetToSeq(RemovedSecretMembers(current, next))
  IN  CASE op.action.type = "create" -> CreateGroup(e, next, SecretId(id, 1))
        [] op.action.type \in {"add", "promote"} ->
             FoldSet(LAMBDA m, z : AddMember(z, m), e, AddedSecretMembers(current, next))
        [] op.action.type \in {"remove", "demote"} ->
             SE!FoldLeft(LAMBDA z, k : RemoveMember(z, removed[k], SecretId(id, k)),
                         e, [k \in 1 .. Len(removed) |-> k])

\* A change which leaves the readers as they are asks nothing.
SecretMemberChange(enc, op, id, current, next) ==
  IF current = next THEN enc ELSE ApplySecretMemberChange(enc, op, id, current, next)

\* The pointer to an operation is published, with the direct messages.
PublishPointer(s, n, auth, op, groups, enc) ==
  IF enc.error # {} THEN [s EXCEPT !.error = enc.error]
  ELSE [s EXCEPT
          !.net = Append(@, MembershipMessage(n, enc.heads, auth, enc.directs)),
          !.space = [groups |-> groups,
                     enc |-> [AddDependency(enc, Len(s.net) + 1, enc.heads) EXCEPT !.directs = <<>>],
                     removed |-> s.space.removed],
          !.events = @ \o GenerateSpaceEvents(n, op.action.type, Members(s.space.groups, Space),
                                              Members(groups, Space))]

\* Mutant: the copy becomes what the global groups are.
ProcessGlobally(s, n, auth) ==
  LET op == s.net[auth].op
  IN  IF s.error # {} THEN s
      ELSE PublishPointer(s, n, auth, op, s.groups,
                          SecretMemberChange(s.space.enc, op, Len(s.net) + 1,
                                             SecretMembers(s.space.groups), SecretMembers(s.groups)))

\* A local sequence of steps of n is [net, groups, space, told, events, error].
\* What was published stays published when a later step fails.
ProcessAuthMessage(s, n, auth) ==
  LET op == s.net[auth].op
      Changed(groups) ==
        PublishPointer(s, n, auth, op, groups,
                       SecretMemberChange(s.space.enc, op, Len(s.net) + 1,
                                          SecretMembers(s.space.groups), SecretMembers(groups)))
  IN  IF s.error # {} THEN s
      ELSE IF ~CanProcess(s.space.groups, auth, op) THEN [s EXCEPT !.error = {"AuthGroup"}]
      ELSE Changed(Process(s.space.groups, auth, op))

-----------------------------------------------------------------------------
(* Repair *)

AllGroups(y) == DOMAIN CurrentState(y)


SpaceRepairRequired(space, groups) ==
  Heads(space.groups, AllGroups(groups)) # Heads(groups, AllGroups(groups))

\* Members who can read may repair.
CanRepair(n, space) == \E access \in Access(Members(space.groups, Space), n) : access >= Read

Missing(space, groups) == DOMAIN groups.operations \ DOMAIN space.groups.operations

\* Operations in an order in which they come after what they depend on.
Toposort(ids) == SE!SetToSortSeq(ids, <)

\* What n published itself while it changed its states is known to it then.
Published(net, s) == Len(net) + 1 .. Len(s.net)


\* The states which a repair, a change or the creation of the space stores.
Commit(net, s, kind) ==
  IF s.error # {} THEN Nothing
  ELSE [Nothing EXCEPT !.groups = IF kind = "repair" THEN {} ELSE {s.groups},
                       !.space = {Stored(s.space)}, !.told = s.told, !.events = s.events,
                       !.associate = (kind = "change"), !.handled = Published(net, s)]

\* The result of a repair, or of a call: [net, out, error].
Result(net, s, kind) == [net |-> s.net, out |-> Commit(net, s, kind), error |-> s.error]

Unwritten(s) == [net |-> s.net, out |-> Nothing, error |-> s.error]

Thread(n, net, y) ==
  [net |-> net, groups |-> y.groups, space |-> State(n, y), told |-> <<>>, events |-> <<>>, error |-> {}]

Repair(n, net, y) ==
  LET s == Thread(n, net, y)
  IN  IF y.space # {} /\ SpaceRepairRequired(s.space, s.groups) /\ CanRepair(n, s.space)
      THEN Result(net, SE!FoldLeft(LAMBDA t, id : ProcessAuthMessage(t, n, id),
                                   s, Toposort(Missing(s.space, s.groups))), "repair")
      ELSE Unwritten(s)

-----------------------------------------------------------------------------
(* Calls of the application *)

Operation(y, n, group, action) ==
  [author |-> n, deps |-> Dependencies(y, group, action), group |-> group, action |-> action]

\* What an operation on the global groups changes, and tells.
ProcessGroups(s, op, groups) ==
  [s EXCEPT !.groups = groups,
            !.told = Append(@, ToGroupsEvent(groups, op, AncestorGroups(s.groups, op.group)))]

PublishOperation(s, op) ==
  LET id == Len(s.net) + 1
      published == [s EXCEPT !.net = Append(@, GroupMessage(op))]
  IN  IF CanProcess(s.groups, id, op) THEN ProcessGroups(published, op, Process(s.groups, id, op))
      ELSE [published EXCEPT !.error = {"AuthGroup"}]

\* process_local_control: an operation on the global groups.
ProcessLocalControl(s, n, group, action) ==
  PublishOperation(s, Operation(s.groups, n, group, action))

\* The space points at the operation which was published last.
PointAtLast(s, n) == ProcessAuthMessage(s, n, Len(s.net))

Allowed(members, me, action) ==
  CASE action.type = "add"     -> CanAddMember(members, me, action.member)
    [] action.type = "remove"  -> CanRemoveMember(members, me, action.member)
    [] action.type = "promote" -> CanPromoteMember(members, me, action.member, action.access)
    [] action.type = "demote"  -> CanDemoteMember(members, me, action.member, action.access)

\* Space::create: the copy of the groups starts with everything the creator
\* knows.  Pointers are published for groups among the initial members only,
\* and the creator is the only one.
CopyGroups(s) == [s EXCEPT !.space.groups = s.groups]

CreateByMe(n) == [type |-> "create", initial |-> (n :> Manage)]

\* Space::publish.
PublishData(s, n) ==
  IF ~CanSendData(s.space.enc) THEN [s EXCEPT !.error = {"NotWelcomed"}]
  ELSE [s EXCEPT !.net = Append(@,
          ApplicationMessage(n, s.space.enc.heads, Heads(s.space.groups, {Space}),
                             SecretToSend(s.space.enc), SecretMembers(s.space.groups)))]

\* A call, after its checks and its repair.  New states of a call on a group and
\* of publish are not stored: the node handles its own message like any other.
Call(net, y, c) ==
  LET n == c.node
      s == Thread(n, net, y)
  IN  CASE c.call = "space"   -> Result(net, PointAtLast(ProcessLocalControl(s, n, Space, c.action), n), "change")
        [] c.call = "create"  -> Result(net, PointAtLast(ProcessLocalControl(CopyGroups(s), n, Space, CreateByMe(n)), n), "create")
        [] c.call = "publish" -> Unwritten(PublishData(s, n))
        [] c.call = "group"   -> Unwritten(ProcessLocalControl(s, n, c.group, c.action))
        [] c.call = "member"  -> Unwritten([s EXCEPT !.net = Append(@, [type |-> "member", author |-> n])])

\* The calls which have the space repaired first.
RepairsFirst(c) == c.call \in {"space", "publish"}

Known(y, m) == m \in Groups => m \in AllGroups(y.groups)

\* The checks before a call.
MayCall(y, c) ==
  CASE c.call = "space"   -> /\ y.space # {}
                             /\ Known(y, c.action.member)
                             /\ Allowed(Actors(State(c.node, y).groups, Space), c.node, c.action)
    [] c.call = "publish" -> y.space # {} /\ IsWriter(Actors(State(c.node, y).groups, Space), c.node)
    [] c.call = "group"   -> \/ c.action.type = "create"
                             \/ Allowed(Actors(y.groups, c.group), c.node, c.action)
    [] c.call = "create"  -> y.space = {}
    [] c.call = "member"  -> TRUE

-----------------------------------------------------------------------------
(* Handling of messages: {outcome}, or {} for an error *)

\* Mutant: a change which another pointer brought already is skipped.
IgnoreDuplicates(space, id, m) ==
  HasSeen(space.enc, id) \/ m.auth \in DOMAIN space.groups.operations

\* Only messages which were processed before are ignored as a whole.
Ignore(space, id, m) == HasSeen(space.enc, id)

\* A space which is not stored yet is made by the message which creates it only.
SpaceUnknown(y, op) == y.space = {} /\ ~IsCreate(op)

\* The members who can read are known to the encryption before it receives.
ReceiveChange(enc, message, mine) == IF mine THEN ReceiveMessage(enc, message) ELSE enc

EverRemoved(space, events) ==
  space.removed \cup UNION {Ids(events[i].changed) : i \in {j \in DOMAIN events : events[j].type = "remove"}}

StoreMembership(id, m, space, groups, enc, events, read) ==
  IF enc.error # {} THEN {}
  ELSE {[Nothing EXCEPT
           !.space = {Stored([groups |-> groups, enc |-> AddDependency(enc, id, m.deps),
                              removed |-> EverRemoved(space, events)])},
           !.events = events, !.associate = TRUE, !.read = read]}

ReceiveMembership(n, id, m, op, space, groups) ==
  LET mine == \E i \in 1 .. Len(m.directs) : m.directs[i].recipient = n
      Received(message, aware) ==
        StoreMembership(id, m, space, groups, ReceiveChange(aware, message, mine),
                        GenerateSpaceEvents(n, op.action.type, Members(space.groups, Space),
                                            Members(groups, Space)),
                        IF mine THEN Decrypted(aware, message) ELSE {})
  IN  Received(FromMembership(id, m, n, op, SecretMembers(space.groups), SecretMembers(groups)),
               [space.enc EXCEPT !.dgm = SecretMembers(groups)])

\* handle_membership_message.
HandleMembership(y, n, net, id) ==
  LET m == net[id]
      op == net[m.auth].op
      In(space) ==
        IF Ignore(space, id, m) THEN {Nothing}
        ELSE IF m.auth \in DOMAIN space.groups.operations
        THEN ReceiveMembership(n, id, m, op, space, space.groups)
        ELSE IF ~CanProcess(space.groups, m.auth, op) THEN {}
        ELSE ReceiveMembership(n, id, m, op, space, Process(space.groups, m.auth, op))
  IN  IF SpaceUnknown(y, op) THEN {} ELSE In(State(n, y))

StoreApplication(id, m, space, enc, read) ==
  IF enc.error # {} THEN {}
  ELSE {[Nothing EXCEPT !.space = {Stored([space EXCEPT !.enc = AddDependency(enc, id, m.deps)])},
                        !.read = read]}

\* handle_application_message, and the processor which keeps plaintext of
\* authors who meanwhile lost the right to write from the application.
HandleApplication(y, n, net, id) ==
  LET m == net[id]
      message == FromApplication(id, m)
      In(space) ==
        IF ~VerifyClaimedWriteAccess(space.groups, m.author, m.proof) THEN {}
        ELSE StoreApplication(id, m, space, ReceiveMessage(space.enc, message),
                              IF IsWriter(Members(space.groups, Space), m.author)
                              THEN Decrypted(space.enc, message) ELSE {})
  IN  IF y.space = {} THEN {} ELSE In(State(n, y))

\* Group::process.
HandleGroup(y, net, id) ==
  LET op == net[id].op
      Changed(groups) ==
        [Nothing EXCEPT !.groups = {groups},
           !.told = <<ToGroupsEvent(groups, op, AncestorGroups(y.groups, op.group))>>]
  IN  IF id \in DOMAIN y.groups.operations THEN {Nothing}
      ELSE IF ~CanProcess(y.groups, id, op) THEN {}
      ELSE {Changed(Process(y.groups, id, op))}

Handle(y, n, net, id) ==
  LET m == net[id]
      Handled(results) ==
        [IF results = {} THEN [Nothing EXCEPT !.failed = {id}] ELSE CHOOSE r \in results : TRUE
         EXCEPT !.handled = {id}]
  IN  Handled(CASE m.type = "member"      -> {[Nothing EXCEPT !.registry = {m.author}]}
                [] m.type = "group"       -> HandleGroup(y, net, id)
                [] m.type = "membership"  -> HandleMembership(y, n, net, id)
                [] m.type = "application" -> HandleApplication(y, n, net, id))

-----------------------------------------------------------------------------
(* Behaviour *)

\* Everybody follows the space, and has their own log associated with it.
InitNode(n) ==
  [groups |-> Default, space |-> {}, registry |-> Registered, handled |-> {}, failed |-> {}, read |-> {},
   told |-> [g \in Groups |-> {}], associated |-> {n}, blocked |-> {}]

\* One step after the other, of one node.
PersistHandled(y, n, net, id) ==
  LET Persisted(out) == Persist(y, out) IN Persisted(Handle(y, n, net, id))

HandleAll(y, n, net) ==
  SE!FoldLeft(LAMBDA z, id : PersistHandled(z, n, net, id), y, Toposort(DOMAIN net \ y.handled))

Init ==
  /\ plan \in Plans
  /\ network = <<>>
  /\ node = [n \in Replicas |-> InitNode(n)]
  /\ called = {}
  /\ waiting = [n \in Replicas |-> {}]
  /\ late = [n \in Replicas |-> {}]
  /\ lates = 0
  /\ raced = [n \in Replicas |-> {}]

\* A call of the setup, after which every node handles all messages.
SetUp ==
  LET c == Head(plan.setup)
      n == c.node
      After(net, y) ==
        /\ network' = net
        /\ node' = [m \in Replicas |-> HandleAll(IF m = n THEN y ELSE node[m], m, net)]
      Performed(y, r) == After(r.net, Persist(y, r.out))
      Called(y, net) == Performed(y, Call(net, y, c))
      Requested(r) == Called(Persist(node[n], r.out), r.net)
  IN  /\ plan.setup # <<>>
      /\ plan' = [plan EXCEPT !.setup = Tail(@)]
      /\ Requested(IF RepairsFirst(c) THEN Repair(n, network, node[n])
                   ELSE Unwritten(Thread(n, network, node[n])))
      /\ UNCHANGED <<called, waiting, late, lates, raced>>

SpaceOf(n) == State(n, node[n])

\* The groups of a stored space.
GroupsIn(space) == {s.groups : s \in space}

\* A thread is [kind, out, awaited, groups, space]: what it has still to do, and
\* the states which it knows of.
LateThread(kind, out, awaited, y) ==
  [kind |-> kind, out |-> out, awaited |-> awaited, groups |-> y.groups, space |-> y.space]

Runs(n, kind) == ~\E t \in late[n] : t.kind = kind

\* Reading, computing and storing take a transaction each, the events are acted
\* upon after that, and other threads of the node may come in between: a step
\* of a thread is either finished before any other thread of the node takes
\* one, or it stores its states late, or only acts on the events late.  While
\* another thread is late, own messages pass the pipeline some time later.
Finish(n, kind, out, awaited) ==
  \/ /\ node' = [node EXCEPT ![n] =
                  Persist(@, IF late[n] = {} \/ kind = "pipeline" THEN out ELSE [out EXCEPT !.handled = {}])]
     /\ UNCHANGED <<late, lates>>
  \/ /\ late[n] = {} /\ lates < plan.lates
     /\ out.groups \cup out.space # {}
     /\ lates' = lates + 1
     /\ \/ /\ late' = [late EXCEPT ![n] = {LateThread(kind, out, awaited, node[n])}]
           /\ UNCHANGED node
        \/ /\ out.told \o out.events # <<>>
           /\ node' = [node EXCEPT ![n] = Persist(@, [out EXCEPT !.told = <<>>, !.events = <<>>])]
           /\ late' = [late EXCEPT ![n] =
                          {LateThread(kind, [Nothing EXCEPT !.told = out.told, !.events = out.events,
                                                            !.associate = out.associate],
                                      awaited, node'[n])}]

\* Which of its effects a late thread has after those of another thread.
Races(t, y) ==
  {x \in {"groups", "space", "told", "events"} :
     CASE x = "groups" -> t.out.groups # {} /\ t.groups # y.groups
       [] x = "space"  -> t.out.space # {} /\ t.space # y.space
       [] x = "told"   -> t.out.told # <<>> /\ t.groups # y.groups
       [] x = "events" -> t.out.events # <<>> /\ GroupsIn(t.space) # GroupsIn(y.space)}

FinishLate(n) ==
  \E t \in late[n] :
    /\ node' = [node EXCEPT ![n] = Persist(@, t.out)]
    /\ raced' = [raced EXCEPT ![n] = @ \cup Races(t, node[n])]
    /\ late' = [late EXCEPT ![n] = {}]
    /\ UNCHANGED <<network, called, waiting, lates, plan>>

\* A call is checked.
Invoke(c) ==
  /\ plan.setup = <<>>
  /\ c \notin called /\ Cardinality(called) < plan.max
  /\ waiting[c.node] = {}
  /\ MayCall(node[c.node], c)
  /\ called' = called \cup {c}
  /\ waiting' = [waiting EXCEPT ![c.node] = {[call |-> c, repair |-> RepairsFirst(c)]}]
  /\ UNCHANGED <<network, node, late, lates, raced, plan>>

\* The repair task of a node, on its timer or for a call which waits for it.  If
\* the repair fails, the call does.
RepairSpace(n) ==
  LET requests == {w \in waiting[n] : w.repair}
  IN  /\ plan.setup = <<>> /\ Runs(n, "repair")
      /\ requests # {} \/ (node[n].space # {} /\ Missing(SpaceOf(n), node[n].groups) # {})
      /\ \E r \in {Repair(n, network, node[n])} :
            /\ requests # {} \/ r.out # Nothing
            /\ network' = r.net
            /\ Finish(n, "repair", r.out, requests # {})
            /\ waiting' = IF requests = {} THEN waiting
                          ELSE [waiting EXCEPT ![n] = {[w EXCEPT !.repair = FALSE] :
                                                         w \in IF r.error = {} THEN requests ELSE {}}]
      /\ UNCHANGED <<called, raced, plan>>

Perform(n) ==
  \E w \in waiting[n] :
    /\ ~w.repair /\ Runs(n, "call")
    /\ ~\E t \in late[n] : t.awaited
    /\ \E r \in {Call(network, node[n], w.call)} :
          /\ network' = r.net
          /\ Finish(n, "call", r.out, FALSE)
    /\ waiting' = [waiting EXCEPT ![n] = {}]
    /\ UNCHANGED <<called, raced, plan>>

\* A message which is not handled, and is not one of a thread which has not
\* stored its states yet.
Ready(n, id) ==
  /\ id \notin node[n].handled
  /\ ~\E t \in late[n] : id \in t.out.handled
  /\ MessageDependencies(network[id]) \subseteq node[n].handled

Deliver(n) ==
  \E id \in DOMAIN network :
    /\ Runs(n, "pipeline")
    /\ Ready(n, id)
    /\ \E out \in {Handle(node[n], n, network, id)} : Finish(n, "pipeline", out, FALSE)
    /\ UNCHANGED <<network, called, waiting, raced, plan>>

Next ==
  \/ SetUp
  \/ \E c \in plan.calls : Invoke(c)
  \/ \E n \in plan.online : RepairSpace(n)
  \/ \E n \in plan.online : Perform(n)
  \/ \E n \in plan.online : Deliver(n)
  \/ \E n \in plan.online : FinishLate(n)

Spec == Init /\ [][Next]_vars

-----------------------------------------------------------------------------
(* Properties *)

SecretsOf(n) == DOMAIN SpaceOf(n).enc.secrets
Welcomed(n) == SpaceOf(n).enc.welcomed
MembersOf(n) == Members(SpaceOf(n).groups, Space)

MembershipMessages == {id \in DOMAIN network : network[id].type = "membership"}

\* The secrets which a membership message carries for a member of the encryption
\* group have arrived once the member handled it: no two-party session gets out
\* of step and nothing of a message is passed over, whoever changes the members
\* at the same time, and however often the same change is pointed at
\* (process_ready, handle_membership_message).  Two limits are the code's own:
\* of several direct messages for one member process_ready takes the first, so
\* when one operation removes several readers only the first of the new secrets
\* arrives; and once a thread of either of the two nodes wrote a space state over
\* a newer one, which repair_space, process_change and the spaces processor do
\* not exclude, its secrets and its two-party sessions may be those of the past.
SecretsArrive ==
  \A n \in Replicas : Welcomed(n) =>
    \A id \in MembershipMessages \cap node[n].handled :
      "space" \notin raced[n] \cup raced[network[id].author] =>
        \A d \in FirstDirect(network[id], n) : DOMAIN d.ciphertext.plaintext \subseteq SecretsOf(n)

\* Nodes whose copies of the space saw the same messages have the same members
\* in them, in whatever order the pointers came and whoever published them
\* (process_auth_message, handle_membership_message).  A node on which a thread
\* wrote an older copy over a newer one counts messages as seen, as dependencies
\* of others, whose change its copy lost; it is for a repair to bring it back.
SameMembers ==
  \A n, m \in Replicas :
    /\ n # m /\ "space" \notin raced[n] \cup raced[m]
    /\ SpaceOf(n).enc.graph = SpaceOf(m).enc.graph
    => MembersOf(n) = MembersOf(m)

\* The last event of a group's handle told its members as they are, also if
\* the change was made in a nested group, or undone by a concurrent one
\* (to_groups_event, groups_context, to_group_event); not any more, if a thread
\* of the node wrote an older state over a newer one, or if its events came
\* after those of a newer change.
ToldMembers ==
  \A n \in Replicas :
    raced[n] \cap {"groups", "told"} = {} /\ (\A t \in late[n] : t.out.told = <<>> \/ t.out.groups # {})
      => \A g \in Groups : node[n].told[g] = Members(node[n].groups, g)

\* Whether a repair by n brought the member: a repair acts on its events, but
\* does not associate the member's logs.
BroughtByRepair(n, m) ==
  \E id \in MembershipMessages :
    LET op == network[network[id].auth].op
    IN  /\ network[id].author = n
        /\ op.author # n \/ op.group # Space
        /\ op.action.type # "create"
        /\ m = op.action.member \/ m \in Ids(Members(node[n].groups, op.action.member))


Quiet ==
  \A n \in plan.online :
    /\ late[n] = {} /\ waiting[n] = {}
    /\ ~\E id \in DOMAIN network : Ready(n, id)
    /\ Repair(n, network, node[n]).out = Nothing

=============================================================================
