---------------------------- MODULE MessageGroup ----------------------------
(***************************************************************************)
(* A group of the message encryption scheme.  Members add, remove, update  *)
(* and send; everything they publish is broadcast and reaches the others   *)
(* after what they depend on, otherwise in any order.  A member is         *)
(*   y           key agreement (module Dcgka)                              *)
(*   o           orderer: next, ready, queue, pending, messages, welcome   *)
(*   welcome     the message with which it joined                          *)
(*   ratchet     to encrypt; decryption: per sender, to decrypt            *)
(*   out, read   published messages; which messages it could read          *)
(***************************************************************************)
EXTENDS Dcgka, MessageRatchet

CONSTANTS
  Members,          \* everybody who may be in the group
  Initial,          \* the members it is created with
  Creator,
  MaxForward,       \* maximum_forward_distance
  Tolerance,        \* out_of_order_tolerance
  Actions,          \* member -> what it may do
  MaxOperations     \* bound on the operations of all members

VARIABLES
  group,     \* member -> its state
  network    \* everything published: id -> message

vars == <<group, network>>

-----------------------------------------------------------------------------
(* The orderer.                                                            *)

InitOrderer == [next |-> 0, ready |-> {}, queue |-> <<>>, pending |-> <<>>,
                messages |-> {}, welcome |-> None]

\* A message depends on everything its sender knows.
NextMessage(g, content) ==
  content @@ [id |-> <<g.y.me, g.o.next>>, sender |-> g.y.me, previous |-> g.o.messages]

Publish(g, m) ==
  [g EXCEPT !.o.messages = @ \cup {m.id}, !.o.next = @ + 1, !.out = @ \cup {m}]

Control(control, direct) == [type |-> "control", control |-> control, direct |-> direct]

MarkReady(o, id) ==
  IF id \in o.ready THEN o ELSE [o EXCEPT !.ready = @ \cup {id}, !.queue = Append(@, id)]

Dependents(o, id) == IF id \in DOMAIN o.pending THEN o.pending[id] ELSE {}

MarkPending(o, id, dependencies) ==
  LET missing == dependencies \ o.ready
  IN  [o EXCEPT !.pending =
         [d \in DOMAIN @ \cup missing |->
            Dependents(o, d) \cup IF d \in missing THEN {<<id, dependencies>>} ELSE {}]]

\* Dependents are looked at in any order.
RECURSIVE ProcessPending(_, _, _)
ProcessPending(o, id, dependents) ==
  IF dependents = {}
  THEN {[o EXCEPT !.pending = [d \in DOMAIN @ \ {id} |-> @[d]]]}
  ELSE UNION {LET rest == dependents \ {d}
              IN  IF d[2] \subseteq o.ready
                  THEN UNION {ProcessPending(next, id, rest) :
                                next \in ProcessPending(MarkReady(o, d[1]), d[1],
                                                        Dependents(o, d[1]))}
                  ELSE ProcessPending(o, id, rest) : d \in dependents}

\* Own messages were never queued, they count as known.
Queue(me, o, m) ==
  LET known == [o EXCEPT !.messages = @ \cup {m.id}]
      dependencies == {p \in m.previous : p[1] # me}
  IN  IF dependencies \subseteq o.ready
      THEN ProcessPending(MarkReady(known, m.id), m.id, Dependents(o, m.id))
      ELSE {MarkPending(known, m.id, dependencies)}

\* Control messages from before our welcome are not for us, application
\* messages neither if they do not follow it.
Ignored(o, m) ==
  \/ m.id = o.welcome.id
  \/ m.type = "control" /\ m.id \in o.welcome.previous
  \/ m.type = "application" /\ o.welcome.id \notin m.previous

-----------------------------------------------------------------------------
(* The group.                                                              *)

Established(g) == g.ratchet # None

GroupMembers(g) == MemberView(g.y, g.y.me)

\* The operation is processed under the id of its message.
ProcessAs(g, m, y, control) ==
  LET Done(out) == [Publish(g, m) EXCEPT !.y = out.y, !.ratchet = InitRatchet(out.sender)]
  IN  Done(ProcessLocal(y, m.id, control))

ProcessLocalControl(g, local, control) ==
  ProcessAs(g, NextMessage(g, Control(control, local.direct)), local.y, control)

NextId(g) == <<g.y.me, g.o.next>>

Welcomed(g, id) == [g EXCEPT !.o.welcome = CHOOSE m \in g.out : m.id = id]

Create(g, initial) ==
  LET all == initial \cup {g.y.me}
  IN  Welcomed(ProcessLocalControl(g, LocalCreate(g.y, NextId(g), all),
                                   [type |-> "create", initial |-> all]), NextId(g))

Add(g, added) == ProcessLocalControl(g, LocalAdd(g.y, added), [type |-> "add", added |-> added])

CanAdd(g, added) == Established(g) /\ added # g.y.me /\ added \notin GroupMembers(g)

Remove(g, target) ==
  ProcessLocalControl(g, LocalRemove(g.y, NextId(g), target),
                      [type |-> "remove", target |-> target])

CanRemove(g, target) == Established(g) /\ target \in GroupMembers(g)

Update(g) == ProcessLocalControl(g, LocalUpdate(g.y, NextId(g)), [type |-> "update"])

\* `members` is whom the sender takes for the group.
Send2Group(g) ==
  LET m == NextMessage(g, [type |-> "application", key |-> KeyMaterial(g.ratchet),
                           generation |-> g.ratchet.generation, members |-> GroupMembers(g)])
  IN  [Publish(g, m) EXCEPT !.ratchet = RatchetForward(@)]

-----------------------------------------------------------------------------
\* What an output of the key agreement changes.
Apply(g, sender, out) ==
  [g EXCEPT
     !.y = out.y,
     !.ratchet = IF out.mine = None THEN @ ELSE InitRatchet(out.mine),
     !.decryption = IF out.sender = None THEN @ ELSE (sender :> InitDecryption(out.sender)) @@ @]

Answer(g, out) ==
  IF out.control = NoMessage THEN g
  ELSE Publish(g, NextMessage(g, Control(out.control, out.direct)))

\* Who was removed by this message does not hand out an answer.
HandOut(g, before) == IF g.y.me \notin GroupMembers(g) THEN [g EXCEPT !.out = before] ELSE g

ProcessControl(g, m) ==
  LET me == g.y.me
      Done(out) == HandOut(Answer(Apply(g, m.sender, out), out), g.out)
  IN  Done(ProcessRemote(g.y, m.sender, m.id, m.control,
                         IF me \in DOMAIN m.direct THEN m.direct[me] ELSE NoMessage))

DecryptionFrom(g, m, d) ==
  IF ~CanDecrypt(d, m.generation, MaxForward, Tolerance)
  THEN [g EXCEPT !.y = Fail(@, "DecryptionRatchet")]
  ELSE IF SecretForDecryption(d, m.generation) # m.key
  THEN [g EXCEPT !.y = Fail(@, "Aead")]
  ELSE [g EXCEPT !.decryption[m.sender] = AfterDecryption(d, m.generation, Tolerance),
                 !.read = @ \cup {m.id}]

Decryption(g, m) ==
  IF m.sender \notin DOMAIN g.decryption
  THEN [g EXCEPT !.y = Fail(@, "DecryptionRachetUnavailable")]
  ELSE DecryptionFrom(g, m, g.decryption[m.sender])

ProcessReady(g, m) == IF m.type = "control" THEN ProcessControl(g, m) ELSE Decryption(g, m)

\* Everything which is ready, until one fails.
RECURSIVE ProcessAllReady(_, _)
ProcessAllReady(g, messages) ==
  IF g.o.queue = <<>> \/ g.y.error # {} THEN g
  ELSE LET m    == messages[Head(g.o.queue)]
           next == [g EXCEPT !.o.queue = Tail(@)]
       IN  ProcessAllReady(IF Ignored(g.o, m) \/ m.id = g.welcome THEN next
                           ELSE ProcessReady(next, m), messages)

IsWelcome(g, m) ==
  /\ ~Established(g)
  /\ m.type = "control"
  /\ \/ m.control.type = "create" /\ g.y.me \in m.control.initial
     \/ m.control.type = "add" /\ m.control.added = g.y.me

\* The possible states after a message was received.  A welcome is processed
\* at once, alone; whatever is ready besides waits for the next message.
ReceiveMessage(g, m, messages) ==
  IF m.type = "control" /\ m.control.type = "create" /\ Established(g)
  THEN {[g EXCEPT !.y = Fail(@, "GroupAlreadyEstablished")]}
  ELSE {LET g1 == [g EXCEPT !.o = o]
        IN  IF IsWelcome(g, m)
            THEN ProcessReady([g1 EXCEPT !.o.welcome = m, !.welcome = m.id], m)
            ELSE IF ~Established(g) THEN g1
            ELSE ProcessAllReady(g1, messages) : o \in Queue(g.y.me, g.o, m)}

-----------------------------------------------------------------------------
\* Everybody has one one-time bundle of everybody else.
OneTimeIds == CHOOSE f \in [Members -> 1 .. Cardinality(Members)] :
                \A p, q \in Members : f[p] = f[q] => p = q

InitGroup(me) ==
  [y |-> InitDcgka(me,
           [prekeys |-> {SignedPreKey}, next |-> Cardinality(Members) + 1,
            onetime |-> [i \in 1 .. Cardinality(Members) |-> SignedPreKey.id]],
           [p \in Members |-> <<[owner |-> p, prekey |-> SignedPreKey,
                                 onetime |-> {OneTimeIds[me]}]>>]),
   o |-> InitOrderer, welcome |-> None, ratchet |-> None, decryption |-> <<>>,
   out |-> {}, read |-> {}]

Messages(states) ==
  LET all == UNION {states[p].out : p \in Members}
  IN  [id \in {m.id : m \in all} |-> CHOOSE m \in all : m.id = id]

\* The group is created, and everybody has answered everybody.
RECURSIVE Settled(_)
Settled(states) ==
  LET messages == Messages(states)
      open == {<<p, id>> \in Members \X DOMAIN messages :
                 id \notin states[p].o.messages
                   /\ messages[id].previous \subseteq states[p].o.messages}
  IN  IF open = {} THEN states
      ELSE LET next == CHOOSE x \in open : TRUE
               g == CHOOSE g \in ReceiveMessage(states[next[1]], messages[next[2]], messages) : TRUE
           IN  Settled([states EXCEPT ![next[1]] = g])

Created == Settled([p \in Members |-> IF p = Creator THEN Create(InitGroup(p), Initial)
                                      ELSE InitGroup(p)])

Init ==
  \E created \in {Created} :
    /\ group = [p \in Members |-> [created[p] EXCEPT !.out = {}]]
    /\ network = Messages(created)

Alive(p) == group[p].y.error = {}

\* An operation which fails leaves the member with the reason only.
Step(p, g) ==
  IF g.y.error # {}
  THEN /\ group' = [group EXCEPT ![p].y.error = g.y.error]
       /\ UNCHANGED network
  ELSE /\ group' = [group EXCEPT ![p] = [g EXCEPT !.out = {}]]
       /\ network' = [id \in {m.id : m \in g.out} |-> CHOOSE m \in g.out : m.id = id] @@ network

Operations ==
  {id \in DOMAIN network :
     network[id].type = "application" \/ network[id].control.type \in {"add", "remove", "update"}}

Operate(p, action) ==
  /\ Alive(p)
  /\ Established(group[p])
  /\ Cardinality(Operations) < MaxOperations
  /\ \/ /\ action.type = "add"
        /\ CanAdd(group[p], action.member)
        /\ Step(p, Add(group[p], action.member))
     \/ /\ action.type = "remove"
        /\ CanRemove(group[p], action.member)
        /\ Step(p, Remove(group[p], action.member))
     \/ action.type = "update" /\ Step(p, Update(group[p]))
     \/ action.type = "send" /\ Step(p, Send2Group(group[p]))

\* Who has just joined leaves waiting what is ready already, until the next
\* message; messages do not overtake what they depend on.
Deliver(p, id) ==
  /\ Alive(p)
  /\ id \notin group[p].o.messages
  /\ network[id].previous \subseteq group[p].o.messages
  /\ \E g \in ReceiveMessage(group[p], network[id], network) : Step(p, g)

Next ==
  \/ \E p \in Members : \E action \in Actions[p] : Operate(p, action)
  \/ \E p \in Members : \E id \in DOMAIN network : Deliver(p, id)

Spec == Init /\ [][Next]_vars

-----------------------------------------------------------------------------
(* Properties.                                                             *)

Removed(p) == \E q \in Members : p \in group[q].y.dgm.removed

\* Members of the group who are not about to leave it.
Current == {p \in Members : ~Removed(p) /\ Established(group[p])}

Quiet == \A p \in Members : Removed(p) \/ DOMAIN network \subseteq group[p].o.messages

\* Whatever the others did concurrently, a member finds every key, secret and
\* direct message which its next message needs: `receive` fails for nobody
\* but those who are removed (they may still be sent what is not for them).
NobodyIsLockedOut == \A p \in Members : Alive(p) \/ Removed(p)

\* Once everything is delivered all members agree on who is in the group, and
\* on the outer ratchet of each of them, so on all future message keys: an
\* update concurrent to an addition reaches the new member by forwarding.
SameSecrets ==
  Quiet => \A p, q \in Current :
             /\ GroupMembers(group[p]) = GroupMembers(group[q])
             /\ \A m \in Current : Chain(group[p].y, m) = Chain(group[q].y, m)
=============================================================================
