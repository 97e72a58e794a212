----------------------------- MODULE SyncManager -----------------------------
(***************************************************************************)
(* The actors of p2panda-net which run sync sessions (sync/actors/): the   *)
(* sync manager, one topic manager per topic with a stream, one actor per  *)
(* session, and the task per topic which turns the neighbours which gossip *)
(* samples into sessions.  The users hold the handles of sync/handle.rs.   *)
(*                                                                         *)
(* An actor handles one message of its inbox after the other; while it     *)
(* waits for the answer of another actor, for room in the channel of a     *)
(* session or for a timer it handles nothing else.  What happens inside a  *)
(* session is the subject of LogSync; here it reads its channel or does    *)
(* not, ends when it is told to, ends because the remote closes it, or     *)
(* fails.  The model ends where the sync manager itself fails.             *)
(***************************************************************************)
EXTENDS Gossip

LOCAL INSTANCE SequencesExt

CONSTANTS Users, Topics,
          Blocked,       \* topic and node pairs which the authoriser rejects
          Handshakes,    \* what remotes send in the topic handshake
          SessionBuffer, \* room in the channel of a session (CHANNEL_BUFFER)
          EventsBuffer,  \* events of gossip which a listener may be behind
          Plans          \* bounds: who opens which topics, which nodes there are, and
                         \* how often everything else outside of the actors happens

VARIABLES gossip,  \* the gossip manager
          sync,    \* the sync manager
          task,    \* the membership tasks
          tm,      \* the topic managers
          session, \* the session actors
          user,    \* the holders of handles
          left,    \* what may still happen outside
          closed   \* history: the topics which were closed

vars == <<gossip, sync, task, tm, session, user, left, closed>>

Idle == [at |-> "idle", work |-> <<>>]

InitSync ==
  [inbox |-> <<>>, call |-> Idle, manager |-> <<>>, topicOf |-> <<>>,
   receivers |-> {}, handles |-> <<>>, failed |-> FALSE]

NewTask(topic) == [topic |-> topic, inbox |-> <<>>, alive |-> TRUE, lagged |-> FALSE]

\* The message which is handled while at is "sending", with the sessions it
\* must still be handed to; the node which is retried while at is "waiting".
\* closer is history: who waits for the topic manager to be closed.
NewTopicManager(topic) ==
  [topic |-> topic, inbox |-> <<>>, at |-> "up", open |-> TRUE, active |-> {}, sessions |-> {},
   sends |-> [op |-> "none"], todo |-> {}, retry |-> "none", closer |-> {}]

NoHandle == [at |-> "idle", topic |-> "none", tm |-> 0]

Uses(what) ==
  /\ left[what] > 0
  /\ left' = [left EXCEPT ![what] = @ - 1]
  /\ UNCHANGED closed

CanConnectOnTopic(topic, node) == <<topic, node>> \notin Blocked

Tell(y, m) == [y EXCEPT !.inbox = Append(@, m)]

Handled(y) == [y EXCEPT !.inbox = Tail(@)]

-----------------------------------------------------------------------------
(* The sync manager.  A message to a topic manager which drains or which   *)
(* failed is an error that ends the sync manager.                          *)

Crashed(id) == tm[id].at \in {"crashed", "dead"}

ToTopicManager(y, t, m) ==
  LET id == y.manager[t] IN
  IF tm[id].open
  THEN /\ tm' = [tm EXCEPT ![id] = Tell(@, m)]
       /\ sync' = y
  ELSE /\ sync' = [y EXCEPT !.failed = TRUE]
       /\ UNCHANGED tm

\* drop_topic_state; the gossip handle and the task are dropped with it.
DropTopic(y, t) ==
  [y EXCEPT !.manager   = Without(@, t),
            !.receivers = @ \ {t},
            !.handles   = Without(@, t)]

DropHandle(g, y, t) == IF t \in DOMAIN y.handles THEN DropGuard(g, y.handles[t]) ELSE g

AbortTask(y, t) ==
  [k \in DOMAIN task |->
     IF t \in DOMAIN y.handles /\ task[k].topic = t THEN [task[k] EXCEPT !.alive = FALSE]
     ELSE task[k]]

\* Create, up to the request for the events of gossip: the task must not
\* miss any event of the overlay which is joined after that.
Create(m) ==
  LET y == Handled(sync) IN
  /\ m.op = "Create"
  /\ IF m.topic \in DOMAIN y.manager
     THEN /\ user' = [user EXCEPT ![m.user].at = "open", ![m.user].tm = y.manager[m.topic]]
          /\ sync' = y
          /\ UNCHANGED gossip
     ELSE /\ gossip' = Cast(gossip, [op |-> "Events"])
          /\ sync' = [y EXCEPT !.call = [at |-> "events", work |-> m]]
          /\ UNCHANGED user
  /\ UNCHANGED <<task, tm, session>>

\* The call of stream, once the receiver of the events is there.
JoinOverlay ==
  LET t == sync.call.work.topic IN
  /\ sync.call.at = "stream"
  /\ IF HasSubscriptions(gossip, t)
     THEN /\ gossip' = CloneGuard(gossip, gossip.senders[t])
          /\ sync' = [sync EXCEPT !.call.at = "spawn"]
     ELSE /\ gossip' = AskToSubscribe(gossip, t, "sync")
          /\ sync' = [sync EXCEPT !.call.at = "subscribe"]
  /\ UNCHANGED <<task, tm, session, user, left, closed>>

\* The rest of Create: the topic manager is spawned and registered.
SpawnTopicManager ==
  LET m  == sync.call.work
      id == Len(tm) + 1
  IN
  /\ sync.call.at = "spawn"
  /\ sync' = [sync EXCEPT !.call      = Idle,
                          !.handles   = (m.topic :> gossip.senders[m.topic]) @@ @,
                          !.receivers = @ \cup {m.topic},
                          !.manager   = (m.topic :> id) @@ @,
                          !.topicOf   = (id :> m.topic) @@ @]
  /\ tm' = Append(tm, NewTopicManager(m.topic))
  /\ user' = [user EXCEPT ![m.user].at = "open", ![m.user].tm = id]
  /\ UNCHANGED <<gossip, task, session, left, closed>>

\* Close, up to the request to close all sessions.
Close(m) ==
  LET y == Handled(sync) IN
  /\ m.op = "Close"
  /\ IF m.topic \in DOMAIN y.manager
     THEN ToTopicManager([y EXCEPT !.call = [at |-> "closing", work |-> m]],
                         m.topic, [op |-> "CloseAll"])
     ELSE /\ sync' = [y EXCEPT !.call = [at |-> "closed", work |-> m]]
          /\ UNCHANGED tm
  /\ UNCHANGED <<gossip, task, session, user>>

\* Mutant: the id of the closed topic manager stays registered.
ForgetManagerOnly(y, t) == [y EXCEPT !.manager = Without(@, t)]

ForgetManager(y, t) ==
  [y EXCEPT !.manager = Without(@, t), !.topicOf = Without(@, y.manager[t])]

\* The rest of Close: drain the topic manager, drop what belongs to the
\* topic and answer.
FinishClose ==
  LET m         == sync.call.work
      t         == m.topic
      forgotten == IF t \in DOMAIN sync.manager THEN ForgetManager(sync, t) ELSE sync
  IN
  /\ sync.call.at = "closed"
  /\ t \in DOMAIN sync.manager => ~Crashed(sync.manager[t])
  /\ sync' = [DropTopic(forgotten, t) EXCEPT !.call = Idle]
  /\ gossip' = DropHandle(gossip, sync, t)
  /\ task' = AbortTask(sync, t)
  /\ tm' = IF t \in DOMAIN sync.manager
           THEN [tm EXCEPT ![sync.manager[t]].open = FALSE,
                           ![sync.manager[t]].closer = m.reply,
                           ![sync.manager[t]].inbox = Append(@, [op |-> "Drain"])]
           ELSE tm
  /\ user' = [u \in Users |-> IF u \in m.reply THEN [user[u] EXCEPT !.at = "closed"] ELSE user[u]]
  /\ UNCHANGED <<session, left, closed>>

\* A topic manager which failed meanwhile cannot be drained.
DrainFails ==
  /\ sync.call.at = "closed" /\ ~sync.failed
  /\ sync.call.work.topic \in DOMAIN sync.manager
  /\ Crashed(sync.manager[sync.call.work.topic])
  /\ sync' = [sync EXCEPT !.failed = TRUE]
  /\ UNCHANGED <<gossip, task, tm, session, user, left, closed>>

InitiateSync(m) ==
  LET y == Handled(sync) IN
  /\ m.op = "InitiateSync"
  /\ IF CanConnectOnTopic(m.topic, m.node) /\ m.topic \in DOMAIN y.manager
     THEN ToTopicManager(y, m.topic, [op |-> "Initiate", node |-> m.node])
     ELSE sync' = y /\ UNCHANGED tm
  /\ UNCHANGED <<gossip, task, session, user>>

AcceptSync(m) ==
  LET y == Handled(sync) IN
  /\ m.op = "Accept"
  /\ IF m.topic \in DOMAIN y.manager
     THEN ToTopicManager(y, m.topic, [op |-> "Accept", node |-> m.node])
     ELSE sync' = y /\ UNCHANGED tm
  /\ UNCHANGED <<gossip, task, session, user>>

EndSync(m) ==
  LET y == Handled(sync) IN
  /\ m.op = "EndSync"
  /\ IF m.topic \in DOMAIN y.manager
     THEN ToTopicManager(y, m.topic, [op |-> "Close", node |-> m.node])
     ELSE sync' = y /\ UNCHANGED tm
  /\ UNCHANGED <<gossip, task, session, user>>

ManagerStep ==
  /\ sync.call = Idle /\ ~sync.failed /\ sync.inbox # <<>>
  /\ LET m == Head(sync.inbox) IN
     Create(m) \/ Close(m) \/ InitiateSync(m) \/ AcceptSync(m) \/ EndSync(m)
  /\ UNCHANGED <<left, closed>>

\* A topic manager which ended by itself takes the state of its topic along;
\* one which was closed is not known any more.
TopicManagerEnded(id) ==
  /\ sync.call = Idle /\ ~sync.failed /\ tm[id].at = "down"
  /\ tm' = [tm EXCEPT ![id].at = "gone"]
  /\ IF id \in DOMAIN sync.topicOf
     THEN LET t == sync.topicOf[id]
              y == [sync EXCEPT !.topicOf = Without(@, id)]
          IN  /\ sync' = DropTopic(y, t)
              /\ gossip' = DropHandle(gossip, y, t)
              /\ task' = AbortTask(y, t)
     ELSE UNCHANGED <<sync, gossip, task>>
  /\ UNCHANGED <<session, user, left, closed>>

\* For a topic manager which failed the sync manager sends Close to itself and,
\* still in the handler of the failure, waits for the answer: it handles nothing
\* after that, the Close included.
TopicManagerFailed(id) ==
  /\ sync.call = Idle /\ ~sync.failed /\ tm[id].at = "crashed"
  /\ tm' = [tm EXCEPT ![id].at = "dead"]
  /\ sync' = IF id \in DOMAIN sync.topicOf
             THEN LET m == [op |-> "Close", topic |-> sync.topicOf[id], reply |-> {}]
                  IN  [Tell(sync, m) EXCEPT !.topicOf = Without(@, id),
                                            !.call = [at |-> "itself", work |-> m]]
             ELSE sync
  /\ UNCHANGED <<gossip, task, session, user, left, closed>>

-----------------------------------------------------------------------------
(* Gossip, and the membership tasks: every task hears of all topics which  *)
(* were ever joined, whichever topic it was started for.                   *)

\* The broadcast channel of the events: a listener which is too far behind
\* finds an error there.
Hear(y, events) ==
  IF ~y.alive \/ events = <<>> THEN y
  ELSE IF Len(y.inbox) >= EventsBuffer THEN [y EXCEPT !.lagged = TRUE]
  ELSE [y EXCEPT !.inbox = @ \o events]

GossipStep ==
  LET m     == Head(gossip.inbox)
      heard == [k \in DOMAIN task |-> Hear(task[k], EventsOf(gossip, m))]
  IN
  /\ gossip.inbox # <<>>
  /\ gossip' = HandleGossip(gossip, m)
  /\ task' = IF m.op = "Events" THEN Append(heard, NewTask(sync.call.work.topic)) ELSE heard
  /\ sync' = [sync EXCEPT !.call.at = IF m.op = "Events" THEN "stream"
                                      ELSE IF m.op = "Subscribe" THEN "spawn" ELSE @]
  /\ UNCHANGED <<tm, session, user, left, closed>>

Spawned(k) == k < Len(task) \/ sync.call.at \notin {"stream", "subscribe"}

MembershipTask(k) ==
  LET event == Head(task[k].inbox)
      told  == [i \in 1..Cardinality(event.nodes) |->
                  [op |-> IF event.up THEN "InitiateSync" ELSE "EndSync",
                   topic |-> event.topic, node |-> SetToSeq(event.nodes)[i]]]
  IN
  /\ task[k].alive /\ ~task[k].lagged /\ task[k].inbox # <<>> /\ Spawned(k)
  /\ task' = [task EXCEPT ![k] = Handled(@)]
  /\ sync' = [sync EXCEPT !.inbox = @ \o told]
  /\ UNCHANGED <<gossip, tm, session, user, left, closed>>

\* Any error of the receiver, also that it lagged behind, ends the task.
MembershipTaskEnds(k) ==
  /\ task[k].alive /\ task[k].lagged /\ Spawned(k)
  /\ task' = [task EXCEPT ![k].alive = FALSE]
  /\ UNCHANGED <<gossip, sync, tm, session, user, left, closed>>

-----------------------------------------------------------------------------
(* The topic managers.  The session maps are one set: a session is put     *)
(* into and taken out of all of them at once.                              *)

\* new_session, after which the session actor runs; held is what is in its channel.
NewSession(y, id, node, accepted) ==
  /\ session' = Append(session, [tm |-> id, node |-> node, at |-> "running", closing |-> FALSE,
                                 held |-> 0, accepted |-> accepted])
  /\ tm' = [tm EXCEPT ![id] = [y EXCEPT !.sessions = @ \cup {Len(session) + 1}]]

Becomes(id, y) == tm' = [tm EXCEPT ![id] = y] /\ UNCHANGED session

DropSession(y, s) == [y EXCEPT !.sessions = @ \ {s}]

SessionsWith(y, node) == {s \in y.sessions : session[s].node = node}

Initiate(id, y, m) ==
  /\ m.op = "Initiate"
  /\ NewSession([y EXCEPT !.active = @ \cup {m.node}], id, m.node, FALSE)

MayRetry(y, node) == node \in y.active /\ SessionsWith(y, node) = {}

Retry(id, y, m) ==
  /\ m.op = "Retry"
  /\ IF MayRetry(y, m.node) THEN NewSession(y, id, m.node, FALSE) ELSE Becomes(id, y)

Accept(id, y, m) == m.op = "Accept" /\ NewSession(y, id, m.node, TRUE)

\* A message is handed to one session after the other.
Sending(y, m, ss) == [y EXCEPT !.at = "sending", !.sends = m, !.todo = ss]

\* The data goes to the channel of every session.
Publish(id, y, m) == m.op = "Publish" /\ Becomes(id, Sending(y, m, y.sessions))

CloseNode(id, y, m) ==
  /\ m.op = "Close"
  /\ Becomes(id, Sending([y EXCEPT !.active = @ \ {m.node}], m, SessionsWith(y, m.node)))

CloseAll(id, y, m) == m.op = "CloseAll" /\ Becomes(id, Sending(y, m, y.sessions))

Drain(id, y, m) == m.op = "Drain" /\ Becomes(id, [y EXCEPT !.at = "stopping"])

\* Mutant: nobody answers when there is no session to close.
AnswerIfSessions(y, m) == m.op = "CloseAll" /\ y.sessions # {}

\* Mutant: the sync manager goes on with the next message of the topic manager.
AnswerEarly(y, m) == sync.call.at = "closing"

\* The sync manager waits for the answer to CloseAll.
AnswersClose(y, m) == m.op = "CloseAll"

TopicManagerStep(id) ==
  LET m == Head(tm[id].inbox)
      y == Handled(tm[id])
  IN
  /\ tm[id].at = "up" /\ tm[id].inbox # <<>>
  /\ \/ Initiate(id, y, m) \/ Retry(id, y, m) \/ Accept(id, y, m) \/ Publish(id, y, m)
     \/ CloseNode(id, y, m) \/ CloseAll(id, y, m) \/ Drain(id, y, m)
  /\ UNCHANGED <<gossip, sync, task, user, left, closed>>

\* There is no room in the channel of a session which still holds its receiver.
IsFull(s) == session[s].at = "running" /\ session[s].held >= SessionBuffer

\* handle.send: it waits for room in the channel, and an error is ignored.
SendTo(id, s) ==
  /\ tm[id].at = "sending" /\ s \in tm[id].todo /\ ~IsFull(s)
  /\ tm' = [tm EXCEPT ![id].todo = @ \ {s}]
  /\ session' = IF session[s].at = "running"
                THEN [session EXCEPT ![s].held = @ + 1,
                                     ![s].closing = @ \/ tm[id].sends.op \in {"Close", "CloseAll"}]
                ELSE session
  /\ UNCHANGED <<gossip, sync, task, user, left, closed>>

\* The rest of Publish, Close and CloseAll, which forgets the active nodes only now.
AllSent(id) ==
  LET m == tm[id].sends IN
  /\ tm[id].at = "sending" /\ tm[id].todo = {}
  /\ tm' = [tm EXCEPT ![id].at = "up", ![id].sends = [op |-> "none"],
                      ![id].active = IF m.op = "CloseAll" THEN {} ELSE @]
  /\ sync' = IF AnswersClose(tm[id], m) THEN [sync EXCEPT !.call.at = "closed"] ELSE sync
  /\ UNCHANGED <<gossip, task, session, user, left, closed>>

\* The sessions which are left end with their topic manager.
EndSessions(id) ==
  session' = [s \in DOMAIN session |->
                IF session[s].tm = id THEN [session[s] EXCEPT !.at = "gone"] ELSE session[s]]

\* The topic manager ends after the last events of its sessions are passed on;
\* when that takes too long it fails.
TopicManagerEnds(id) ==
  /\ tm[id].at = "stopping"
  /\ \E at \in {"down", "crashed"} : tm' = [tm EXCEPT ![id].at = at]
  /\ EndSessions(id)
  /\ UNCHANGED <<gossip, sync, task, user, left, closed>>

\* A handler returns an error or panics.  What was in the inbox is dropped, and
\* with it the answers others wait for.
TopicManagerFails(id) ==
  LET waits == sync.call.at = "closing" /\ sync.manager[sync.call.work.topic] = id IN
  /\ tm[id].at \in {"up", "sending", "waiting"}
  /\ tm' = [tm EXCEPT ![id].at = "crashed", ![id].open = FALSE, ![id].inbox = <<>>,
                      ![id].todo = {}]
  /\ EndSessions(id)
  /\ sync' = IF waits THEN [sync EXCEPT !.call.at = "closed"] ELSE sync
  /\ Uses("crashes")
  /\ UNCHANGED <<gossip, task, user>>

\* Mutant: a failed session stays in the maps.
KeepFailed(y, s, node) ==
  IF node \in y.active THEN [y EXCEPT !.at = "waiting", !.retry = node] ELSE y

\* Sync with an active node is tried again after a while.
AfterFailure(y, s, node) ==
  LET z == DropSession(y, s)
  IN  IF node \in z.active THEN [z EXCEPT !.at = "waiting", !.retry = node] ELSE z

SessionFailed(id, s) ==
  /\ tm[id].at = "up" /\ session[s].tm = id /\ session[s].at = "failed"
  /\ session' = [session EXCEPT ![s].at = "gone"]
  /\ tm' = [tm EXCEPT ![id] = AfterFailure(@, s, session[s].node)]
  /\ UNCHANGED <<gossip, sync, task, user, left, closed>>

\* The timer, for which the handler of the failure waits, puts Retry behind all
\* that came meanwhile; a topic manager which drains takes no more messages.
RetryTimer(id) ==
  /\ tm[id].at = "waiting"
  /\ LET y == [tm[id] EXCEPT !.at = "up", !.retry = "none"]
     IN  tm' = [tm EXCEPT ![id] = IF y.open THEN Tell(y, [op |-> "Retry", node |-> tm[id].retry])
                                  ELSE y]
  /\ UNCHANGED <<gossip, sync, task, session, user, left, closed>>

-----------------------------------------------------------------------------
(* The sessions.  A session which is over leaves its actor behind: only a  *)
(* failure ends the actor and is noticed by the topic manager.             *)

\* The session takes a message from its channel.  Nothing says that it ever does:
\* it may be waiting for the remote.
SessionReads(s) ==
  /\ session[s].at = "running" /\ session[s].held > 0 /\ ~session[s].closing
  /\ session' = [session EXCEPT ![s].held = @ - 1]
  /\ UNCHANGED <<gossip, sync, task, tm, user, left, closed>>

\* It comes to the Close.
SessionEnds(s) ==
  /\ session[s].at = "running" /\ session[s].closing
  /\ session' = [session EXCEPT ![s].at = "ended"]
  /\ UNCHANGED <<gossip, sync, task, tm, user, left, closed>>

RemoteEnds(s) ==
  /\ session[s].at = "running" /\ ~session[s].closing
  /\ session' = [session EXCEPT ![s].at = "ended"]
  /\ Uses("ends")
  /\ UNCHANGED <<gossip, sync, task, tm, user>>

SessionFails(s) ==
  /\ session[s].at = "running"
  /\ session' = [session EXCEPT ![s].at = "failed"]
  /\ Uses("failures")
  /\ UNCHANGED <<gossip, sync, task, tm, user>>

\* The topic of TopicHandshakeAcceptor, if the remote sends what it must.
AcceptorTopic(received) ==
  IF Len(received) = 2 /\ received[1].is = "topic" /\ received[2].is = "done"
  THEN {received[1].topic} ELSE {}

\* A remote connects and runs the topic handshake (SyncProtocolHandler).
RemoteConnects(node, received) ==
  /\ Uses("connects")
  /\ sync' = LET topics == {t \in AcceptorTopic(received) : CanConnectOnTopic(t, node)}
             IN  [sync EXCEPT !.inbox = @ \o [i \in 1..Cardinality(topics) |->
                    [op |-> "Accept", topic |-> SetToSeq(topics)[i], node |-> node]]]
  /\ UNCHANGED <<gossip, task, tm, session, user>>

-----------------------------------------------------------------------------
(* The users and the overlay.                                              *)

Open(u, t) ==
  /\ left.opens # <<>> /\ Head(left.opens) = <<u, t>>
  /\ user[u].at \in {"idle", "closed"}
  /\ user' = [user EXCEPT ![u] = [at |-> "opening", topic |-> t, tm |-> 0]]
  /\ sync' = Tell(sync, [op |-> "Create", topic |-> t, user |-> u])
  /\ left' = [left EXCEPT !.opens = Tail(@)]
  /\ UNCHANGED <<gossip, task, tm, session, closed>>

\* A message to a topic manager which drains is an error for the user.
PublishOn(u) ==
  /\ user[u].at = "open" /\ tm[user[u].tm].open
  /\ tm' = [tm EXCEPT ![user[u].tm] = Tell(@, [op |-> "Publish", user |-> u])]
  /\ Uses("publishes")
  /\ UNCHANGED <<gossip, sync, task, session, user>>

CloseHandle(u) ==
  /\ user[u].at = "open"
  /\ user' = [user EXCEPT ![u].at = "closing"]
  /\ sync' = Tell(sync, [op |-> "Close", topic |-> user[u].topic, reply |-> {u}])
  /\ closed' = closed \cup {user[u].topic}
  /\ UNCHANGED <<gossip, task, tm, session, left>>

\* A handle which is dropped closes the topic, too, but nobody waits.
DropHandleOf(u) ==
  /\ user[u].at = "open"
  /\ user' = [user EXCEPT ![u] = NoHandle]
  /\ sync' = Tell(sync, [op |-> "Close", topic |-> user[u].topic, reply |-> {}])
  /\ closed' = closed \cup {user[u].topic}
  /\ UNCHANGED <<gossip, task, tm, session, left>>

Flip(g) ==
  /\ gossip' = g
  /\ Uses("neighbours")
  /\ UNCHANGED <<sync, task, tm, session, user>>

NeighbourAppears(s, n) == n \notin gossip.guards[s].view /\ Flip(OverlayUp(gossip, s, n))

NeighbourLeaves(s, n) == n \in gossip.guards[s].view /\ Flip(OverlayDown(gossip, s, n))

-----------------------------------------------------------------------------
Init ==
  /\ gossip = InitGossip /\ sync = InitSync
  /\ task = <<>> /\ tm = <<>> /\ session = <<>>
  /\ user = [u \in Users |-> NoHandle]
  /\ left \in Plans
  /\ closed = {}

\* What the actors and tasks do.
Working ==
  \/ ManagerStep \/ JoinOverlay \/ SpawnTopicManager \/ FinishClose \/ DrainFails \/ GossipStep
  \/ \E k \in DOMAIN task : MembershipTask(k) \/ MembershipTaskEnds(k)
  \/ \E id \in DOMAIN tm :
       \/ TopicManagerEnded(id) \/ TopicManagerFailed(id)
       \/ TopicManagerStep(id) \/ AllSent(id) \/ RetryTimer(id) \/ TopicManagerEnds(id)
       \/ \E s \in DOMAIN session : SendTo(id, s) \/ SessionFailed(id, s)
  \/ \E s \in DOMAIN session : SessionReads(s) \/ SessionEnds(s)

Outside ==
  \/ \E u \in Users : PublishOn(u) \/ CloseHandle(u) \/ DropHandleOf(u) \/ \E t \in Topics : Open(u, t)
  \/ \E s \in gossip.actors, n \in left.nodes : NeighbourAppears(s, n) \/ NeighbourLeaves(s, n)
  \/ \E n \in left.nodes, received \in Handshakes : RemoteConnects(n, received)
  \/ \E s \in DOMAIN session : RemoteEnds(s) \/ SessionFails(s)
  \/ \E id \in DOMAIN tm : TopicManagerFails(id)

Next == ~sync.failed /\ (Working \/ Outside)

Spec == Init /\ [][Next]_vars

-----------------------------------------------------------------------------
(* Correctness.                                                            *)

IsOpen(u) == user[u].at = "open" /\ tm[user[u].tm].open

\* A topic which was opened, and not closed since, keeps everything that
\* belongs to it, whatever happens to an earlier topic manager of the same
\* topic meanwhile: the entry of its manager, the receiver for subscriptions,
\* the gossip overlay it joined and the task which listens to it, unless the
\* task lagged behind.
OnlyCloseEndsATopic ==
  \A u \in Users : IsOpen(u) =>
    LET t == user[u].topic IN
    /\ t \in DOMAIN sync.manager /\ sync.manager[t] = user[u].tm
    /\ t \in sync.receivers
    /\ t \in DOMAIN sync.handles /\ sync.handles[t] \in gossip.actors
    /\ \E k \in DOMAIN task : task[k].topic = t /\ (task[k].alive \/ task[k].lagged)

\* What a user published is handed to the sessions when the user closed the
\* topic and close returns: it is not left in the queue of the topic manager.
\* (A user is promised less when somebody else closes the topic meanwhile.)
\* And no session is left, or started, behind the back of a closed topic: once
\* the topic manager drains, all its running sessions were told to close.
CloseFlushes ==
  /\ \A u \in Users : \A id \in DOMAIN tm :
       user[u].at = "closed" /\ user[u].tm = id /\ u \in tm[id].closer =>
         /\ \A i \in DOMAIN tm[id].inbox :
              ~(tm[id].inbox[i].op = "Publish" /\ tm[id].inbox[i].user = u)
         /\ ~(tm[id].sends.op = "Publish" /\ tm[id].sends.user = u)
  /\ \A s \in DOMAIN session :
       session[s].at = "running" /\ ~tm[session[s].tm].open => session[s].closing

\* Nothing is under way: no message, no timer, no event of a session.
Quiet ==
  /\ gossip.inbox = <<>> /\ sync.inbox = <<>> /\ sync.call = Idle
  /\ \A k \in DOMAIN task : task[k].alive => task[k].inbox = <<>>
  /\ \A id \in DOMAIN tm : tm[id].inbox = <<>> /\ tm[id].at \notin {"sending", "waiting"}
  /\ \A s \in DOMAIN session : session[s].at # "failed"

\* No task ended, with its topic or because it lagged behind, before it passed
\* on what it had heard.
NothingCutOff == \A k \in DOMAIN task : task[k].inbox = <<>>

\* We sync with the neighbours which gossip sampled and which are allowed once
\* all events have arrived, also when the topic was closed and opened again;
\* and with nobody else as long as the topic was never closed.  (The Joined of
\* an overlay which was left counts for the next overlay of the same topic: a
\* topic which was opened again may stay active with nodes which are not in its
\* view.)  A task which ends early may be the last to speak, of a neighbour that
\* left and came back for example, and then nothing corrects it.
SyncFollowsView ==
  Quiet /\ NothingCutOff =>
    \A u \in Users : IsOpen(u) =>
      LET t    == user[u].topic
          view == {n \in gossip.guards[sync.handles[t]].view : CanConnectOnTopic(t, n)}
      IN  /\ view \subseteq tm[user[u].tm].active
          /\ t \notin closed => tm[user[u].tm].active = view

\* A failed session with a node we want to sync with is tried again: when
\* nothing is under way a session with every active node is running, unless one
\* with it ended without a failure.  (Such a session stays in the maps, where a
\* retry takes it for one that is running.)  And a retry does not bring back a
\* node which left: a running session which we started is with an active node,
\* or was told to close.
FailedIsRetried ==
  /\ Quiet => \A id \in DOMAIN tm : tm[id].at = "up" => \A n \in tm[id].active :
       \E s \in SessionsWith(tm[id], n) : session[s].at \in {"running", "ended"}
  /\ \A s \in DOMAIN session : \A id \in DOMAIN tm :
       /\ session[s].tm = id /\ session[s].at = "running" /\ ~session[s].accepted
       /\ tm[id].at = "up"
       => session[s].node \in tm[id].active \/ session[s].closing

\* What the sync manager has before it or is just handling.
Asked ==
  {sync.inbox[i] : i \in DOMAIN sync.inbox} \cup (IF sync.call = Idle THEN {} ELSE {sync.call.work})

Holds(y, op) == \E i \in DOMAIN y.inbox : y.inbox[i].op = op

\* The sync manager failed, or waits for itself.
Stuck == sync.failed \/ sync.call.at = "itself"

\* No answer gets lost: a user who waits for a topic to be opened or closed,
\* and the sync manager while it waits for another actor, wait for a message
\* which an actor that is running has before it or is just handling, so that
\* the actors do not wait for each other in turn.  Only after a topic manager
\* failed the sync manager may fail as well or wait for itself, for ever.  (How
\* long a topic manager takes is up to its sessions: it waits as long as the
\* channel of a running session is full.)
NoLostReply ==
  IF Stuck THEN \E id \in DOMAIN tm : Crashed(id)
  ELSE
  /\ \A u \in Users :
       /\ user[u].at = "opening" =>
            \E m \in Asked : m.op = "Create" /\ m.user = u
       /\ user[u].at = "closing" =>
            \E m \in Asked : m.op = "Close" /\ u \in m.reply
  /\ sync.call.at = "closing" =>
       LET y == tm[sync.manager[sync.call.work.topic]]
       IN  \/ y.at \in {"up", "sending", "waiting"} /\ Holds(y, "CloseAll")
           \/ y.at = "sending" /\ y.sends.op = "CloseAll"
  /\ sync.call.at = "events" => Holds(gossip, "Events")
  /\ sync.call.at = "subscribe" => Holds(gossip, "Subscribe")
=============================================================================
