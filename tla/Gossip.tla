------------------------------- MODULE Gossip -------------------------------
(***************************************************************************)
(* The gossip manager of p2panda-net (gossip/actors/manager.rs) with the   *)
(* session actor of every topic, and the reference-counted handles of the  *)
(* API in front of it (gossip/api.rs), as a state `g` and one operator per *)
(* message of the actor.  The overlay itself (iroh's HyParView) is not     *)
(* part of the repository: it brings neighbours up and down as it likes.   *)
(*                                                                         *)
(* A session is numbered in the order of the Subscribe messages.  The      *)
(* session, receiver, sender, listener and joiner actors of one topic pass *)
(* what they get on to the next mailbox in order, so that an event of the  *)
(* overlay is put into the inbox of the manager at once.                   *)
(***************************************************************************)
EXTENDS Integers, Sequences, FiniteSets, TLC

Without(f, x) == [y \in DOMAIN f \ {x} |-> f[y]]

\* guards    what the API and the overlay know of every session ever made:
\*           its topic, the number of handles and subscriptions, whether it
\*           joined the overlay and its neighbours there
\* actors    the session actors which are running
\* topicOf   sessions_by_actor_id
\* session   sessions_by_topic (and gossip_senders, which goes along with it)
\* senders   the session which the API returns again for a topic
\* book      the topics of our own entry in the address book
InitGossip ==
  [inbox |-> <<>>, guards |-> <<>>, actors |-> {}, topicOf |-> <<>>, session |-> <<>>,
   neighbours |-> <<>>, senders |-> <<>>, book |-> {}]

Cast(g, m) == [g EXCEPT !.inbox = Append(@, m)]

NewGuard(topic) == [topic |-> topic, counter |-> 1, joined |-> FALSE, view |-> {}]

-----------------------------------------------------------------------------
(* The handles.                                                            *)

HasSubscriptions(g, topic) ==
  topic \in DOMAIN g.senders /\ g.guards[g.senders[topic]].counter >= 1

\* The first half of stream: join the overlay, unless there is a handle.
AskToSubscribe(g, topic, from) ==
  Cast(g, [op |-> "Subscribe", topic |-> topic, from |-> from])

CloneGuard(g, session) == [g EXCEPT !.guards[session].counter = @ + 1]

\* The last reference to a topic takes us out of the overlay.
DropGuard(g, session) ==
  LET dropped == [g EXCEPT !.guards[session].counter = @ - 1]
  IN  IF g.guards[session].counter = 1
      THEN Cast(dropped, [op |-> "Unsubscribe", topic |-> g.guards[session].topic])
      ELSE dropped

-----------------------------------------------------------------------------
(* The messages of the manager.                                            *)

DropTopicState(g, session, topic) ==
  [g EXCEPT !.topicOf    = Without(@, session),
            !.session    = Without(@, topic),
            !.neighbours = Without(@, topic)]

\* Subscribe, and the answer with which stream stores the new session.
Subscribe(g, m) ==
  LET s == Len(g.guards) + 1
  IN  [g EXCEPT !.guards  = Append(@, NewGuard(m.topic)),
                !.actors  = @ \cup {s},
                !.topicOf = (s :> m.topic) @@ @,
                !.session = (m.topic :> s) @@ @,
                !.senders = (m.topic :> s) @@ @,
                !.book    = @ \cup {m.topic}]

Unsubscribe(g, m) ==
  LET s       == g.session[m.topic]
      stopped == [DropTopicState(g, s, m.topic) EXCEPT !.actors = @ \ {s}]
  IN  [(IF m.topic \in DOMAIN g.session THEN stopped ELSE g) EXCEPT !.book = @ \ {m.topic}]

Joined(g, m) == [g EXCEPT !.neighbours = (m.topic :> m.nodes) @@ @]

\* Neighbours of a session which is gone, or which did not join yet, are
\* ignored.
Knows(g, m) == m.session \in DOMAIN g.topicOf /\ g.topicOf[m.session] \in DOMAIN g.neighbours

NeighborUp(g, m) ==
  IF Knows(g, m) THEN [g EXCEPT !.neighbours[g.topicOf[m.session]] = @ \cup m.nodes] ELSE g

NeighborDown(g, m) ==
  IF Knows(g, m) THEN [g EXCEPT !.neighbours[g.topicOf[m.session]] = @ \ m.nodes] ELSE g

\* One message; Events only makes a receiver for the one who asks.
HandleGossip(g, m) ==
  LET h == [g EXCEPT !.inbox = Tail(@)]
  IN  CASE m.op = "Subscribe"    -> Subscribe(h, m)
        [] m.op = "Unsubscribe"  -> Unsubscribe(h, m)
        [] m.op = "Joined"       -> Joined(h, m)
        [] m.op = "NeighborUp"   -> NeighborUp(h, m)
        [] m.op = "NeighborDown" -> NeighborDown(h, m)
        [] m.op = "Events"       -> h

\* Mutant: the neighbours with which an overlay starts are not announced.
EventsAfterJoin(g, m) ==
  IF m.op \in {"NeighborUp", "NeighborDown"} /\ Knows(g, m)
  THEN <<[topic |-> g.topicOf[m.session], nodes |-> m.nodes, up |-> m.op = "NeighborUp"]>>
  ELSE <<>>

\* What the subscribers to events are told; Left names no nodes.
EventsOf(g, m) ==
  IF m.op = "Unsubscribe"
  THEN <<[topic |-> m.topic, nodes |-> {}, up |-> FALSE]>>
  ELSE IF m.op = "Joined"
  THEN <<[topic |-> m.topic, nodes |-> m.nodes, up |-> TRUE]>>
  ELSE IF m.op \in {"NeighborUp", "NeighborDown"} /\ Knows(g, m)
  THEN <<[topic |-> g.topicOf[m.session], nodes |-> m.nodes, up |-> m.op = "NeighborUp"]>>
  ELSE <<>>

-----------------------------------------------------------------------------
(* The overlay.                                                            *)

\* The first neighbour completes the join; later ones are events.
OverlayUp(g, s, n) ==
  LET guard == g.guards[s]
  IN  Cast([g EXCEPT !.guards[s].joined = TRUE, !.guards[s].view = @ \cup {n}],
           [op |-> IF guard.joined THEN "NeighborUp" ELSE "Joined",
            topic |-> guard.topic, session |-> s, nodes |-> {n}])

OverlayDown(g, s, n) ==
  Cast([g EXCEPT !.guards[s].view = @ \ {n}],
       [op |-> "NeighborDown", topic |-> g.guards[s].topic, session |-> s, nodes |-> {n}])
=============================================================================
