------------------------------ MODULE Discovery ------------------------------
(***************************************************************************)
(* Discovery: how nodes find each other's addresses and common topics.     *)
(* Every active node runs                                                  *)
(*   an address book (module AddressBook);                                 *)
(*   an endpoint that connects, accepts (p2panda-net/src/iroh_endpoint),   *)
(*     asks the connection authoriser, reports how connections went and    *)
(*     publishes its own changed address;                                  *)
(*   random walkers that pick the next node to visit                       *)
(*     (p2panda-net/src/discovery/actors/walker.rs, random_walk.rs);       *)
(*   a discovery manager that runs a session with the picked node, writes  *)
(*     its result into the book and sends the walker on (manager.rs);      *)
(*   mDNS, which announces signed transport infos on the local network.    *)
(* A session is the exchange of p2panda-discovery/src/psi_hash.rs: Alice   *)
(* (who connected) and Bob compare salted hashes of their topics and then  *)
(* send each other the transport infos they know.                          *)
(*                                                                         *)
(* Connections fail or break at any time, reports and announcements arrive *)
(* late, topics and addresses change in the middle of a session.  The wall *)
(* clocks agree, and may be set back.                                      *)
(***************************************************************************)
EXTENDS AddressBook, Sequences

CONSTANTS
    Active,        \* the nodes that run; the others are only heard of
    Walkers,       \* the random walkers, a function to the node they run on
    Bootstraps,    \* per active node, its configured bootstrap nodes
    FirstTopics,   \* per active node, the topics it starts with
    Addrs,         \* the addresses an endpoint may have
    FirstAddr,     \* per node, its first address
    Global,        \* those that are globally reachable
    MayBlock,      \* pairs: who the application of a node blocks or not
    MaxSessions,   \* bound on the number of sessions and changes from outside
    MaxEvents,     \* bound on changes from outside
    MaxClock       \* bound on the wall clock

ASSUME DiscoveryAssumption ==
    /\ Active \subseteq Nodes
    /\ Global \subseteq Addrs
    /\ Walkers \in [DOMAIN Walkers -> Active]
    /\ \A n \in Active : Bootstraps[n] \subseteq Nodes \ {n}
    /\ FirstTopics \in [Active -> SUBSET Topics]
    /\ FirstAddr \in [Nodes -> Addrs]
    /\ MayBlock \subseteq Active \X Nodes
ASSUME BoundsAssumption ==
    MaxSessions \in Nat /\ MaxEvents \in Nat /\ MaxClock \in Nat

VARIABLES
    now,        \* the wall clock
    events,     \* how many changes came from outside so far
    book,       \* per node, its address book
    blocked,    \* per node, the nodes its authoriser blocks
    addr,       \* per node, the address of its endpoint
    publishing, \* per node, the addresses spawned publish tasks carry
    announced,  \* history: per node, what the last finished publish task
                \* carried, and when it ran
    ads,        \* the transport infos announced on the local network
    reports,    \* per node, the connection outcomes not recorded yet
    resets,     \* per node, changes its watch task did not forward yet
    walker,     \* per walker, where it is and what it walks from
    inbox,      \* per node, the mailbox of its discovery manager
    sessions,   \* per node, the sessions its manager knows
    failed,     \* per node, failed session actors not yet noticed
    sess        \* per session, connection and both ends of the protocol

vars == <<now, events, book, blocked, addr, publishing, announced, ads,
          reports, resets, walker, inbox, sessions, failed, sess>>

SessionIds == 1 .. MaxSessions

None == "none"

NoSession ==
    [conn |-> "free", alice |-> None, bob |-> None, a |-> None, b |-> None,
     walker |-> None, m2 |-> {}, m3 |-> {}, m4 |-> {}, m5 |-> {},
     mine |-> {}, forAlice |-> {}, forBob |-> {}]

Started ==
    {s \in SessionIds : sess[s].conn # "free"}

-----------------------------------------------------------------------------
(* Sending to the manager of a node. *)
Send(n, m) ==
    inbox' = [inbox EXCEPT ![n] = Append(@, m)]

(* The manager of n takes its next message. *)
Takes(n, type) ==
    /\ inbox[n] # <<>>
    /\ Head(inbox[n]).type = type

Done(n) ==
    inbox' = [inbox EXCEPT ![n] = Tail(@)]

(* Something more may happen. *)
WithinBound ==
    events + Cardinality(Started) < MaxSessions

(* Something from outside happens. *)
External ==
    /\ events < MaxEvents
    /\ WithinBound
    /\ events' = events + 1

-----------------------------------------------------------------------------
(* The walkers. *)

(* A NextNode message is on its way to the walker: prev is the previous
   result, if any, that it walks from (the nodes in it; a set of at most one
   element), slow tells that the success rate of the last session was under
   the threshold. *)
NextNode(w, prev, slow) ==
    [walker EXCEPT ![w].pc = "queued", ![w].prev = prev, ![w].slow = slow]

(* The walker has to wait: its backoff was incremented (or was long enough
   and starts again from zero, see WalkerSteps). *)
WalkerBacksOff(w) ==
    /\ walker[w].pc = "queued"
    /\ walker[w].slow
    /\ walker' = [walker EXCEPT ![w].pc = "asleep"]
    /\ UNCHANGED <<now, events, book, blocked, addr, publishing, announced,
                   ads, reports, resets, inbox, sessions, failed, sess>>

(* RandomWalker::merge_previous. *)
MergePrevious(w) ==
    walker[w].unvisited
        \cup ((UNION walker[w].prev) \ walker[w].visited)

(* When the walk is to start from scratch: always without a previous
   result, and when all nodes were visited; otherwise by chance. *)
Resets(w) ==
    IF walker[w].prev = {} \/ MergePrevious(w) = {} THEN {TRUE}
    ELSE BOOLEAN

(* RandomWalker::random_bootstrap_node: a bootstrap node other than
   ourselves if there is one; nothing if we are the only one; any unvisited
   node if there is none. *)
RandomBootstrapNode(n, unvisited) ==
    LET bootstraps == AllBootstrapNodes(book[n])
    IN  IF bootstraps = {} THEN unvisited ELSE bootstraps \ {n}

(* Nothing to visit: after a pause the walker starts from scratch. *)
TriesAgain(w) ==
    NextNode(w, {}, FALSE)

(* RandomWalker::reset: all known nodes are to be visited again, those left
   from before too. *)
AllUnvisited(n, unvisited) ==
    unvisited \cup (AllNodeInfos(book[n]) \ {n})

(* Without a backoff or after it: RandomWalker::next_node, and what the
   walker does with the answer. *)
WalkerSteps(w) ==
    LET n == Walkers[w] IN
    /\ walker[w].pc \in {"queued", "asleep"}
    /\ \E reset \in Resets(w) :
           LET unvisited == IF reset THEN AllUnvisited(n, MergePrevious(w))
                            ELSE MergePrevious(w)
               visited == IF reset THEN {n} ELSE walker[w].visited
               sampled == IF reset THEN RandomBootstrapNode(n, unvisited)
                          ELSE unvisited
           IN  \/ \E id \in sampled :
                      /\ walker' = [NextNode(w, {}, FALSE) EXCEPT
                             ![w].pc = "away",
                             ![w].unvisited = unvisited \ {id},
                             ![w].visited = visited \cup {id}]
                      /\ Send(n, [type |-> "InitiateSession",
                                  remote |-> id, walker |-> w])
               \/ /\ sampled = {}
                  /\ walker' = [TriesAgain(w) EXCEPT
                             ![w].unvisited = unvisited,
                             ![w].visited = visited]
                  /\ UNCHANGED inbox
    /\ UNCHANGED <<now, events, book, blocked, addr, publishing, announced,
                   ads, reports, resets, sessions, failed, sess>>

-----------------------------------------------------------------------------
(* The discovery manager. *)

RepeatLastWalkStep(w) ==
    walker' = NextNode(w, walker[w].last, TRUE)

(* Mutant: a session with a node that became stale is dropped silently. *)
DropStale(w) ==
    UNCHANGED walker

(* A session is not begun when the node became stale in the meantime. *)
SkipStale(w) ==
    RepeatLastWalkStep(w)

InitiateSession(n) ==
    /\ Takes(n, "InitiateSession")
    /\ LET m == Head(inbox[n]) IN
       \/ /\ IsStale(book[n], m.remote)
          /\ SkipStale(m.walker)
          /\ UNCHANGED <<sessions, sess>>
       \/ /\ ~ IsStale(book[n], m.remote)
          /\ WithinBound
          /\ LET s == Cardinality(Started) + 1 IN
             /\ sess' = [sess EXCEPT ![s] =
                    [NoSession EXCEPT !.conn = "new", !.alice = "connect",
                        !.a = n, !.b = m.remote, !.walker = m.walker]]
             /\ sessions' = [sessions EXCEPT ![n] = @ \cup {s}]
          /\ UNCHANGED walker
    /\ Done(n)
    /\ UNCHANGED <<now, events, book, blocked, addr, publishing, announced,
                   ads, reports, resets, failed>>

AcceptSession(n) ==
    /\ Takes(n, "AcceptSession")
    /\ LET s == Head(inbox[n]).session IN
       /\ sess' = [sess EXCEPT ![s].bob = "recv1"]
       /\ sessions' = [sessions EXCEPT ![n] = @ \cup {s}]
    /\ Done(n)
    /\ UNCHANGED <<now, events, book, blocked, addr, publishing, announced,
                   ads, reports, resets, walker, failed>>

(* next_walk_step: the rate is under the threshold when the session brought
   transport infos and none of them was new.  (When it brought none at all
   it is 0/0, which is not under it.) *)
NextWalkStep(w, ids, learned) ==
    walker' = [NextNode(w, {ids}, ids # {} /\ learned = 0) EXCEPT
                   ![w].last = {ids}]

(* What a finished session brought to its end at n. *)
Infos(s, n) ==
    IF n = sess[s].a THEN sess[s].m4 ELSE sess[s].m5

CommonTopics(s, n) ==
    IF n = sess[s].a THEN sess[s].forAlice ELSE sess[s].forBob

Remote(s, n) ==
    IF n = sess[s].a THEN sess[s].b ELSE sess[s].a

(* Inserting each transport info of a result (one per node, so their order
   does not matter). *)
WithInfos(b, infos) ==
    LET of(id) == CHOOSE i \in infos : i.node = id
        ids == {i.node : i \in infos}
    IN  [b EXCEPT !.infos =
            [id \in Known(b) \cup ids |->
                IF id \in ids
                    THEN UpdateTransports(NodeInfo(b, id), of(id).info)
                    ELSE b.infos[id]]]

NewlyLearned(b, infos) ==
    Cardinality({i \in infos :
                     IsNewer(NodeInfo(b, i.node).transports, i.info)})

(* insert_address_book, the new book and the number of newly learned infos:
   all infos are inserted, then the topics of the remote node.  It stops,
   without the topics, at an info that is not authentic, and when a call
   fails, after which it counts as if nothing was learned. *)
InsertAddressBook(n, s) ==
    LET infos == Infos(s, n)
        whole == SetTopics(WithInfos(book[n], infos), Remote(s, n),
                           CommonTopics(s, n))
    IN  {[book |-> whole, learned |-> NewlyLearned(book[n], infos)]}
            \cup UNION {{[book |-> WithInfos(book[n], part), learned |-> l] :
                             l \in {0, NewlyLearned(book[n], part)}} :
                         part \in SUBSET infos \ {infos}}

(* Own node info watchers: the watch task asks for a reset of the walkers
   when our own row changed and has transports. *)
OwnInfoEvents(n, before, after) ==
    IF /\ n \in Known(after)
       /\ (n \notin Known(before) \/ before.infos[n] # after.infos[n])
       /\ after.infos[n].transports # {}
    THEN 1 ELSE 0

OnSuccess(n) ==
    /\ Takes(n, "OnSuccess")
    /\ LET s == Head(inbox[n]).session
           ids == {i.node : i \in Infos(s, n)}
           w == sess[s].walker
       IN  \E inserted \in InsertAddressBook(n, s) :
           /\ s \in sessions[n]
           /\ sessions' = [sessions EXCEPT ![n] = @ \ {s}]
           /\ sess' = IF n = sess[s].a THEN [sess EXCEPT ![s].m4 = {}]
                      ELSE [sess EXCEPT ![s].m5 = {}]
           /\ book' = [book EXCEPT ![n] = inserted.book]
           /\ resets' = [resets EXCEPT
                   ![n] = @ + OwnInfoEvents(n, book[n], inserted.book)]
           /\ IF sess[s].a = n THEN NextWalkStep(w, ids, inserted.learned)
              ELSE UNCHANGED walker
    /\ Done(n)
    /\ UNCHANGED <<now, events, blocked, addr, publishing, announced, ads,
                   reports, failed>>

OnFailure(n) ==
    /\ Takes(n, "OnFailure")
    /\ LET s == Head(inbox[n]).session IN
       /\ s \in sessions[n]
       /\ sessions' = [sessions EXCEPT ![n] = @ \ {s}]
       /\ IF sess[s].a = n THEN RepeatLastWalkStep(sess[s].walker)
          ELSE UNCHANGED walker
    /\ Done(n)
    /\ UNCHANGED <<now, events, book, blocked, addr, publishing, announced,
                   ads, reports, resets, failed, sess>>

(* ResetWalkers: notify_waiters reaches the walkers that wait for their
   backoff at this moment and no other. *)
ResetWalkers(n) ==
    /\ Takes(n, "ResetWalkers")
    /\ walker' = [w \in DOMAIN walker |->
           IF Walkers[w] = n /\ walker[w].pc = "asleep"
               THEN NextNode(w, {}, FALSE)[w]
               ELSE walker[w]]
    /\ Done(n)
    /\ UNCHANGED <<now, events, book, blocked, addr, publishing, announced,
                   ads, reports, resets, sessions, failed, sess>>

(* The watch task forwards a change of our own topics or address. *)
WatchTask(n) ==
    /\ resets[n] > 0
    /\ resets' = [resets EXCEPT ![n] = @ - 1]
    /\ Send(n, [type |-> "ResetWalkers"])
    /\ UNCHANGED <<now, events, book, blocked, addr, publishing, announced,
                   ads, reports, walker, sessions, failed, sess>>

(* The manager notices that a session actor failed. *)
HandleSupervisorEvt(n) ==
    \E s \in failed[n] :
        /\ failed' = [failed EXCEPT ![n] = @ \ {s}]
        /\ IF s \in sessions[n]
               THEN Send(n, [type |-> "OnFailure", session |-> s])
               ELSE UNCHANGED inbox
        /\ UNCHANGED <<now, events, book, blocked, addr, publishing,
                       announced, ads, reports, resets, walker, sessions,
                       sess>>

-----------------------------------------------------------------------------
(* The endpoint. *)

Fails(n, s) ==
    failed' = [failed EXCEPT ![n] = @ \cup {s}]

Report(n, id, role, ok) ==
    [node |-> n, remote |-> id, role |-> role, ok |-> ok]

(* Alice's session connects.  Without a row, or without an address in it,
   nothing is tried. *)
ConnectWithoutAddress(s) ==
    LET a == sess[s].a  b == sess[s].b IN
    /\ sess[s].alice = "connect"
    /\ NodeInfo(book[a], b).transports = {}
    /\ sess' = [sess EXCEPT ![s].conn = "lost", ![s].alice = "failed"]
    /\ Fails(a, s)
    /\ UNCHANGED <<now, events, book, blocked, addr, publishing, announced,
                   ads, reports, resets, walker, inbox, sessions>>

(* The attempt fails: our authoriser rejects it, or the node does not
   answer. *)
ConnectFails(s) ==
    LET a == sess[s].a  b == sess[s].b IN
    /\ sess[s].alice = "connect"
    /\ NodeInfo(book[a], b).transports # {}
    /\ sess' = [sess EXCEPT ![s].conn = "lost", ![s].alice = "failed"]
    /\ Fails(a, s)
    /\ reports' = reports \cup {Report(a, b, "connect", FALSE)}
    /\ UNCHANGED <<now, events, book, blocked, addr, publishing, announced,
                   ads, resets, walker, inbox, sessions>>

(* ConnectionAuthoriser::can_connect, for both of its hooks. *)
CanConnect(n, id) ==
    id \notin blocked[n]

(* The attempt succeeds; Bob's endpoint accepts it, reports it and hands it
   to the discovery manager, unless its authoriser rejects it after the
   handshake: then only Alice believes she is connected. *)
Connect(s) ==
    LET a == sess[s].a  b == sess[s].b
        accepted == CanConnect(b, a)
    IN
    /\ sess[s].alice = "connect"
    /\ b \in Active
    /\ NodeInfo(book[a], b).transports # {}
    /\ CanConnect(a, b)
    /\ sess' = [sess EXCEPT ![s].alice = "recv2",
                    ![s].conn = IF accepted THEN "up" ELSE "lost"]
    /\ reports' = reports \cup {Report(a, b, "connect", TRUE)}
                     \cup (IF accepted THEN {Report(b, a, "accept", TRUE)}
                           ELSE {})
    /\ IF accepted THEN Send(b, [type |-> "AcceptSession", session |-> s])
       ELSE UNCHANGED inbox
    /\ UNCHANGED <<now, events, book, blocked, addr, publishing, announced,
                   ads, resets, walker, sessions, failed>>

(* connectivity_status of the endpoint's own address. *)
IsGlobal(n) ==
    addr[n] \in Global

(* Report: failed attempts of a node that is not reachable globally itself
   are not held against the other. *)
HandleReport(r) ==
    /\ r \in reports
    /\ reports' = reports \ {r}
    /\ IF r.role = "connect" /\ ~ r.ok /\ ~ IsGlobal(r.node)
           THEN UNCHANGED book
           ELSE \E b \in Reported(book[r.node], r.remote, r.ok) :
                    book' = [book EXCEPT ![r.node] = b]
    /\ UNCHANGED <<now, events, blocked, addr, publishing, announced, ads,
                   resets, walker, inbox, sessions, failed, sess>>

(* A connection breaks (or runs into its idle timeout). *)
ConnectionBreaks(s) ==
    /\ sess[s].conn = "up"
    /\ sess' = [sess EXCEPT ![s].conn = "lost"]
    /\ UNCHANGED <<now, events, book, blocked, addr, publishing, announced, ads,
                   reports, resets, walker, inbox, sessions, failed>>

-----------------------------------------------------------------------------
(* The protocol.  The salt of a session is unique; its last byte tells the
   two directions apart. *)

HashVector(topics, salt) ==
    {<<t, salt>> : t \in topics}

ComputeIntersection(local, remote, salt) ==
    {t \in local : <<t, salt>> \in remote}

AliceSalt(s) == <<s, 0>>

BobSalt(s) == <<s, 1>>

(* gather_transport_infos, with the default configuration: everything
   signed that is known of nodes that are not stale. *)
GatherTransportInfos(n) ==
    UNION {{[node |-> id, info |-> t] : t \in SignedTransports(book[n], id)} :
               id \in AllNodeInfos(book[n])}

MyTopics(n) ==
    book[n].topics[n]

ProtocolStep ==
    UNCHANGED <<now, events, book, blocked, addr, publishing, announced, ads,
                reports, resets, walker, sessions>>

(* Bob has Alice's salt: he reads his topics, once for the whole session,
   and sends their hashes. *)
BobHashes(s) ==
    LET mine == MyTopics(sess[s].b) IN
    /\ sess[s].conn = "up"
    /\ sess[s].bob = "recv1"
    /\ sess[s].alice = "recv2"
    /\ sess' = [sess EXCEPT ![s].bob = "recv3", ![s].mine = mine,
                    ![s].m2 = HashVector(mine, BobSalt(s))]
    /\ ProtocolStep
    /\ UNCHANGED <<inbox, failed>>

(* Alice has Bob's hashes: she reads her topics, intersects and sends
   hers. *)
AliceHashes(s) ==
    LET mine == MyTopics(sess[s].a) IN
    /\ sess[s].conn = "up"
    /\ sess[s].alice = "recv2"
    /\ sess[s].bob = "recv3"
    /\ sess' = [sess EXCEPT ![s].alice = "recv4",
                    ![s].forAlice =
                        ComputeIntersection(mine, sess[s].m2, BobSalt(s)),
                    ![s].m2 = {},
                    ![s].m3 = HashVector(mine, AliceSalt(s))]
    /\ ProtocolStep
    /\ UNCHANGED <<inbox, failed>>

(* Mutant: Bob reads his topics again. *)
BobTopicsReadAgain(s) ==
    MyTopics(sess[s].b)

BobTopics(s) ==
    sess[s].mine

(* Bob has Alice's hashes: he intersects and sends the nodes he knows. *)
BobSendsNodes(s) ==
    /\ sess[s].conn = "up"
    /\ sess[s].bob = "recv3"
    /\ sess[s].alice = "recv4"
    /\ sess' = [sess EXCEPT ![s].bob = "recv5",
                    ![s].forBob = ComputeIntersection(BobTopics(s),
                                      sess[s].m3, AliceSalt(s)),
                    ![s].mine = {}, ![s].m3 = {},
                    ![s].m4 = GatherTransportInfos(sess[s].b)]
    /\ ProtocolStep
    /\ UNCHANGED <<inbox, failed>>

(* Alice has Bob's nodes: she sends hers and waits until Bob closes the
   connection. *)
AliceSendsNodes(s) ==
    /\ sess[s].conn = "up"
    /\ sess[s].alice = "recv4"
    /\ sess[s].bob = "recv5"
    /\ sess' = [sess EXCEPT ![s].alice = "closing",
                    ![s].m5 = GatherTransportInfos(sess[s].a)]
    /\ ProtocolStep
    /\ UNCHANGED <<inbox, failed>>

(* Bob has Alice's nodes: he is done, closes and tells his manager. *)
BobIsDone(s) ==
    /\ sess[s].conn = "up"
    /\ sess[s].bob = "recv5"
    /\ sess[s].alice = "closing"
    /\ sess' = [sess EXCEPT ![s].bob = "done", ![s].conn = "closed"]
    /\ Send(sess[s].b, [type |-> "OnSuccess", session |-> s])
    /\ ProtocolStep
    /\ UNCHANGED failed

(* The connection ended, however it did, and Alice is done. *)
AliceIsDone(s) ==
    /\ sess[s].alice = "closing"
    /\ sess[s].conn # "up"
    /\ sess' = [sess EXCEPT ![s].alice = "done"]
    /\ Send(sess[s].a, [type |-> "OnSuccess", session |-> s])
    /\ ProtocolStep
    /\ UNCHANGED failed

(* An end that still has something to send or to receive fails with the
   connection. *)
AliceFails(s) ==
    /\ sess[s].alice \in {"recv2", "recv4"}
    /\ sess[s].conn = "lost"
    /\ sess' = [sess EXCEPT ![s].alice = "failed"]
    /\ Fails(sess[s].a, s)
    /\ ProtocolStep
    /\ UNCHANGED inbox

BobFails(s) ==
    /\ sess[s].bob \in {"recv1", "recv3", "recv5"}
    /\ sess[s].conn = "lost"
    /\ sess' = [sess EXCEPT ![s].bob = "failed"]
    /\ Fails(sess[s].b, s)
    /\ ProtocolStep
    /\ UNCHANGED inbox

-----------------------------------------------------------------------------
(* Changes from outside. *)

(* iroh found that the endpoint's address changed and calls publish, which
   spawns a task. *)
AddressChanges(n) ==
    /\ External
    /\ \E d \in Addrs \ {addr[n]} :
           /\ addr' = [addr EXCEPT ![n] = d]
           /\ publishing' = [publishing EXCEPT ![n] = @ \cup {d}]
    /\ UNCHANGED <<now, book, blocked, announced, ads, reports, resets,
                   walker, inbox, sessions, failed, sess>>

(* Mutant: the timestamp of a publish does not look at the previous one. *)
StampNow(previous) ==
    <<now, 0>>

(* UnsignedTransportInfo::increment_timestamp. *)
StampAfter(previous) ==
    IF previous = {} THEN <<now, 0>>
    ELSE Increment((CHOOSE t \in previous : TRUE).stamp, now)

(* UpdateNodeInfo of the mDNS service. *)
Announce(n, b) ==
    ads' = ads \cup {[node |-> n, info |-> t] : t \in SignedTransports(b, n)}

(* A publish task, alone behind its semaphore: unless the address is the
   one published last, it is stamped, signed and written into the own book;
   the mDNS service announces what the watcher of our own row tells it. *)
Publish(n) ==
    \E d \in publishing[n] :
        LET previous == SignedTransports(book[n], n)
            info == AuthenticatedTransportInfo(StampAfter(previous), d)
            changed == \A t \in previous : t.addr # d
            b == IF changed THEN InsertTransportInfo(book[n], n, info)
                 ELSE book[n]
        IN  /\ publishing' = [publishing EXCEPT ![n] = @ \ {d}]
            /\ announced' = [announced EXCEPT ![n] = [addr |-> d, at |-> now]]
            /\ book' = [book EXCEPT ![n] = b]
            /\ resets' = [resets EXCEPT
                              ![n] = @ + OwnInfoEvents(n, book[n], b)]
            /\ Announce(n, b)
            /\ UNCHANGED <<now, events, blocked, addr, reports, walker,
                           inbox, sessions, failed, sess>>

(* DiscoveredEndpointInfo: an announcement, maybe an old one, arrives. *)
Discovered(n) ==
    /\ External
    /\ \E ad \in ads :
           /\ ad.node # n
           /\ book' = [book EXCEPT
                           ![n] = InsertTransportInfo(@, ad.node, ad.info)]
    /\ UNCHANGED <<now, blocked, addr, publishing, announced, ads, reports,
                   resets, walker, inbox, sessions, failed, sess>>

(* Own topics watchers: only an added topic resets walkers. *)
OwnTopicEvents(n, before, after) ==
    IF after.topics[n] \ before.topics[n] # {} THEN 1 ELSE 0

(* The first handle of a topic is opened or the last one is dropped (gossip
   manager): our own topics change. *)
Subscribe(n, t) ==
    /\ External
    /\ t \notin book[n].topics[n]
    /\ book' = [book EXCEPT ![n] = AddTopic(@, n, t)]
    /\ resets' = [resets EXCEPT
                      ![n] = @ + OwnTopicEvents(n, book[n], book'[n])]
    /\ UNCHANGED <<now, blocked, addr, publishing, announced, ads, reports,
                   walker, inbox, sessions, failed, sess>>

Unsubscribe(n, t) ==
    /\ External
    /\ t \in book[n].topics[n]
    /\ book' = [book EXCEPT ![n] = RemoveTopic(@, n, t)]
    /\ resets' = [resets EXCEPT
                      ![n] = @ + OwnTopicEvents(n, book[n], book'[n])]
    /\ UNCHANGED <<now, blocked, addr, publishing, announced, ads, reports,
                   walker, inbox, sessions, failed, sess>>

(* insert_bootstrap of a running node. *)
BootstrapAdded(n, id) ==
    /\ External
    /\ book' = [book EXCEPT ![n] =
                    InsertBootstrap(@, id,
                        TrustedTransportInfo(now, FirstAddr[id]))]
    /\ UNCHANGED <<now, blocked, addr, publishing, announced, ads, reports,
                   resets, walker, inbox, sessions, failed, sess>>

(* ConnectionAuthoriser, in permissive mode. *)
Block(n, id) ==
    /\ External
    /\ id \notin blocked[n]
    /\ blocked' = [blocked EXCEPT ![n] = @ \cup {id}]
    /\ UNCHANGED <<now, book, addr, publishing, announced, ads, reports,
                   resets, walker, inbox, sessions, failed, sess>>

Allow(n, id) ==
    /\ External
    /\ id \in blocked[n]
    /\ blocked' = [blocked EXCEPT ![n] = @ \ {id}]
    /\ UNCHANGED <<now, book, addr, publishing, announced, ads, reports,
                   resets, walker, inbox, sessions, failed, sess>>

(* AddressBook::remove_node_info, by the application. *)
Forget(n, id) ==
    /\ External
    /\ id \in Known(book[n]) \ {n}
    /\ book' = [book EXCEPT ![n] = RemoveNodeInfo(@, id)]
    /\ UNCHANGED <<now, blocked, addr, publishing, announced, ads, reports,
                   resets, walker, inbox, sessions, failed, sess>>

(* Time goes by, or somebody sets the clock. *)
ClockTicks ==
    /\ \/ now < MaxClock /\ now' = now + 1
       \/ now' \in 0 .. now - 1
    /\ UNCHANGED <<events, book, blocked, addr, publishing, announced, ads,
                   reports, resets, walker, inbox, sessions, failed, sess>>

-----------------------------------------------------------------------------
(* The nodes just started: the walkers start from a bootstrap node; the
   first address of a node is published and announced.  The nodes that are
   only heard of were announced before. *)
Init ==
    /\ now = 0
    /\ events = 0
    /\ addr = [n \in Active |-> FirstAddr[n]]
    /\ book = [n \in Active |->
           [EmptyBook EXCEPT
               !.infos = [id \in Bootstraps[n] \cup {n} |->
                   [NewNodeInfo EXCEPT
                        !.bootstrap = id \in Bootstraps[n],
                        !.transports = {TransportInfo(<<0, 0>>,
                                            FirstAddr[id], id = n)}]],
               !.topics[n] = FirstTopics[n]]]
    /\ \E p \in SUBSET MayBlock :
           blocked = [n \in Active |-> {id \in Nodes : <<n, id>> \in p}]
    /\ publishing = [n \in Active |-> {}]
    /\ announced = [n \in Active |-> [addr |-> FirstAddr[n], at |-> 0]]
    /\ ads = {[node |-> id,
                info |-> AuthenticatedTransportInfo(<<0, 0>>,
                             FirstAddr[id])] :
                   id \in Nodes}
    /\ reports = {}
    /\ resets = [n \in Active |-> 0]
    /\ walker = [w \in DOMAIN Walkers |->
                    [pc |-> "queued", prev |-> {}, slow |-> FALSE,
                     last |-> {}, unvisited |-> {}, visited |-> {}]]
    /\ inbox = [n \in Active |-> <<>>]
    /\ sessions = [n \in Active |-> {}]
    /\ failed = [n \in Active |-> {}]
    /\ sess = [s \in SessionIds |-> NoSession]

Next ==
    \/ \E w \in DOMAIN Walkers :
           WalkerBacksOff(w) \/ WalkerSteps(w)
    \/ \E n \in Active :
           \/ InitiateSession(n) \/ AcceptSession(n) \/ OnSuccess(n)
           \/ OnFailure(n) \/ ResetWalkers(n) \/ WatchTask(n)
           \/ HandleSupervisorEvt(n) \/ AddressChanges(n) \/ Publish(n)
           \/ Discovered(n)
           \/ \E t \in Topics : Subscribe(n, t) \/ Unsubscribe(n, t)
           \/ \E id \in Nodes \ {n} :
                  BootstrapAdded(n, id) \/ Forget(n, id)
    \/ \E p \in MayBlock : Block(p[1], p[2]) \/ Allow(p[1], p[2])
    \/ \E s \in SessionIds :
           \/ ConnectWithoutAddress(s) \/ ConnectFails(s) \/ Connect(s)
           \/ ConnectionBreaks(s) \/ BobHashes(s) \/ AliceHashes(s)
           \/ BobSendsNodes(s) \/ AliceSendsNodes(s) \/ BobIsDone(s)
           \/ AliceIsDone(s) \/ AliceFails(s) \/ BobFails(s)
    \/ \E r \in reports : HandleReport(r)
    \/ ClockTicks

Spec ==
    Init /\ [][Next]_vars

-----------------------------------------------------------------------------
Count(n, P(_)) ==
    Cardinality({i \in DOMAIN inbox[n] : P(inbox[n][i])})

OneIf(p) ==
    IF p THEN 1 ELSE 0

(* The end of session s at node n still runs. *)
Runs(s, n) ==
    \/ n = sess[s].a
       /\ sess[s].alice \in {"connect", "recv2", "recv4", "closing"}
    \/ n = sess[s].b
       /\ sess[s].bob \in {"recv1", "recv3", "recv5"}

(* The random walk of a node goes on for as long as the node runs, and never
   twice at a time: a walker is either at work itself (or its next message
   is on the way), or its request for a session waits in the manager's
   mailbox, or exactly one session runs for it.  And every session the
   manager knows ends exactly once: it runs, or it failed and the manager
   is about to notice, or its one outcome is in the mailbox; no outcome is
   about a session that is not known (handle of manager.rs would panic with
   "session info to exist when ..."). *)
WalkGoesOn ==
    /\ \A w \in DOMAIN Walkers :
          LET n == Walkers[w] IN
          OneIf(walker[w].pc # "away")
            + Count(n, LAMBDA m : m.type = "InitiateSession"
                                    /\ m.walker = w)
            + Cardinality({s \in sessions[n] : sess[s].walker = w
                                                 /\ sess[s].a = n}) = 1
    /\ \A n \in Active, s \in SessionIds :
          OneIf(Runs(s, n)) + OneIf(s \in failed[n])
            + Count(n, LAMBDA m : m.type \in {"OnSuccess", "OnFailure"}
                                    /\ m.session = s)
          = OneIf(s \in sessions[n])

(* "At the end of a sucessful run both peers should end up with the same set
   of intersecting topics" (psi_hash.rs): also when topics are added to or
   removed from either node while the session runs. *)
SameTopics ==
    \A s \in SessionIds :
        (sess[s].alice \in {"recv4", "closing", "done"}
           /\ sess[s].bob \in {"recv5", "done"})
        => sess[s].forAlice = sess[s].forBob

(* Last write wins agrees with the author: a node's own row has the address
   the last of its publish tasks carried, and wherever else a signed
   transport info of it is (in another node's book, in a discovery message
   or announced with mDNS), it is older than that or the same.  The one
   exception is a task that ran while the clock was behind the timestamp of
   the row: HybridTimestamp::increment then gives an earlier timestamp than
   the previous one and the node's own book refuses the new address.  Even
   then nobody has anything newer than the author. *)
NewestIsOwn ==
    \A n \in Active :
        LET copies == {i.info : i \in {j \in ads \cup UNION {sess[s].m4
                            \cup sess[s].m5 : s \in SessionIds} :
                                j.node = n}}
                      \cup UNION {SignedTransports(book[o], n) : o \in Active}
        IN  \E t \in book[n].infos[n].transports :
                /\ t.addr = announced[n].addr \/ announced[n].at < t.stamp[1]
                /\ \A c \in copies : c = t \/ Later(t.stamp, c.stamp)

=============================================================================
