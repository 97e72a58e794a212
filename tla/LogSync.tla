------------------------------- MODULE LogSync -------------------------------
(***************************************************************************)
(* A sync session between two peers (p2panda-sync: LogSync inside of        *)
(* TopicLogSync), together with the stores it reads and the applications    *)
(* which publish and ingest meanwhile.                                      *)
(*                                                                          *)
(* First the peers compare the heights of their logs and send each other    *)
(* what is missing, then they push new operations ("live mode") until one   *)
(* of them closes the session.  A peer is one task: while it waits for room *)
(* on the wire it does nothing else.                                        *)
(*                                                                          *)
(* Sequence numbers start at 0, the height of an unknown log is -1.         *)
(***************************************************************************)
EXTENDS Integers, Sequences, FiniteSets, SequencesExt

CONSTANTS
    Peer,         \* the two peers
    Log,          \* logs of the topic
    author,       \* the peer which appends to a log
    Length,       \* number of operations in a log
    Heights,      \* what the peers have in the beginning: heights of their logs
    PrunePoints,  \* sequence numbers with a prune flag
    Window,       \* messages which fit on the wire in one direction
    Capacity,     \* size of the deduplication buffer
    MaxPublished, \* operations published during the session
    MaxFaults     \* failing sessions

ASSUME PeerAssumption == Cardinality(Peer) = 2 /\ author \in [Log -> Peer]
\* A peer never has more of a log than its author.
ASSUME HeightsAssumption ==
    \A height \in Heights, p \in Peer, l \in Log :
        /\ height[p][l] \in -1 .. Length - 1
        /\ height[p][l] <= height[author[l]][l]
ASSUME BoundAssumption ==
    /\ {Length, Window, Capacity} \subseteq Nat \ {0}
    /\ {MaxPublished, MaxFaults} \subseteq Nat
    /\ PrunePoints \subseteq 1 .. Length - 1

VARIABLES
    store,      \* operations in the database of a peer
    app,        \* published operations on their way, pending prunes
    session,    \* the protocol's state machine
    wire,       \* the incoming stream of a peer and whether it ended
    delivered,  \* history: operations given to the application
    rejected,   \* history: operations the application's log did not accept
    told,       \* what the events of the session told the application
    published,  \* number of operations published ..
    faults      \* .. and of failures so far

vars == <<store, app, session, wire, delivered, rejected, told, published, faults>>

-----------------------------------------------------------------------------
Op == Log \X (0 .. Length - 1)

Other(p) == CHOOSE q \in Peer : q # p

HasPruneFlag(o) == o[2] \in PrunePoints

Message(kind, body) == [kind |-> kind, body |-> body]

\* get_log_heights
Height(rows, l) == Max({-1} \union {o[2] : o \in {r \in rows : r[1] = l}})

\* Mutant: the end of the range is exclusive.
CompareExclusive(local, remote) ==
    [l \in Log |-> IF remote[l] < local[l] THEN remote[l] + 1 .. local[l] - 1 ELSE {}]

\* compare: the entries of every log the remote needs.
Compare(local, remote) ==
    [l \in Log |-> IF remote[l] < local[l] THEN remote[l] + 1 .. local[l] ELSE {}]

\* Mutant: the item is not kept.
InsertNothing(buffer, o) == buffer

\* DeduplicationBuffer::insert, for an item which is not contained.
Insert(buffer, o) ==
    Append(IF Len(buffer) + 1 > Capacity THEN Tail(buffer) ELSE buffer, o)

\* What was sent is remembered as well.
Remember(buffer, o) == IF Contains(buffer, o) THEN buffer ELSE Insert(buffer, o)

\* log_entries: rows of the range in the order of the log.
Rows(rows, l, range) ==
    LET found == {o \in rows : o[1] = l /\ o[2] \in range}
    IN  SetToSortSeq(found, LAMBDA a, b : a[2] < b[2])

\* How a stream ends when the remote is gone: its sink was closed, or the
\* connection is closed and the last messages may be lost.
Endings(w) ==
    IF w.end # "open" THEN {w} ELSE {[w EXCEPT !.end = e] : e \in {"end", "error"}}

-----------------------------------------------------------------------------
(* Events.  Of the metrics the numbers of operations are modelled, bytes    *)
(* are counted along with them.                                             *)

NewMetrics ==
    [outbound |-> 0, inbound |-> 0, sent |-> 0, received |-> 0, sentLive |-> 0, receivedLive |-> 0]

ReceivedOperations(metrics) == metrics.received + metrics.receivedLive

Event(type, metrics) == [type |-> type, metrics |-> metrics]

\* What the application knows of the session: the latest metrics, whether it
\* is in live mode, and the operations counted by the last report of its end.
NothingTold == [metrics |-> NewMetrics, live |-> FALSE, ended |-> {}]

\* Aggregator::process, for one session.
Aggregate(t, event) ==
    CASE event.type \in {"SyncStarted", "OperationReceived"} -> [t EXCEPT !.metrics = event.metrics]
      [] event.type = "SyncFinished" ->
            [t EXCEPT !.metrics = event.metrics, !.ended = {ReceivedOperations(event.metrics)}]
      [] event.type = "LiveModeStarted" -> [t EXCEPT !.live = TRUE]
      [] event.type = "SessionFinished" -> [t EXCEPT !.metrics = NewMetrics, !.live = FALSE]
      [] event.type = "Failed" ->
            [metrics |-> NewMetrics, live |-> FALSE, ended |-> {ReceivedOperations(t.metrics)}]

Tell(p, events) == told' = [told EXCEPT ![p] = FoldLeft(Aggregate, @, events)]

-----------------------------------------------------------------------------
NewSession ==
    [state |-> "Start", logs |-> {}, heights |-> [l \in Log |-> -1],
     ranges |-> [l \in Log |-> {}], todo |-> <<>>, rows |-> <<>>, dedup |-> <<>>,
     doneSent |-> FALSE, doneReceived |-> FALSE, closeSent |-> FALSE,
     live |-> <<>>, sending |-> <<>>, metrics |-> NewMetrics]

\* The log up to a height, pruned.
Pruned(l, height) ==
    {o \in Op : o[1] = l /\ o[2] <= height /\ o[2] >= Max({0} \union {n \in PrunePoints : n <= height})}

Init ==
    /\ \E height \in Heights :
          store = [p \in Peer |-> UNION {Pruned(l, height[p][l]) : l \in Log}]
    /\ app = [p \in Peer |-> [outbox |-> <<>>, pruning |-> {}]]
    /\ session = [p \in Peer |-> NewSession]
    /\ wire = [p \in Peer |-> [messages |-> <<>>, end |-> "open"]]
    /\ delivered = [p \in Peer |-> <<>>]
    /\ rejected = [p \in Peer |-> {}]
    /\ told = [p \in Peer |-> NothingTold]
    /\ published = 0
    /\ faults = 0

Ended(p) == session[p].state \in {"Finished", "Failed"}

\* The task of the peer is in a state and not waiting for the wire.
In(p, state) == session[p].state = state /\ session[p].sending = <<>>

\* The next message of the stream.
HasMessage(p, kinds) ==
    /\ wire[p].messages # <<>>
    /\ Head(wire[p].messages).kind \in kinds

Consume(p) == wire' = [wire EXCEPT ![p].messages = Tail(@)]

\* Flow control of the transport.
HasRoom(p) == wire[Other(p)].end = "open" /\ Len(wire[Other(p)].messages) < Window

\* sink.send: without room on the wire the task waits.
Send(p, s, kind, body) ==
    IF HasRoom(p)
    THEN /\ session' = [session EXCEPT ![p] = s]
         /\ wire' = [wire EXCEPT ![Other(p)].messages = Append(@, Message(kind, body))]
    ELSE /\ session' = [session EXCEPT ![p] = [s EXCEPT !.sending = <<Message(kind, body)>>]]
         /\ UNCHANGED wire

\* The last event of a session.
LastEvent(p, result) ==
    Event(IF result = "Finished" THEN "SessionFinished" ELSE "Failed", session[p].metrics)

\* The protocol returns; its sink and the connection are closed.
Return(p, result) ==
    /\ session' = [session EXCEPT ![p] =
          [NewSession EXCEPT !.state = result, !.heights = session[p].heights]]
    /\ \E w \in Endings(wire[Other(p)]) :
          wire' = [wire EXCEPT ![p] = [messages |-> <<>>, end |-> "error"], ![Other(p)] = w]

-----------------------------------------------------------------------------
(* The wire.                                                               *)

Transmit(p) ==
    /\ session[p].sending # <<>>
    /\ HasRoom(p)
    /\ wire' = [wire EXCEPT ![Other(p)].messages = @ \o session[p].sending]
    /\ session' = [session EXCEPT ![p].sending = <<>>]
    /\ UNCHANGED <<store, app, delivered, rejected, told, published, faults>>

\* The remote is gone and the message still fits into a local buffer ..
TransmitNowhere(p) ==
    /\ session[p].sending # <<>>
    /\ wire[p].end # "open"
    /\ session' = [session EXCEPT ![p].sending = <<>>]
    /\ UNCHANGED <<store, app, wire, delivered, rejected, told, published, faults>>

\* .. or sending fails.
TransmitFails(p) ==
    /\ session[p].sending # <<>>
    /\ wire[p].end # "open"
    /\ Return(p, "Failed")
    /\ Tell(p, <<LastEvent(p, "Failed")>>)
    /\ UNCHANGED <<store, app, delivered, rejected, published, faults>>

\* The session of a peer fails for any other reason, or is dropped without an
\* event.  To its remote a lost connection looks the same.
Abort(p) ==
    /\ ~Ended(p)
    /\ faults < MaxFaults
    /\ faults' = faults + 1
    /\ Return(p, "Failed")
    /\ Tell(p, <<LastEvent(p, "Failed")>>) \/ UNCHANGED told
    /\ UNCHANGED <<store, app, delivered, rejected, published>>

\* The stream ended and the protocol waits for a message.
StreamEnds(p) ==
    /\ wire[p].end = "error" \/ (wire[p].end = "end" /\ wire[p].messages = <<>>)
    /\ \/ In(p, "ReceiveHave") \/ In(p, "ReceivePreSyncOrDone")
       \/ In(p, "Sync") /\ ~session[p].doneReceived /\ wire[p].end = "error"
       \/ In(p, "Live") /\ session[p].live = <<>>
    /\ LET result == IF session[p].closeSent THEN "Finished" ELSE "Failed"
       IN  Return(p, result) /\ Tell(p, <<LastEvent(p, result)>>)
    /\ UNCHANGED <<store, app, delivered, rejected, published, faults>>

-----------------------------------------------------------------------------
(* Log sync.                                                               *)

\* The logs of the topic are resolved before their heights are read.
Start(p) ==
    /\ In(p, "Start")
    /\ session' = [session EXCEPT ![p].state = "SendHave",
                                  ![p].logs = {l \in Log : Height(store[p], l) >= 0}]
    /\ UNCHANGED <<store, app, wire, delivered, rejected, told, published, faults>>

SendHave(p) ==
    LET heights == [l \in Log |-> IF l \in session[p].logs THEN Height(store[p], l) ELSE -1]
    IN  /\ In(p, "SendHave")
        /\ Send(p, [session[p] EXCEPT !.state = "ReceiveHave", !.heights = heights], "Have", heights)
        /\ UNCHANGED <<store, app, delivered, rejected, told, published, faults>>

ReceiveHave(p) ==
    /\ In(p, "ReceiveHave")
    /\ HasMessage(p, {"Have"})
    /\ session' = [session EXCEPT
          ![p].state = "SendPreSync",
          ![p].ranges = Compare(session[p].heights, Head(wire[p].messages).body)]
    /\ Consume(p)
    /\ UNCHANGED <<store, app, delivered, rejected, told, published, faults>>

\* Mutant: the logs with something to send are counted.
LogSizePerLog(rows, ranges) == Cardinality({o[1] : o \in {q \in rows : q[2] \in ranges[q[1]]}})

\* get_log_size: there may be nothing left to send when the log was pruned.
LogSize(rows, ranges) == Cardinality({o \in rows : o[2] \in ranges[o[1]]})

SendPreSync(p) ==
    LET total == LogSize(store[p], session[p].ranges)
        s == [session[p] EXCEPT !.state = "ReceivePreSyncOrDone", !.metrics.outbound = total]
    IN  /\ In(p, "SendPreSync")
        /\ IF total = 0 THEN Send(p, [s EXCEPT !.doneSent = TRUE], "Done", 0)
                        ELSE Send(p, s, "PreSync", total)
        /\ UNCHANGED <<store, app, delivered, rejected, told, published, faults>>

ReceivePreSyncOrDone(p) ==
    LET message == Head(wire[p].messages)
        metrics == [session[p].metrics EXCEPT !.inbound = message.body]
    IN  /\ In(p, "ReceivePreSyncOrDone")
        /\ HasMessage(p, {"PreSync", "Done"})
        /\ session' = [session EXCEPT
              ![p].state = "Sync",
              ![p].doneReceived = message.kind = "Done",
              ![p].todo = SetToSeq({l \in Log : session[p].ranges[l] # {}}),
              ![p].metrics = metrics]
        /\ Consume(p)
        /\ Tell(p, <<Event("SyncStarted", metrics)>>)
        /\ UNCHANGED <<store, app, delivered, rejected, published, faults>>

\* log_ranges: when the rows of a log are sent the next log is queried.
SendOperation(p) ==
    LET s == session[p]
        rows == IF s.rows # <<>> THEN s.rows ELSE Rows(store[p], Head(s.todo), s.ranges[Head(s.todo)])
        todo == IF s.rows # <<>> THEN s.todo ELSE Tail(s.todo)
    IN  /\ In(p, "Sync") /\ ~s.doneSent
        /\ s.rows # <<>> \/ s.todo # <<>>
        /\ IF rows = <<>>
           THEN session' = [session EXCEPT ![p].todo = todo] /\ UNCHANGED wire
           ELSE Send(p, [s EXCEPT !.todo = todo, !.rows = Tail(rows), !.dedup = Remember(@, Head(rows)),
                                !.metrics.sent = @ + 1],
                     "Operation", Head(rows))
        /\ UNCHANGED <<store, app, delivered, rejected, told, published, faults>>

SendDone(p) ==
    LET s == session[p]
    IN  /\ In(p, "Sync") /\ ~s.doneSent
        /\ s.rows = <<>> /\ s.todo = <<>>
        /\ Send(p, [s EXCEPT !.doneSent = TRUE], "Done", 0)
        /\ UNCHANGED <<store, app, delivered, rejected, told, published, faults>>

\* ingest_operation and prune_entries of the receiving application.
Fits(p, o) ==
    o \in store[p] \/ HasPruneFlag(o) \/ o[2] = Height(store[p], o[1]) + 1

Ingested(rows, o) ==
    {q \in rows \union {o} : HasPruneFlag(o) /\ q[1] = o[1] => q[2] >= o[2]}

\* An operation which was not seen yet is given to the application.  It does not
\* matter to the session when it is ingested: the peer never sends it.
Deliver(p, o, metrics) ==
    /\ session' = [session EXCEPT ![p].dedup = Insert(@, o), ![p].metrics = metrics]
    /\ delivered' = [delivered EXCEPT ![p] = Append(@, o)]
    /\ Tell(p, <<Event("OperationReceived", metrics)>>)
    /\ IF Fits(p, o)
       THEN store' = [store EXCEPT ![p] = Ingested(@, o)] /\ UNCHANGED rejected
       ELSE rejected' = [rejected EXCEPT ![p] = @ \union {o}] /\ UNCHANGED store

\* Operations which were seen already are counted, but only while catching up.
ReceiveOperation(p) ==
    /\ In(p, "Sync") /\ ~session[p].doneReceived
    /\ HasMessage(p, {"Operation"})
    /\ LET o == Head(wire[p].messages).body
           metrics == [session[p].metrics EXCEPT !.received = @ + 1]
       IN  IF Contains(session[p].dedup, o)
           THEN /\ session' = [session EXCEPT ![p].metrics = metrics]
                /\ UNCHANGED <<store, delivered, rejected, told>>
           ELSE Deliver(p, o, metrics)
    /\ Consume(p)
    /\ UNCHANGED <<app, published, faults>>

ReceiveDone(p) ==
    /\ In(p, "Sync") /\ ~session[p].doneReceived
    /\ HasMessage(p, {"Done"})
    /\ session' = [session EXCEPT ![p].doneReceived = TRUE]
    /\ Consume(p)
    /\ UNCHANGED <<store, app, delivered, rejected, told, published, faults>>

\* The receiving branch of the select is disabled or its pattern does not match.
AllReceived(p) ==
    \/ session[p].doneReceived
    \/ wire[p].messages = <<>> /\ wire[p].end = "end"

\* Both branches are disabled: SyncFinished, live mode starts.
SyncFinished(p) ==
    /\ In(p, "Sync") /\ session[p].doneSent
    /\ AllReceived(p)
    /\ session' = [session EXCEPT ![p].state = "Live"]
    /\ Tell(p, <<Event("SyncFinished", session[p].metrics), Event("LiveModeStarted", NewMetrics)>>)
    /\ UNCHANGED <<store, app, wire, delivered, rejected, published, faults>>

-----------------------------------------------------------------------------
(* Live mode.  The select is biased towards operations of this peer.       *)

LivePayload(p) ==
    LET s == session[p]
        o == Head(s.live).body
    IN  /\ In(p, "Live")
        /\ s.live # <<>> /\ Head(s.live).kind = "Payload"
        /\ IF Contains(s.dedup, o)
           THEN session' = [session EXCEPT ![p].live = Tail(@)] /\ UNCHANGED wire
           ELSE Send(p, [s EXCEPT !.live = Tail(@), !.dedup = Insert(@, o), !.metrics.sentLive = @ + 1], "Live", o)
        /\ UNCHANGED <<store, app, delivered, rejected, told, published, faults>>

\* The remote closes the connection when it is done.
LiveClose(p) ==
    LET s == session[p]
    IN  /\ In(p, "Live")
        /\ s.live # <<>> /\ Head(s.live).kind = "Close"
        /\ Send(p, [s EXCEPT !.live = Tail(@), !.closeSent = TRUE], "Close", 0)
        /\ UNCHANGED <<store, app, delivered, rejected, told, published, faults>>

LiveReceive(p) ==
    /\ In(p, "Live") /\ session[p].live = <<>>
    /\ HasMessage(p, {"Live"})
    /\ LET o == Head(wire[p].messages).body
       IN  IF Contains(session[p].dedup, o)
           THEN UNCHANGED <<session, store, delivered, rejected, told>>
           ELSE Deliver(p, o, [session[p].metrics EXCEPT !.receivedLive = @ + 1])
    /\ Consume(p)
    /\ UNCHANGED <<app, published, faults>>

\* Mutant: the message is read and the session stays open.
ClosedByRemoteIgnored(p) ==
    /\ In(p, "Live") /\ session[p].live = <<>>
    /\ HasMessage(p, {"Close"})
    /\ Consume(p)
    /\ UNCHANGED <<store, app, session, delivered, rejected, told, published, faults>>

\* The remote asks to close the session.
ClosedByRemote(p) ==
    /\ In(p, "Live") /\ session[p].live = <<>>
    /\ HasMessage(p, {"Close"})
    /\ Return(p, "Finished")
    /\ Tell(p, <<LastEvent(p, "Finished")>>)
    /\ UNCHANGED <<store, app, delivered, rejected, published, faults>>

-----------------------------------------------------------------------------
(* The application: it publishes and pushes its operations to the session. *)

\* create_operation stores the operation.
Publish(l) ==
    LET p == author[l]
        o == <<l, Height(store[p], l) + 1>>
    IN  /\ o \in Op /\ ~Ended(p)
        /\ published < MaxPublished
        /\ published' = published + 1
        /\ store' = [store EXCEPT ![p] = @ \union {o}]
        /\ app' = [app EXCEPT ![p].outbox = Append(@, o)]
        /\ UNCHANGED <<session, wire, delivered, rejected, told, faults>>

IsClosing(p) == \E k \in DOMAIN session[p].live : session[p].live[k].kind = "Close"

\* Mutant: operations are queued only when live mode has started.
IsOpenWhenLive(p) == session[p].state = "Live" /\ ~session[p].closeSent /\ ~IsClosing(p)

\* The session takes operations, from its beginning on.
IsOpen(p) == ~Ended(p) /\ ~session[p].closeSent /\ ~IsClosing(p)

\* process_operation_in: the operation is pushed to the session, then processed.
Push(p) ==
    LET o == Head(app[p].outbox)
    IN  /\ app[p].outbox # <<>>
        /\ app' = [app EXCEPT ![p].outbox = Tail(@),
                              ![p].pruning = @ \union {q \in {o} : HasPruneFlag(q)}]
        /\ session' = IF IsOpen(p) THEN [session EXCEPT ![p].live = Append(@, Message("Payload", o))]
                      ELSE session
        /\ UNCHANGED <<store, wire, delivered, rejected, told, published, faults>>

\* prune_entries
Prune(p, o) ==
    /\ o \in app[p].pruning
    /\ store' = [store EXCEPT ![p] = {q \in @ : q[1] = o[1] => q[2] >= o[2]}]
    /\ app' = [app EXCEPT ![p].pruning = @ \ {o}]
    /\ UNCHANGED <<session, wire, delivered, rejected, told, published, faults>>

\* The topic is closed; nothing is pushed afterwards.
RequestClose(p) ==
    /\ IsOpen(p)
    /\ session' = [session EXCEPT ![p].live = Append(@, Message("Close", 0))]
    /\ UNCHANGED <<store, app, wire, delivered, rejected, told, published, faults>>

-----------------------------------------------------------------------------
Protocol(p) ==
    \/ Transmit(p) \/ TransmitNowhere(p) \/ TransmitFails(p) \/ StreamEnds(p)
    \/ Start(p) \/ SendHave(p) \/ ReceiveHave(p) \/ SendPreSync(p) \/ ReceivePreSyncOrDone(p)
    \/ SendOperation(p) \/ SendDone(p)
    \/ ReceiveOperation(p) \/ ReceiveDone(p) \/ SyncFinished(p)
    \/ LivePayload(p) \/ LiveClose(p) \/ LiveReceive(p) \/ ClosedByRemote(p)

Application(p) == Push(p) \/ (\E o \in Op : Prune(p, o))

Next ==
    \/ \E p \in Peer : Protocol(p) \/ Application(p) \/ Abort(p) \/ RequestClose(p)
    \/ \E l \in Log : Publish(l)

\* Tasks are scheduled; nobody has to publish, to close or to fail.
Fairness ==
    \A p \in Peer : WF_vars(Protocol(p)) /\ WF_vars(Push(p))

Spec == Init /\ [][Next]_vars /\ Fairness

-----------------------------------------------------------------------------
\* The messages a peer understands while it is in a state (or about to be).
Understands(s) ==
    CASE s.state \in {"Start", "SendHave", "ReceiveHave"} -> {"Have"}
      [] s.state \in {"SendPreSync", "ReceivePreSyncOrDone"} -> {"PreSync", "Done"}
      [] s.state = "Sync" /\ ~s.doneReceived -> {"Operation", "Done"}
      [] OTHER -> {"Live", "Close"}

\* There is a prune point behind the operation.
Superseded(o) ==
    \E q \in UNION {store[p] : p \in Peer} : q[1] = o[1] /\ q[2] > o[2] /\ HasPruneFlag(q)

\* "All past state has been replicated": a peer which received the remote's
\* Done message was given everything the remote announced in its Have message,
\* except for what was pruned meanwhile.
PastIsReplicated ==
    \A p \in Peer : session[p].doneReceived =>
        \A o \in Op : o[2] <= session[Other(p)].heights[o[1]] =>
            \/ o \in store[p]
            \/ Superseded(o)

\* An operation is given to the application at most once in a session, also
\* when it was published during the session and is both in the range of the
\* log and in the queue of the live mode; and it connects to the log of the
\* receiver: there is no gap between the height which was announced, the range
\* which is sent and the live mode, unless it was pruned and a prune point
\* follows.
DeliveredOnceAndInOrder ==
    \A p \in Peer :
        /\ IsInjective(delivered[p])
        /\ \A o \in rejected[p] : Superseded(o)

\* What the application is told about a session is true.  Progress never
\* exceeds what SyncStarted announced, although the logs are written and pruned
\* meanwhile; and a session which failed while it caught up reports as received
\* the operations which the application was given in it.
EventsAreTrue ==
    \A p \in Peer :
        LET m == session[p].metrics
        IN  /\ m.sent <= m.outbound
            /\ session[p].state \in {"Sync", "Live"} => m.received <= m.inbound
            /\ session[p].state = "Failed"
                 => told[p].ended \subseteq {Len(delivered[p])} \/ told[p].live

\* Peers never run into UnexpectedMessage, UnexpectedProtocolMessage or the
\* "non-protocol message received" of sync_channels: whatever the other peer
\* sent, ahead of time or not, is understood in the state in which it is read.
\* When no connection is lost both peers see the session finish, whoever closes
\* it and whatever is still on the wire; and a session which was asked to close
\* does not stay open.
ClosesGracefully ==
    /\ [](\A p \in Peer : wire[p].messages # <<>> => HasMessage(p, Understands(session[p])))
    /\ [](faults = 0 => \A p \in Peer : session[p].state # "Failed")
    /\ <>[](\A p \in Peer : ~IsClosing(p) /\ ~session[p].closeSent)

\* No peer stays in the exchange of past operations forever.
SyncPhaseEnds ==
    <>[](\A p \in Peer : session[p].state # "Sync")

\* Once nobody publishes any more the logs of both peers have the same height,
\* also when operations were published and pruned while the session was on its
\* way from one phase to the next, unless the session was closed or failed.
Converges ==
    <>[](\/ \E p \in Peer : Ended(p)
         \/ \A p, q \in Peer, l \in Log : Height(store[p], l) = Height(store[q], l))

=============================================================================
