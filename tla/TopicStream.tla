---------------------------- MODULE TopicStream -----------------------------
(***************************************************************************)
(* A topic stream of the p2panda node, its acknowledgments and re-plays.   *)
(*                                                                         *)
(* Two tasks work on a stream: one feeds operations into the pipeline,     *)
(* first the ones which are re-played, then the received, published and    *)
(* imported ones; the other takes the pipeline's results, acknowledges     *)
(* them and hands them over to the application.  Both end after the        *)
(* application dropped its last handle of the stream.  Operations and the  *)
(* cursor of acknowledged operations are persisted, everything else is     *)
(* gone after a crash.                                                     *)
(*                                                                         *)
(* Operation <<l, n>> is the n-th of log l, its seq_num is n - 1; a cursor *)
(* of 0 stands for a log without entry in the cursor.  An operation of a   *)
(* space may carry a message or only change the space, and is imported     *)
(* instead of published.  It may depend on others, and waits in the        *)
(* orderer of the pipeline until they arrive; what it frees follows while  *)
(* its own call has returned already.                                      *)
(***************************************************************************)
EXTENDS Integers, Sequences, FiniteSets, Functions

CONSTANTS
    Log,            \* numbers of logs, in the order in which they are re-played
    Local,          \* the logs the node itself writes to
    Spaces,         \* .. those of them which hold operations of spaces
    Length,         \* bound: operations of a log
    NoOp,
    body,           \* body[o]: "message", "garbled", "control" or "none"
    pruneFlag,      \* pruneFlag[o]: the log is pruned before the operation
    dependencies,   \* dependencies[o]: what has to be processed before o
    ChannelSize,    \* BUFFER_SIZE of the application's channel
    Publishers,     \* concurrent calls of StreamPublisher::publish
    MaxBacklog,     \* bound: results waiting when the pipeline takes an event
    Scenarios       \* the AckPolicy, and bounds: the operations which come
                    \* up, and how many crashes of the process, dropped
                    \* streams, failures of processors and of the store,
                    \* streams from the start, imports and received operations
                    \* there may be

Op == Log \X (1..Length)

ASSUME OpAssumption ==
    /\ Log \subseteq Nat /\ IsFiniteSet(Log) /\ Local \subseteq Log /\ Spaces \subseteq Local
    /\ Length \in Nat /\ NoOp \notin Op
ASSUME BodyAssumption ==
    /\ body \in [Op -> {"message", "garbled", "control", "none"}]
    /\ pruneFlag \in [Op -> BOOLEAN]
    /\ dependencies \in [Op -> SUBSET Op]
ASSUME BoundsAssumption ==
    /\ ChannelSize \in Nat \ {0} /\ Publishers \in Nat /\ MaxBacklog \in Nat
    /\ Scenarios \subseteq [policy : {"Automatic", "Explicit"}, ops : SUBSET Op, crashes : Nat,
                             drops : Nat, failures : Nat, resets : Nat, imports : Nat,
                             receives : Nat]

VARIABLES
    stored,     \* rows of operations_v1
    height,     \* highest operation of every log which was ever stored
    cursor,     \* the persisted cursor of the topic
    ready,      \* orderer_ready_v1
    waiting,    \* orderer_pending_v1 and the persisted metadata of its events
    phase,      \* the input task: "down", "replay", "live" or "ended"
    handles,    \* publishers, the subscription and their StreamDropGuard
    ranges,     \* operations which are still to be re-played
    forged,     \* operations of publish calls which are not in publish_tx yet
    published,  \* publish_tx
    import,     \* a stream of operations which the application imports
    input,      \* the event the input task waits for, and how far it got
    layers,     \* freed events on their way through the layers of the pipeline
    results,    \* from_pipeline_queue
    toOutput,   \* to_output_tx: markers around a re-play
    draining,   \* the output task is running
    held,       \* forward_events the output task works on
    channel,    \* app_tx
    unacked,    \* operations the application did not acknowledge yet, in order
    handled,    \* history: messages the application received
    told,       \* history: operations the application received an error for
    abandoned,  \* history: operations which were dropped with an error which
                \* does not name them
    missed,     \* history: operations on their way to the application when
                \* the process crashed or nobody listened
    scenario    \* the policy and what may still happen

task == <<ranges, forged, published, import, input>>
orderer == <<ready, waiting, layers>>
output == <<results, toOutput, draining, held, channel>>
store == <<stored, height, cursor>>
app == <<unacked, handled, told>>
history == <<abandoned, missed, scenario>>
vars == <<store, orderer, phase, handles, task, output, app, history>>

-----------------------------------------------------------------------------
Earlier(o) == {q \in Op : q[1] = o[1] /\ q[2] < o[2]}

\* Where an operation comes from: a re-play, the session of an import, or a sync
\* session and the node itself.
Replay == <<"replay", 0>>
Session(number) == <<"import", number>>
Other == <<"other", 0>>

\* An event which enters the pipeline.
Input(o, source) == [op |-> o, source |-> source, ingested |-> FALSE]

NoInput == Input(NoOp, Other)

\* What leaves the pipeline ("Completed", "Freed", "Failed"), and the stream's
\* events.
Item(event, o, source) == [event |-> event, op |-> o, source |-> source]

Marker(event, source) == Item(event, NoOp, source)

\* The announced end of a re-play or an import.
EndOf(source) == Marker(IF source = Replay THEN "ReplayEnded" ELSE "ImportEnded", source)

\* A stream which is imported: it was sent to the input task, inserted into the
\* set of active streams, or its operations are polled.
NoImport == [kind |-> "none", stage |-> "none", ops |-> <<>>, source |-> Other]

\* No handle exists; publishers and the subscription hold a guard each, which
\* count references and cancel the token.
NoHandles == [publishers |-> 0, subscribed |-> FALSE, counter |-> 0, cancelled |-> FALSE]

\* Mutant: the range begins one operation too late.
NackedExclusive(position) == {o \in stored : o[2] > position[o[1]] + 1}

\* Acked::nacked_log_ranges: what the store has beyond the cursor.
Nacked(position) == {o \in stored : o[2] > position[o[1]]}

\* log_ranges: log by log, every log in its order.
Precedes(a, b) == a[1] < b[1] \/ (a[1] = b[1] /\ a[2] < b[2])

InOrder(ops) ==
    CHOOSE s \in [1..Cardinality(ops) -> ops] :
        Range(s) = ops /\ \A m, n \in DOMAIN s : m < n => Precedes(s[m], s[n])

\* Cursor::advance
Advance(o) == IF cursor[o[1]] >= o[2] THEN cursor ELSE [cursor EXCEPT ![o[1]] = o[2]]

\* Mutant: messages are acknowledged whatever the policy is.
AcksItselfAlways(o) == body[o] # "garbled"

\* process_operation_out acknowledges a system-level event, and a message
\* which could be decoded if the policy says so.
AcksItself(o) == body[o] = "none" \/ (body[o] = "message" /\ scenario.policy = "Automatic")

\* The event for the application: an error, the message, or how a space changed.
\* A change of a space is never acknowledged.
EventOf(o) ==
    CASE body[o] = "message" -> "Processed"
      [] body[o] = "garbled" -> "DecodeFailed"
      [] body[o] = "control" -> "Space"

\* process_operation_out up to the acknowledgment.
Outcome(r) ==
    IF r.event = "Failed" THEN [r EXCEPT !.event = "ProcessingFailed"]
    ELSE [r EXCEPT !.event = IF AcksItself(r.op) THEN "Completed" ELSE EventOf(r.op)]

OpsOf(items) == {items[k].op : k \in DOMAIN items} \ {NoOp}

\* The output task may have ended; nobody reads its channels then.
Sent(queue, item) == IF draining THEN Append(queue, item) ELSE queue

-----------------------------------------------------------------------------
Init ==
    /\ stored = {}
    /\ height = [l \in Log |-> 0]
    /\ cursor = [l \in Log |-> 0]
    /\ ready = {}
    /\ waiting = {}
    /\ layers = <<>>
    /\ phase = "down"
    /\ handles = NoHandles
    /\ ranges = <<>>
    /\ forged = {}
    /\ published = <<>>
    /\ import = NoImport
    /\ input = NoInput
    /\ results = <<>>
    /\ toOutput = <<>>
    /\ draining = FALSE
    /\ held = <<>>
    /\ channel = <<>>
    /\ unacked = <<>>
    /\ handled = {}
    /\ told = {}
    /\ abandoned = {}
    /\ missed = {}
    /\ scenario \in Scenarios

\* processed_stream: compute what is re-played, start the tasks and return a
\* publisher and a subscription, whose guard is the clone of the first one.
\* Nothing is announced if nothing is re-played.  What an earlier pipeline still
\* has in its layers reaches nobody.
Start(position) ==
    /\ phase = "down"
    /\ layers = <<>>
    /\ cursor' = position
    /\ handles' = [publishers |-> 1, subscribed |-> TRUE, counter |-> 2, cancelled |-> FALSE]
    /\ draining' = TRUE
    /\ ranges' = InOrder(Nacked(position))
    /\ IF Nacked(position) = {}
       THEN phase' = "live" /\ UNCHANGED toOutput
       ELSE phase' = "replay" /\ toOutput' = <<Marker("ReplayStarted", Replay)>>
    /\ UNCHANGED <<stored, height, orderer, forged, published, import, input, results, held,
                   channel>>

\* Node::stream
Open ==
    /\ Start(cursor)
    /\ UNCHANGED <<app, history>>

\* Node::stream_from the start, by an application which materialises its state
\* again: the cursor is replaced.
OpenFromStart ==
    /\ scenario.resets > 0
    /\ Start([l \in Log |-> 0])
    /\ handled' = {}
    /\ unacked' = <<>>
    /\ scenario' = [scenario EXCEPT !.resets = @ - 1]
    /\ UNCHANGED <<told, abandoned, missed>>

-----------------------------------------------------------------------------
(* The input task.                                                         *)

\* Mutant: live operations do not wait for the end of the re-play.
IsLiveAlways == phase \in {"replay", "live"}

\* Re-playing blocks everything else.
IsLive == phase = "live"

\* process_operation_in awaits the pipeline, one event at a time.
MayInput == input = NoInput /\ Len(results) <= MaxBacklog

\* The next row; one which was pruned in the meantime may be seen or not.
ReplayOperation ==
    /\ phase = "replay"
    /\ MayInput
    /\ ranges # <<>>
    /\ \/ input' = Input(Head(ranges), Replay)
       \/ Head(ranges) \notin stored /\ UNCHANGED input
    /\ ranges' = Tail(ranges)
    /\ UNCHANGED <<store, orderer, phase, handles, forged, published, import, output, app,
                   history>>

ReplayEnded ==
    /\ phase = "replay"
    /\ input = NoInput
    /\ ranges = <<>>
    /\ toOutput' = Sent(toOutput, EndOf(Replay))
    /\ phase' = "live"
    /\ UNCHANGED <<store, orderer, handles, task, results, draining, held, channel, app, history>>

\* The store fails: the stream goes on without the rest of the re-play.
ReplayFailed ==
    /\ phase = "replay"
    /\ input = NoInput
    /\ ranges # <<>>
    /\ scenario.failures > 0
    /\ toOutput' = Sent(toOutput, Marker("ReplayFailed", Replay))
    /\ phase' = "live"
    /\ ranges' = <<>>
    /\ abandoned' = abandoned \union Range(ranges)
    /\ scenario' = [scenario EXCEPT !.failures = @ - 1]
    /\ UNCHANGED <<store, orderer, handles, forged, published, import, input, results, draining,
                   held, channel, app, missed>>

\* An operation of somebody else comes in, in whatever order.
Incoming(o, source) ==
    /\ IsLive
    /\ MayInput
    /\ o \in scenario.ops
    /\ o[1] \notin Local
    /\ scenario.receives > 0
    /\ input' = Input(o, source)
    /\ scenario' = [scenario EXCEPT !.receives = @ - 1]
    /\ UNCHANGED <<store, orderer, phase, handles, ranges, forged, published, import, output, app,
                   abandoned, missed>>

\* A sync session delivers an operation.
Receive(o) == Incoming(o, Other)

\* StreamPublisher::publish: the forge inserts the operation into the store, in
\* one transaction ..  The operations of a change of a space are forged one by
\* one.
Publish(l) ==
    LET o == <<l, height[l] + 1>>
    IN  /\ handles.publishers > 0
        /\ l \in Local
        /\ o \in scenario.ops
        /\ l \in Spaces \/ Cardinality(forged) < Publishers
        /\ stored' = stored \union {o}
        /\ height' = [height EXCEPT ![l] = @ + 1]
        /\ forged' = forged \union {o}
        /\ UNCHANGED <<cursor, orderer, phase, handles, ranges, published, import, input, output,
                       app, history>>

\* .. and then it is sent to the input task.
SendPublished(o) ==
    /\ o \in forged
    /\ o[1] \notin Spaces
    /\ forged' = forged \ {o}
    /\ published' = Append(published, o)
    /\ UNCHANGED <<store, orderer, phase, handles, ranges, import, input, output, app, history>>

TakePublished ==
    /\ IsLive
    /\ MayInput
    /\ published # <<>>
    /\ input' = Input(Head(published), Other)
    /\ published' = Tail(published)
    /\ UNCHANGED <<store, orderer, phase, handles, ranges, forged, import, output, app, history>>

-----------------------------------------------------------------------------
(* Imports.                                                                *)

SendImport(kind, ops, source) ==
    /\ handles.publishers > 0
    /\ import = NoImport
    /\ import' = [kind |-> kind, stage |-> "sent", ops |-> ops, source |-> source]
    /\ UNCHANGED <<store, orderer, phase, handles, ranges, published, input, output, app,
                   abandoned, missed>>

\* StreamPublisher::import: operations of others, from a file or a service; the
\* sessions of the imports are numbered.
ImportExternal ==
    /\ scenario.imports > 0
    /\ SendImport("external", <<>>, Session(scenario.imports))
    /\ scenario' = [scenario EXCEPT !.imports = @ - 1]
    /\ UNCHANGED forged

\* StreamPublisher::import_local: the operations of one change of a space.
ImportLocal ==
    LET batch == {o \in forged : o[1] \in Spaces}
    IN  /\ batch # {}
        /\ SendImport("local", InOrder(batch), Other)
        /\ forged' = forged \ batch
        /\ UNCHANGED scenario

\* The select of the input task polls its sources between two events.
Polls(kind, stage) ==
    IsLive /\ input = NoInput /\ import.kind = kind /\ import.stage = stage

Imports(stage) == import' = IF stage = "done" THEN NoImport ELSE [import EXCEPT !.stage = stage]

\* ExternalStream::insert, LocalStream::insert; the caller gets the future.
TakeImport(kind) ==
    /\ Polls(kind, "sent")
    /\ Imports(IF kind = "external" THEN "inserted" ELSE "polled")
    /\ UNCHANGED <<store, orderer, phase, handles, ranges, forged, published, input, output, app,
                   history>>

\* Start and end of an external stream are announced.
ImportStarted ==
    /\ Polls("external", "inserted")
    /\ toOutput' = Sent(toOutput, Marker("ImportStarted", import.source))
    /\ Imports("polled")
    /\ UNCHANGED <<store, orderer, phase, handles, ranges, forged, published, input, results,
                   draining, held, channel, app, history>>

ImportOperation(o) ==
    /\ import.kind = "external"
    /\ import.stage = "polled"
    /\ Incoming(o, import.source)

ImportLocalOperation ==
    /\ Polls("local", "polled")
    /\ MayInput
    /\ import.ops # <<>>
    /\ input' = Input(Head(import.ops), Other)
    /\ import' = [import EXCEPT !.ops = Tail(@)]
    /\ UNCHANGED <<store, orderer, phase, handles, ranges, forged, published, output, app,
                   history>>

\* The stream is exhausted and its future completes.
ImportEnded(kind) ==
    /\ Polls(kind, "polled")
    /\ import.ops = <<>>
    /\ toOutput' = IF kind = "external" THEN Sent(toOutput, EndOf(import.source)) ELSE toOutput
    /\ Imports("done")
    /\ UNCHANGED <<store, orderer, phase, handles, ranges, forged, published, input, results,
                   draining, held, channel, app, history>>

-----------------------------------------------------------------------------
(* The pipeline.                                                           *)

\* ingest_operation accepts what it has already, what comes next in the log,
\* and a prune point.
Accepts(o) ==
    o \in stored \/ o[2] = height[o[1]] + 1 \/ (pruneFlag[o] /\ o[2] > 1)

Ingest ==
    LET o == input.op
    IN  /\ input # NoInput
        /\ ~input.ingested
        /\ Accepts(o)
        /\ stored' = stored \union {o}
        /\ height' = [height EXCEPT ![o[1]] = IF @ < o[2] THEN o[2] ELSE @]
        /\ input' = [input EXCEPT !.ingested = TRUE]
        /\ UNCHANGED <<cursor, orderer, phase, handles, ranges, forged, published, import, output,
                       app, history>>

\* The orderer and the layers behind it work on one event after the other.
AtOrderer(isReady) ==
    /\ layers = <<>>
    /\ input.ingested
    /\ isReady = (dependencies[input.op] \subseteq ready)

\* What the operation frees: the smallest set which contains every waiting
\* operation whose dependencies are ready, the operation itself, or in the set.
Freed(o) ==
    LET all == {w.op : w \in waiting} \ {o}
    IN  {q \in all : \A S \in SUBSET all :
            (\A p \in all : dependencies[p] \subseteq ready \union {o} \union S => p \in S)
                => q \in S}

\* The orderer's tables after it processed an operation which is ready.
MarkReady(o) ==
    /\ ready' = ready \union {o} \union Freed(o)
    /\ waiting' = {w \in waiting : w.op \notin {o} \union Freed(o)}

\* The freed events, in causal order, with the source they were persisted with.
FreedEvents(o) ==
    {s \in [1..Cardinality(Freed(o)) ->
               {Item("Freed", w.op, w.source) : w \in {v \in waiting : v.op \in Freed(o)}}] :
        \A m, n \in DOMAIN s : m < n => /\ s[m] # s[n]
                                         /\ s[n].op \notin dependencies[s[m].op]}

\* The event is buffered; it has no result, and the input task goes on.
Buffer ==
    /\ AtOrderer(FALSE)
    /\ waiting' = {w \in waiting : w.op # input.op}
                    \union {[op |-> input.op, source |-> input.source]}
    /\ input' = NoInput
    /\ UNCHANGED <<store, ready, layers, phase, handles, ranges, forged, published, import, output,
                   app, history>>

\* The log_prune layer, behind the orderer.
Prune(o) == stored' = IF pruneFlag[o] THEN stored \ Earlier(o) ELSE stored

\* All processors are done: prune the log, queue the output and return.  What
\* the operation freed is still in the layers.
Complete ==
    /\ AtOrderer(TRUE)
    /\ MarkReady(input.op)
    /\ layers' \in FreedEvents(input.op)
    /\ Prune(input.op)
    /\ results' = Sent(results, Item("Completed", input.op, input.source))
    /\ input' = NoInput
    /\ UNCHANGED <<height, cursor, phase, handles, ranges, forged, published, import, toOutput,
                   draining, held, channel, app, history>>

\* The next freed event leaves the layers.
Release ==
    /\ layers # <<>>
    /\ Prune(Head(layers).op)
    /\ results' = Sent(results, Head(layers))
    /\ layers' = Tail(layers)
    /\ UNCHANGED <<height, cursor, ready, waiting, phase, handles, task, toOutput, draining, held,
                   channel, app, history>>

Fail ==
    /\ results' = Sent(results, Item("Failed", input.op, input.source))
    /\ input' = NoInput
    /\ UNCHANGED <<store, layers, phase, handles, ranges, forged, published, import, toOutput,
                   draining, held, channel, app, missed>>

\* Ingest rejects the operation.
Reject ==
    /\ input # NoInput
    /\ ~input.ingested
    /\ layers = <<>>
    /\ ~Accepts(input.op)
    /\ Fail
    /\ UNCHANGED <<ready, waiting, abandoned, scenario>>

\* A processor fails, before or after the operation was inserted; when this is
\* the orderer's look-up of what was freed, then that is dropped.
ProcessorFails ==
    /\ input # NoInput
    /\ scenario.failures > 0
    /\ Fail
    /\ scenario' = [scenario EXCEPT !.failures = @ - 1]
    /\ \/ UNCHANGED <<ready, waiting, abandoned>>
       \/ /\ AtOrderer(TRUE)
          /\ MarkReady(input.op)
          /\ abandoned' = abandoned \union Freed(input.op)

-----------------------------------------------------------------------------
(* The output task.                                                        *)


\* Results of the pipeline go before everything else.
PipelineFirst == results = <<>>

TakeResult ==
    /\ draining
    /\ held = <<>>
    /\ results # <<>>
    /\ held' = <<Outcome(Head(results))>>
    /\ results' = Tail(results)
    /\ UNCHANGED <<store, orderer, phase, handles, task, toOutput, draining, channel, app,
                   history>>

TakeMarker ==
    /\ draining
    /\ held = <<>>
    /\ PipelineFirst
    /\ toOutput # <<>>
    /\ held' = <<Head(toOutput)>>
    /\ toOutput' = Tail(toOutput)
    /\ UNCHANGED <<store, orderer, phase, handles, task, results, draining, channel, app, history>>

IsAcking == held # <<>> /\ Head(held).event = "Completed"

\* The rest of process_operation_out: acknowledge first; nothing is forwarded
\* of a system-level event.
AckResult ==
    LET item == Head(held)
    IN  /\ IsAcking
        /\ cursor' = Advance(item.op)
        /\ held' = IF body[item.op] = "none" THEN <<>>
                   ELSE <<[item EXCEPT !.event = "Processed"]>>
        /\ UNCHANGED <<stored, height, orderer, phase, handles, task, results, toOutput, draining,
                       channel, app, history>>

\* .. and if that fails: the application is told about it instead, or before the
\* message of a space.
AckFails ==
    LET item == Head(held)
    IN  /\ IsAcking
        /\ scenario.failures > 0
        /\ held' = <<[item EXCEPT !.event = "AckFailed"]>>
                     \o (IF item.op[1] \in Spaces /\ body[item.op] = "message"
                         THEN <<[item EXCEPT !.event = "Processed"]>> ELSE <<>>)
        /\ scenario' = [scenario EXCEPT !.failures = @ - 1]
        /\ UNCHANGED <<store, orderer, phase, handles, task, results, toOutput, draining, channel,
                       app, abandoned, missed>>

\* The application's channel has room, or its receiver is gone.
Forward ==
    /\ held # <<>>
    /\ ~IsAcking
    /\ IF handles.subscribed
       THEN /\ Len(channel) < ChannelSize
            /\ channel' = Append(channel, Head(held))
            /\ UNCHANGED missed
       ELSE missed' = missed \union OpsOf(<<Head(held)>>) /\ UNCHANGED channel
    /\ held' = Tail(held)
    /\ UNCHANGED <<store, orderer, phase, handles, task, results, toOutput, draining, app,
                   abandoned, scenario>>

-----------------------------------------------------------------------------
(* The application.                                                        *)

\* StreamSubscription::next, and what the application does with a message.
Handle ==
    LET item == Head(channel)
    IN  /\ channel # <<>>
        /\ channel' = Tail(channel)
        /\ IF item.event = "Processed"
           THEN /\ handled' = handled \union {item.op}
                /\ unacked' = IF scenario.policy = "Automatic" THEN unacked
                              ELSE Append(unacked, item.op)
                /\ UNCHANGED told
           ELSE /\ told' = told \union ({item.op} \ {NoOp})
                /\ UNCHANGED <<handled, unacked>>
        /\ UNCHANGED <<store, orderer, phase, handles, task, results, toOutput, draining, held,
                       history>>

\* ProcessedOperation::ack for what was handled, in the order of arrival.
Ack ==
    /\ unacked # <<>>
    /\ cursor' = Advance(Head(unacked))
    /\ unacked' = Tail(unacked)
    /\ UNCHANGED <<stored, height, orderer, phase, handles, task, output, handled, told, history>>

-----------------------------------------------------------------------------
(* The end of a stream.                                                    *)

\* A publisher and with it its guard is cloned, by an application which still
\* listens.
ClonePublisher ==
    /\ handles.publishers \in 1..Publishers
    /\ handles.subscribed
    /\ scenario.drops > 0
    /\ handles' = [handles EXCEPT !.publishers = @ + 1, !.counter = @ + 1]
    /\ UNCHANGED <<store, orderer, phase, task, output, app, history>>

\* Mutant: the counter is compared as if it was decremented before.
IsLastAfterwards(counter) == counter = 0

\* No reference is left behind.
IsLast(counter) == counter = 1

\* A handle goes away: StreamDropGuard::drop.
DropGuard(rest) ==
    /\ scenario.drops > 0
    /\ handles' = [rest EXCEPT !.counter = @ - 1, !.cancelled = IsLast(handles.counter)]
    /\ scenario' = [scenario EXCEPT !.drops = IF IsLast(handles.counter) THEN @ - 1 ELSE @]
    /\ UNCHANGED <<store, orderer, phase, task, results, toOutput, draining, held, app, abandoned>>

\* No call of publish or import borrows the publisher.
DropPublisher ==
    /\ handles.publishers > 0
    /\ handles.publishers = 1 => forged = {} /\ import.stage # "sent"
    /\ DropGuard([handles EXCEPT !.publishers = @ - 1])
    /\ UNCHANGED <<channel, missed>>

\* What waits in the channel is gone.
DropSubscription ==
    /\ handles.subscribed
    /\ DropGuard([handles EXCEPT !.subscribed = FALSE])
    /\ channel' = <<>>
    /\ missed' = missed \union OpsOf(channel)

\* The input task breaks out of its loop; what was sent to it is not processed.
InputEnds ==
    /\ handles.cancelled
    /\ IsLive
    /\ input = NoInput
    /\ phase' = IF draining THEN "ended" ELSE "down"
    /\ published' = <<>>
    /\ import' = NoImport
    /\ UNCHANGED <<store, orderer, handles, ranges, forged, input, output, app, history>>

\* .. and so does the output task once nothing is left for it to do.
OutputEnds ==
    /\ handles.cancelled
    /\ draining
    /\ held = <<>> /\ results = <<>> /\ toOutput = <<>>
    /\ draining' = FALSE
    /\ phase' = IF phase = "ended" THEN "down" ELSE phase
    /\ UNCHANGED <<store, orderer, handles, task, results, toOutput, held, channel, app, history>>

\* The process stops at any point.
Crash ==
    /\ phase # "down"
    /\ scenario.crashes > 0
    /\ scenario' = [scenario EXCEPT !.crashes = @ - 1]
    /\ phase' = "down"
    /\ handles' = NoHandles
    /\ ranges' = <<>> /\ forged' = {} /\ published' = <<>> /\ import' = NoImport
    /\ input' = NoInput /\ results' = <<>> /\ toOutput' = <<>> /\ draining' = FALSE
    /\ layers' = <<>> /\ held' = <<>> /\ channel' = <<>>
    /\ unacked' = <<>>
    /\ missed' = missed \union OpsOf(held \o channel)
    /\ UNCHANGED <<store, ready, waiting, handled, told, abandoned>>

Pipeline == Ingest \/ Buffer \/ Complete \/ Release \/ Reject
ImportTask ==
    \/ \E kind \in {"external", "local"} : TakeImport(kind) \/ ImportEnded(kind)
    \/ ImportStarted
    \/ ImportLocalOperation
OutputTask == TakeResult \/ TakeMarker \/ AckResult \/ Forward
Failure == ReplayFailed \/ ProcessorFails \/ AckFails

Next ==
    \/ Open \/ OpenFromStart
    \/ ReplayOperation \/ ReplayEnded
    \/ TakePublished
    \/ \E o \in Op : Receive(o) \/ ImportOperation(o)
    \/ \E l \in Log : Publish(l)
    \/ \E o \in Op : SendPublished(o)
    \/ ImportExternal \/ ImportLocal \/ ImportTask
    \/ Pipeline
    \/ OutputTask
    \/ Handle \/ Ack
    \/ ClonePublisher \/ DropPublisher \/ DropSubscription
    \/ InputEnds \/ OutputEnds
    \/ Failure
    \/ Crash

\* The tasks keep running, a select does not starve a branch, the application
\* reads its stream, acknowledges and opens it again, and does not keep a
\* publisher without a subscription for ever.
Fairness ==
    /\ WF_vars(Open)
    /\ WF_vars(ReplayOperation \/ ReplayEnded)
    /\ WF_vars(\E o \in Op : SendPublished(o))
    /\ WF_vars(ImportLocal)
    /\ SF_vars(TakePublished)
    /\ SF_vars(ImportTask)
    /\ WF_vars(Pipeline)
    /\ WF_vars(OutputTask)
    /\ WF_vars(Handle)
    /\ WF_vars(Ack)
    /\ SF_vars(DropPublisher /\ ~handles.subscribed)
    /\ WF_vars(InputEnds)
    /\ WF_vars(OutputEnds)

Spec == Init /\ [][Next]_vars

FairSpec == Spec /\ Fairness

-----------------------------------------------------------------------------
Reported == handled \union told \union abandoned

\* A prune point behind the operation is in the store: the operation is or will
\* be deleted, and is not wanted any more when it arrives now.
Superseded(o) == \E q \in stored : q[1] = o[1] /\ q[2] > o[2] /\ pruneFlag[q]

\* The stream acknowledges the operation itself before the application gets it:
\* by the automatic policy, or with an operation without body which follows in
\* the log.
AckedEarly(o) ==
    \/ scenario.policy = "Automatic"
    \/ \E q \in stored : q[1] = o[1] /\ q[2] > o[2] /\ body[q] = "none"

Skipped(o) == o \in missed /\ AckedEarly(o)

Settled(o) == o \in Reported \/ Superseded(o) \/ Skipped(o)

\* Operations of a log reach the application in the order of the log, wherever
\* they came from: a re-play, a sync session, an import or the application
\* itself.  When it handles a message there is nothing before it in the log which
\* it did not get, unless that failed, was pruned, or acknowledged too early.
HandledInLogOrder ==
    \A o \in handled : \A q \in stored \intersect Earlier(o) :
        body[q] # "none" => Settled(q)


\* "making sure no events get lost, even when facing system crashes": a message
\* which will not be re-played any more, since the cursor moved past it, was
\* handled, or the application was told about an error (a re-play which is given
\* up and a failed look-up excepted, their error does not name the operations),
\* or it was pruned.  What the stream acknowledges itself, before the application
\* got it, is lost when it was on its way at the moment of a crash or when
\* nobody listened, and nothing else is.
NoSilentLoss ==
    \A o \in stored : body[o] # "none" /\ o[2] <= cursor[o[1]] =>
        Settled(o) \/ (AckedEarly(o) /\ o \in OpsOf(held) \union OpsOf(channel))

Held == handles.publishers > 0 \/ handles.subscribed

\* "This is used to break out of relevant stream processing loops once all
\* publisher and subscription handles have been dropped": the tasks do end, and
\* the stream can be opened again.
EndsWithLastHandle == ~Held ~> phase = "down"

\* Every message which is stored, and waits for nothing, is handled by the
\* application or answered by an error at some point, across crashes of the
\* process and dropped streams, or it is pruned, or was acknowledged too early.
\* (The environment comes to rest, so there is a moment for all of them.)
EventuallyReported ==
    []<>(\A o \in stored : body[o] = "none" \/ ~(dependencies[o] \subseteq ready)
                              \/ o \in Reported \/ Skipped(o))

=============================================================================
