------------------------------ MODULE Pipeline ------------------------------
(***************************************************************************)
(* The event processor pipeline of the p2panda node: ingest, orderer, log  *)
(* prune and spaces, layered as streams, and the loop which puts the       *)
(* results on the output stream and marks tasks as done.                   *)
(*                                                                         *)
(* Every layer is driven by a task of its own with a channel in front of   *)
(* it.  That task either feeds the next input to the processor or moves    *)
(* the processor's next output on; an error of the processor goes straight *)
(* to the output channel and may overtake outputs which are still queued.  *)
(* The hooks layer is an infallible queue and left out.                    *)
(***************************************************************************)
EXTENDS Orderer

CONSTANTS
    Failures,   \* which operations a layer may reject: a set of functions
    Prunings    \* what may be deleted by prune flags: a set of functions

Layer == {"ingest", "prune", "spaces"}

ASSUME FailuresAssumption ==
    /\ Failures \subseteq [Layer -> SUBSET ID]
    /\ Prunings \subseteq [ID -> SUBSET ID]

VARIABLES
    rejects,    \* rejects[l]: operations which fail in layer l
    prunes,     \* prunes[i]: operations which are deleted when i is processed
    inbox,      \* channels in front of the layers and of the output loop
    done,       \* outputs queued inside of a layer's processor
    calls,      \* Pipeline::process per event: "none", "waiting", "done"
    blockers,   \* pending_dependencies of the output loop
    parent,     \* the event of the output loop's pending
    output,     \* from_pipeline_queue: what the node puts on the stream
    applied     \* history: events which the spaces manager handled, in order

given == <<rejects, prunes>>
layers == <<inbox, done>>
loop == <<calls, blockers, parent, output>>
pipeline == <<allVars, given, layers, loop, applied>>

\* The channel behind a layer.
After == [ingest |-> "orderer", prune |-> "spaces", spaces |-> "output"]

\* An event; noop sets its arguments for all later processors to "ignore".
Event(i) == [id |-> i, result |-> "none", frees |-> {}, active |-> TRUE]
Noop(e) == [e EXCEPT !.active = FALSE]

\* Mutant: pending events are not disabled.
StaysActiveIfPending(result) == result # "Failed"

\* Failed, pending and ignored events are disabled behind the orderer.
StaysActive(result) == result \in {"ReadyInput", "ReadyOutput"}

\* Mutant: pending events are forwarded.
ForwardedPending(e) == <<[id |-> e.id, ok |-> TRUE]>>

\* What the output loop puts on the stream, an event which failed as such.
Forwarded(e) == IF e.result = "Pending" THEN <<>> ELSE <<[id |-> e.id, ok |-> e.active]>>

\* Mutant: buffered events are only marked when they are ready.
MarkedUnlessPending(e, waitsFor, finished) ==
    IF finished THEN {waitsFor} ELSE IF e.result = "Pending" THEN {} ELSE {e.id}

\* The task which the output loop marks as done.
Marked(e, waitsFor, finished) == IF finished THEN {waitsFor} ELSE {e.id}

-----------------------------------------------------------------------------
PipelineInit ==
    /\ ProcessorInit
    /\ operations = {}
    /\ rejects \in Failures
    /\ prunes \in Prunings
    /\ inbox = [c \in Layer \union {"orderer", "output"} |-> <<>>]
    /\ done = [l \in Layer |-> <<>>]
    /\ calls = [i \in ID |-> "none"]
    /\ blockers = {}
    /\ parent = NoItem
    /\ output = <<>>
    /\ applied = <<>>

\* Pipeline::process: track the task and send the event.
Submit(i) ==
    /\ calls[i] = "none"
    /\ calls' = [calls EXCEPT ![i] = "waiting"]
    /\ inbox' = [inbox EXCEPT !["ingest"] = Append(@, Event(i))]
    /\ UNCHANGED <<allVars, given, done, blockers, parent, output, applied>>

\* What a processor does with an event which is not ignored.
Effect(l, i) ==
    CASE l = "ingest" -> operations' = operations \union {i} /\ UNCHANGED applied
      [] l = "prune"  -> operations' = operations \ prunes[i] /\ UNCHANGED applied
      [] l = "spaces" -> applied' = Append(applied, i) /\ UNCHANGED operations

\* The layer's task passes an input to the processor, which succeeds.
LayerProcess(l) ==
    LET e == Head(inbox[l])
    IN  /\ inbox[l] # <<>>
        /\ e.active => e.id \notin rejects[l]
        /\ IF e.active THEN Effect(l, e.id) ELSE UNCHANGED <<operations, applied>>
        /\ inbox' = [inbox EXCEPT ![l] = Tail(@)]
        /\ done' = [done EXCEPT ![l] = Append(@, e)]
        /\ UNCHANGED <<vars, given, processor, history, loop>>

\* .. or fails: the error passes by the processor's queue and the event is
\* disabled for everything which follows.
LayerFails(l) ==
    LET e == Head(inbox[l])
    IN  /\ inbox[l] # <<>>
        /\ e.active
        /\ e.id \in rejects[l]
        /\ inbox' = [inbox EXCEPT ![l] = Tail(@), ![After[l]] = Append(@, Noop(e))]
        /\ applied' = IF l = "spaces" THEN Append(applied, e.id) ELSE applied
        /\ UNCHANGED <<allVars, given, done, loop>>

\* The layer's task takes an output from the processor.
LayerEmit(l) ==
    /\ done[l] # <<>>
    /\ inbox' = [inbox EXCEPT ![After[l]] = Append(@, Head(done[l]))]
    /\ done' = [done EXCEPT ![l] = Tail(@)]
    /\ UNCHANGED <<allVars, given, loop, applied>>

OrdererTakes ==
    LET e == Head(inbox["orderer"])
    IN  /\ inbox["orderer"] # <<>>
        /\ IF e.active THEN BeginProcess(e.id) ELSE ProcessIgnored(e.id)
        /\ inbox' = [inbox EXCEPT !["orderer"] = Tail(@)]
        /\ UNCHANGED <<given, done, loop, applied>>

OrdererWorks ==
    /\ \/ Walk
       \/ \E i \in ID : Drain(i)
       \/ CommitReady
       \/ CommitPending
       \/ FetchDependent
       \/ FetchFails
       \/ Enqueue
       \/ EmitOutput
    /\ UNCHANGED <<given, layers, loop, applied>>

OrdererEmits ==
    LET e == Head(outbox)
    IN  /\ Consume
        /\ inbox' = [inbox EXCEPT !["prune"] =
                        Append(@, [id |-> e.id, result |-> e.result, frees |-> e.frees,
                                   active |-> StaysActive(e.result)])]
        /\ UNCHANGED <<given, done, loop, applied>>

\* One iteration of the output loop.
HandleOutput ==
    LET e == Head(inbox["output"])
        open == CASE e.result = "ReadyInput"  -> e.frees
                  [] e.result = "ReadyOutput" -> blockers \ {e.id}
                  [] OTHER                    -> blockers
        waitsFor == IF e.result = "ReadyInput" THEN e.id ELSE parent
        finished == waitsFor # NoItem /\ open = {}
    IN  /\ inbox["output"] # <<>>
        /\ inbox' = [inbox EXCEPT !["output"] = Tail(@)]
        /\ blockers' = open
        /\ parent' = IF finished THEN NoItem ELSE waitsFor
        /\ output' = output \o Forwarded(e)
        /\ calls' = [i \in ID |-> IF i \in Marked(e, waitsFor, finished) THEN "done" ELSE calls[i]]
        /\ UNCHANGED <<allVars, given, done, applied>>

\* A store call of the orderer fails before its commit.
OrdererFails == StoreFails /\ UNCHANGED <<given, layers, loop, applied>>

\* Events which the orderer handed out and which did not reach the output yet.
Behind ==
    (UNION {ReadyItems(inbox[c]) : c \in {"prune", "spaces", "output"}})
        \union (UNION {ReadyItems(done[l]) : l \in {"prune", "spaces"}})

\* The event was put on the stream and no processor failed for it.
IsOut(i) == [id |-> i, ok |-> TRUE] \in Range(output)

\* The process stops and is started again: channels, queues and tracked tasks
\* are gone.  What was not put on the stream is not acknowledged and will be
\* submitted again by a re-play.
Restart ==
    /\ Crash(Behind)
    /\ inbox' = [c \in DOMAIN inbox |-> <<>>]
    /\ done' = [l \in Layer |-> <<>>]
    /\ calls' = [i \in ID |-> IF IsOut(i) THEN "done" ELSE "none"]
    /\ blockers' = {}
    /\ parent' = NoItem
    /\ UNCHANGED <<given, output, applied>>

PipelineNext ==
    \/ \E i \in ID : Submit(i)
    \/ OrdererFails
    \/ Restart
    \/ \E l \in Layer : LayerProcess(l) \/ LayerFails(l) \/ LayerEmit(l)
    \/ OrdererTakes
    \/ OrdererWorks
    \/ OrdererEmits
    \/ HandleOutput

PipelineWorks ==
    \/ \E l \in Layer : LayerProcess(l) \/ LayerFails(l) \/ LayerEmit(l)
    \/ OrdererTakes
    \/ OrdererWorks
    \/ OrdererEmits
    \/ HandleOutput

\* The pipeline's thread keeps polling its layers.
PipelineSpec == PipelineInit /\ [][PipelineNext]_pipeline /\ WF_pipeline(PipelineWorks)

-----------------------------------------------------------------------------
\* Everything an item depends on comes before it, or is one of the given items.
Follows(items, n, except) ==
    Parents(items[n]) \subseteq {items[m] : m \in 1..(n - 1)} \union except

\* Events reach the spaces manager in causal order, whatever else failed in
\* this layer, and with all layers working concurrently.  Only what failed
\* behind the orderer's decision is missing: a dependency which was pruned while
\* it waited in the orderer, or for which the prune processor failed.
AppliedInOrder ==
    \A n \in DOMAIN applied : Follows(applied, n, lost \union rejects["prune"])

\* "Output events should arrive in topologically sorted, causal order": this
\* holds for all events which no processor failed for, also across a restart.
OutputInOrder ==
    LET ids == [n \in DOMAIN output |-> output[n].id]
    IN  \A n \in DOMAIN output : output[n].ok => Follows(ids, n, lost)

\* "Every input event needs to strictly lead to an equivalent output event,
\* otherwise the process who inserted the event will await a result forever.":
\* a call comes back unless the whole process is started again.
EveryCallIsAnswered ==
    \A i \in ID : (calls[i] = "waiting") ~> (calls[i] # "waiting")

=============================================================================
