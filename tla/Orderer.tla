------------------------------ MODULE Orderer -------------------------------
(***************************************************************************)
(* The "orderer" processor of p2panda-stream: one call of the causal       *)
(* orderer inside one write transaction, the drain of the ready queue in   *)
(* the same transaction, and after the commit the look-up of every freed   *)
(* operation and the hand-over to the next processor.                      *)
(*                                                                         *)
(* The ready queue is a table, the hand-over lives in memory: a failed     *)
(* look-up or a crash after the commit loses items which the table already *)
(* counts as handed out.                                                   *)
(***************************************************************************)
EXTENDS CausalOrderer

CONSTANTS
    NoItem,         \* no event is processed
    MaxBacklog,     \* bound: outputs which may wait when an event is taken
    MaxFailures,    \* bound: failing store calls
    MaxCrashes      \* bound: crashes of the process

ASSUME NoItemAssumption == NoItem \notin ID
ASSUME BoundsAssumption ==
    MaxBacklog \in Nat /\ MaxFailures \in Nat /\ MaxCrashes \in Nat

VARIABLES
    phase,          \* where Orderer::process stands
    input,          \* the event which is processed; meaningless when idle
    dependents,     \* dependent_operations
    fetched,        \* how many of them were looked up
    backup,         \* the committed tables, what a rollback restores
    events,         \* processor_events: operations with persisted metadata
    operations,     \* the operations table
    queue,          \* the processor's output queue
    outbox,         \* what left the processor, towards the next one
    lost,           \* history: items handed out by the table, dropped in memory
    failed,         \* history: events for which a store call failed
    failures,       \* store calls which may still fail
    crashes         \* crashes which may still happen

processor == <<phase, input, dependents, fetched, backup, events, queue, outbox>>
history == <<lost, failed, failures, crashes>>
allVars == <<vars, processor, operations, history>>

Committed == [ready |-> readyIndex, queued |-> inQueue, pending |-> pending,
              events |-> events, submitted |-> submitted, taken |-> taken]

\* The items of a sequence of outputs which are meant to reach the consumer.
ReadyItems(outputs) ==
    {outputs[k].id : k \in {n \in DOMAIN outputs :
                              outputs[n].result \in {"ReadyInput", "ReadyOutput"}}}

\* An event with its OrdererResult; ReadyInput also names what it freed.
Output(i, result) == [id |-> i, result |-> result, frees |-> {}]

Restore ==
    /\ readyIndex' = backup.ready
    /\ inQueue' = backup.queued
    /\ pending' = backup.pending
    /\ events' = backup.events
    /\ submitted' = backup.submitted
    /\ taken' = backup.taken
    /\ stack' = <<>>
    /\ UNCHANGED dependencies

\* The walk came to its end and inner.next has nothing left.
Drained == stack = <<>> /\ inQueue = {}

\* Mutant: no metadata is persisted.
SetEventNothing == events

\* set_event for the input.
SetEvent == events \union {input}

\* The input first, then everything it freed.
ReadyOutputs ==
    <<[Output(input, "ReadyInput") EXCEPT !.frees = Range(dependents)]>>
        \o [k \in DOMAIN dependents |-> Output(dependents[k], "ReadyOutput")]

\* Every call looks up its dependents from the first one on.
LookUpStart == 0

InTransaction == phase \in {"ordering", "buffering"}

-----------------------------------------------------------------------------
ProcessorInit ==
    /\ Init
    /\ phase = "idle"
    /\ input = NoItem
    /\ dependents = <<>>
    /\ fetched = 0
    /\ events = {}
    /\ backup = Committed
    /\ queue = <<>>
    /\ outbox = <<>>
    /\ lost = {}
    /\ failed = {}
    /\ failures \in 0..MaxFailures
    /\ crashes \in 0..MaxCrashes

\* Lock, begin, and the first part of inner.process.
BeginProcess(i) ==
    /\ phase = "idle"
    /\ Len(queue) + Len(outbox) <= MaxBacklog
    /\ Process(i)
    /\ phase' = IF ReadyQuery(Parents(i), Len(dependencies[i])) THEN "ordering" ELSE "buffering"
    /\ input' = i
    /\ dependents' = <<>>
    /\ fetched' = LookUpStart
    /\ backup' = Committed
    /\ UNCHANGED <<events, queue, outbox, operations, history>>

\* OrdererArgs::Ignore.
ProcessIgnored(i) ==
    /\ phase = "idle"
    /\ queue' = Append(queue, Output(i, "Ignored"))
    /\ UNCHANGED <<vars, phase, input, dependents, fetched, backup, events, outbox,
                   operations, history>>

Walk ==
    /\ phase = "ordering"
    /\ Visit \/ Return
    /\ UNCHANGED <<processor, operations, history>>

\* The loop over inner.next, which skips the input itself.
Drain(i) ==
    /\ phase = "ordering"
    /\ TakeNextReady(i)
    /\ dependents' = IF i = input THEN dependents ELSE Append(dependents, i)
    /\ UNCHANGED <<phase, input, fetched, backup, events, queue, outbox, operations, history>>

\* The queue is empty, commit.
CommitReady ==
    /\ phase = "ordering"
    /\ Drained
    /\ phase' = "fetching"
    /\ backup' = Committed
    /\ UNCHANGED <<vars, input, dependents, fetched, events, queue, outbox, operations, history>>

\* set_event and commit for an item with unmet dependencies.
CommitPending ==
    /\ phase = "buffering"
    /\ events' = SetEvent
    /\ backup' = [Committed EXCEPT !.events = SetEvent]
    /\ queue' = Append(queue, Output(input, "Pending"))
    /\ phase' = "idle"
    /\ UNCHANGED <<vars, input, dependents, fetched, outbox, operations, history>>

\* get_operation and get_event of the next dependent, after the commit.
FetchDependent ==
    LET i == dependents[fetched + 1]
    IN  /\ phase = "fetching"
        /\ fetched < Len(dependents)
        /\ i \in operations
        /\ i \in events
        /\ fetched' = fetched + 1
        /\ UNCHANGED <<vars, phase, input, dependents, backup, events, queue, outbox,
                       operations, history>>

\* A query of the store returns an error.
StoreCallFails ==
    /\ failures > 0
    /\ failures' = failures - 1
    /\ failed' = failed \union {input}

\* The look-up finds nothing (StoreInconsistency), or its query fails: the error
\* takes the place of the input and nothing of what was drained from the ready
\* queue is forwarded.  The commit is not undone.
FetchFails ==
    LET i == dependents[fetched + 1]
    IN  /\ phase = "fetching"
        /\ fetched < Len(dependents)
        /\ \/ (i \notin operations \/ i \notin events) /\ UNCHANGED <<failed, failures>>
           \/ StoreCallFails
        /\ phase' = "idle"
        /\ outbox' = Append(outbox, Output(input, "Failed"))
        /\ lost' = lost \union {input} \union Range(dependents)
        /\ UNCHANGED <<vars, input, dependents, fetched, backup, events, queue,
                       operations, crashes>>

Enqueue ==
    /\ phase = "fetching"
    /\ fetched = Len(dependents)
    /\ phase' = "idle"
    /\ queue' = queue \o ReadyOutputs
    /\ UNCHANGED <<vars, input, dependents, fetched, backup, events, outbox, operations, history>>

\* A store call before the commit fails: the permit is dropped, which rolls the
\* transaction back, and the error leaves the processor ahead of its queue.
StoreFails ==
    /\ InTransaction
    /\ StoreCallFails
    /\ Restore
    /\ phase' = "idle"
    /\ outbox' = Append(outbox, Output(input, "Failed"))
    /\ UNCHANGED <<input, dependents, fetched, backup, queue, operations, lost, crashes>>

\* Orderer::next, called by the task which drives the processor and not while
\* it awaits process.
EmitOutput ==
    /\ phase = "idle"
    /\ queue # <<>>
    /\ outbox' = Append(outbox, Head(queue))
    /\ queue' = Tail(queue)
    /\ UNCHANGED <<vars, phase, input, dependents, fetched, backup, events, operations, history>>

\* The next processor takes the event.
Consume ==
    /\ outbox # <<>>
    /\ outbox' = Tail(outbox)
    /\ UNCHANGED <<vars, phase, input, dependents, fetched, backup, events, queue,
                   operations, history>>

InMemory ==
    ReadyItems(queue) \union ReadyItems(outbox)
        \union (IF phase = "fetching" THEN {input} \union Range(dependents) ELSE {})

\* The process stops and is started again: memory is gone, so is what was not
\* committed.  Behind the processor the given items are lost as well.
Crash(behind) ==
    /\ crashes > 0
    /\ crashes' = crashes - 1
    /\ IF InTransaction THEN Restore ELSE UNCHANGED <<vars, events>>
    /\ lost' = lost \union InMemory \union behind
    /\ phase' = "idle"
    /\ input' = NoItem
    /\ dependents' = <<>>
    /\ fetched' = 0
    /\ queue' = <<>>
    /\ outbox' = <<>>
    /\ UNCHANGED <<backup, operations, failed, failures>>

=============================================================================
