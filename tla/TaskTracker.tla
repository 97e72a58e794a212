---------------------------- MODULE TaskTracker -----------------------------
(***************************************************************************)
(* Pipeline::process and the task tracker it waits on (p2panda): callers   *)
(* register a task for their event, send the event to the pipeline thread  *)
(* and wait until that thread marks the task as done.                      *)
(*                                                                         *)
(* Callers and the pipeline run on different threads, so every lock which  *)
(* is released is a point where the other side may run.  Notify is tokio's *)
(* primitive: notify_waiters wakes the futures which exist at that moment  *)
(* and leaves nothing behind for later ones.                               *)
(***************************************************************************)
EXTENDS Naturals, Sequences, FiniteSets

CONSTANTS
    Caller,     \* concurrent calls of Pipeline::process
    TaskId,     \* identifiers of events
    Instances   \* names of Task objects

VARIABLES
    tracked,    \* the tracker's map: identifier -> Task object
    created,    \* Task objects which were created
    result,     \* Task objects with a ready_result
    pc,         \* where every caller stands
    event,      \* the event every caller submits
    task,       \* the Task object every caller got
    channel,    \* to_pipeline_tx
    notify,     \* Task object whose ready_signal is about to fire
    waiting     \* callers which are registered with the ready_signal

vars == <<tracked, created, result, pc, event, task, channel, notify, waiting>>

NoInstance == "none"

Init ==
    /\ tracked = [t \in TaskId |-> NoInstance]
    /\ created = {}
    /\ result = {}
    /\ pc = [c \in Caller |-> "start"]
    /\ event \in [Caller -> TaskId]
    /\ task = [c \in Caller |-> NoInstance]
    /\ channel = <<>>
    /\ notify = NoInstance
    /\ waiting = {}

\* TaskTracker::track under the write lock, which mark_as_done holds until it
\* fired the signal: join the task or create it.
Track(c) ==
    /\ pc[c] = "start"
    /\ notify = NoInstance
    /\ \/ /\ tracked[event[c]] # NoInstance
          /\ task' = [task EXCEPT ![c] = tracked[event[c]]]
          /\ UNCHANGED <<tracked, created>>
       \/ /\ tracked[event[c]] = NoInstance
          /\ \E k \in Instances \ created :
                /\ created' = created \union {k}
                /\ tracked' = [tracked EXCEPT ![event[c]] = k]
                /\ task' = [task EXCEPT ![c] = k]
    /\ pc' = [pc EXCEPT ![c] = "send"]
    /\ UNCHANGED <<result, event, channel, notify, waiting>>

Send(c) ==
    /\ pc[c] = "send"
    /\ channel' = Append(channel, event[c])
    /\ pc' = [pc EXCEPT ![c] = "check"]
    /\ UNCHANGED <<tracked, created, result, event, task, notify, waiting>>

\* The first half of Task::ready: look at the result, release its lock.
CheckResult(c) ==
    /\ pc[c] = "check"
    /\ pc' = [pc EXCEPT ![c] = IF task[c] \in result THEN "returned" ELSE "register"]
    /\ UNCHANGED <<tracked, created, result, event, task, channel, notify, waiting>>

\* The second half: create the future which waits for the signal.
Register(c) ==
    /\ pc[c] = "register"
    /\ waiting' = waiting \union {c}
    /\ pc' = [pc EXCEPT ![c] = "wait"]
    /\ UNCHANGED <<tracked, created, result, event, task, channel, notify>>

\* Woken up: read the result, which is expected to exist.
WakeUp(c) ==
    /\ pc[c] = "wait"
    /\ c \notin waiting
    /\ pc' = [pc EXCEPT ![c] = IF task[c] \in result THEN "returned" ELSE "panicked"]
    /\ UNCHANGED <<tracked, created, result, event, task, channel, notify, waiting>>

\* The map without the task.
Remove(t) == [tracked EXCEPT ![t] = NoInstance]

\* A task nobody tracks gets no result.
SetResult(t) == result \union ({tracked[t]} \ {NoInstance})

\* The pipeline finished the oldest event and calls mark_as_done: remove the
\* task from the map and store the result.  A task nobody tracks is ignored.
MarkAsDone ==
    LET t == Head(channel)
    IN  /\ channel # <<>>
        /\ notify = NoInstance
        /\ channel' = Tail(channel)
        /\ tracked' = Remove(t)
        /\ notify' = tracked[t]
        /\ result' = SetResult(t)
        /\ UNCHANGED <<created, pc, event, task, waiting>>

\* .. then wake up everyone who is registered by now.
NotifyWaiters ==
    /\ notify # NoInstance
    /\ waiting' = {c \in waiting : task[c] # notify}
    /\ notify' = NoInstance
    /\ UNCHANGED <<tracked, created, result, pc, event, task, channel>>

CallerStep(c) ==
    Track(c) \/ Send(c) \/ CheckResult(c) \/ Register(c) \/ WakeUp(c)

PipelineStep == MarkAsDone \/ NotifyWaiters

Next == (\E c \in Caller : CallerStep(c)) \/ PipelineStep

\* Both threads keep running.
Spec ==
    /\ Init
    /\ [][Next]_vars
    /\ \A c \in Caller : WF_vars(CallerStep(c))
    /\ WF_vars(PipelineStep)

-----------------------------------------------------------------------------
TypeOK ==
    /\ tracked \in [TaskId -> Instances \union {NoInstance}]
    /\ created \subseteq Instances
    /\ result \subseteq created
    /\ pc \in [Caller -> {"start", "send", "check", "register", "wait", "returned", "panicked"}]
    /\ event \in [Caller -> TaskId]
    /\ task \in [Caller -> created \union {NoInstance}]
    /\ channel \in Seq(TaskId)
    /\ notify \in created \union {NoInstance}
    /\ waiting \subseteq Caller

\* A caller which is woken up finds a result: mark_as_done stores it before it
\* fires the signal ("result exists after ready signal was fired").
ResultExists == \A c \in Caller : pc[c] # "panicked"

\* A task stays in the map only as long as an event with its identifier is yet
\* to leave the pipeline, whoever sent it, so no caller joins a task which
\* nobody will mark as done and no task leaks.
TrackedTaskHasEvent ==
    \A t \in TaskId :
        tracked[t] # NoInstance =>
            \/ t \in {channel[k] : k \in DOMAIN channel}
            \/ \E c \in Caller : pc[c] = "send" /\ event[c] = t

\* Every call of Pipeline::process returns: "All processes which observe this
\* task will be notified on this ready signal".
EveryCallReturns ==
    \A c \in Caller : <>(pc[c] = "returned")

=============================================================================
