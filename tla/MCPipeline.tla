----------------------------- MODULE MCPipeline -----------------------------
(* Instances of the pipeline: three events, numbered along the graph.      *)
EXTENDS Pipeline, SequencesExt

Lists(i) == {SetToSortSeq(S, <) : S \in SUBSET (1..(i - 1))}

Dags == {g \in [ID -> UNION {Lists(i) : i \in ID}] : \A i \in ID : g[i] \in Lists(i)}

\* No layer rejects anything, or ingest rejects the second event, or the two
\* layers behind the orderer reject one event each.
OneOrTwoFail ==
    {[l \in Layer |-> {}],
     [l \in Layer |-> IF l = "ingest" THEN {2} ELSE {}],
     [ingest |-> {}, prune |-> {1}, spaces |-> {2}]}

\* No prune flags, or the third event has one and sits above the second in its
\* log.
NoneOrSecond == {[i \in ID |-> {}], [i \in ID |-> IF i = 3 THEN {2} ELSE {}]}

\* No processor rejects an event, and none is pruned.
AllIsWell ==
    /\ \A l \in Layer : rejects[l] = {}
    /\ \A i \in ID : prunes[i] = {}

\* 1 frees 2, and 2 frees 3, when they arrive in reverse.
Chain == << <<>>, <<1>>, <<2>> >>

\* All graphs if nothing goes wrong.  Events are rejected or pruned, or a store
\* call fails or the process crashes, in the chain only.
OneFault ==
    \/ failures + crashes = 0 /\ (AllIsWell \/ dependencies = Chain)
    \/ failures + crashes = 1 /\ dependencies = Chain /\ AllIsWell

MCInit == PipelineInit /\ OneFault

MCSpec == MCInit /\ [][PipelineNext]_pipeline /\ WF_pipeline(PipelineWorks)

\* The events for which a store call failed, and this is on the stream.
FailureReported == {i \in failed : [id |-> i, ok |-> FALSE] \in Range(output)}

\* Once nothing fails any more every event comes out, in whatever order the
\* events arrive: also one which waited in the orderer, or which was handed out
\* by the ready table and dropped by a crash, and is re-played.  Excepted is
\* what follows an event for which a store call failed, and that failure is on
\* the stream: a look-up which fails after the orderer's commit drops what its
\* event freed, and only the event itself is reported.  (Not so if a dependency
\* of an event is also reached through another one.)
EverythingComesOut ==
    (/\ failures + crashes = 0
     /\ \A i \in ID : calls[i] # "none"
     /\ AllIsWell /\ IsReduced)
        ~> \A i \in ID :
               IsOut(i) \/ \E j \in FailureReported : j = i \/ j \in Ancestors(i)
=============================================================================
